------------------------- MODULE ExecutorTickProofs -------------------------
(***************************************************************************)
(* More theorems about Executor, on what a tick does in the long run: the  *)
(* order in which it starts projects, the Jobs behind running projects,    *)
(* the gauge it sets, and how many Jobs it has active at a time.           *)
(***************************************************************************)
EXTENDS ExecutorProofs

InPass1 == pc \in {"pass1", "capture", "update", "delete"}
InPass2 == pc \in {"pass2", "mark"}

-----------------------------------------------------------------------------
(* What the other writers do to the list of a tick.                         *)

\* Some projects that do not run have been scheduled, and nothing else happened.
Rescheduled(before, after) ==
    \A p \in Projects :
        \/ after[p].status = before[p].status
        \/ after[p].status = "scheduled" /\ before[p].status \notin {"running", "absent"}

\* Requests and the cron callback only schedule, and in place they list nothing
\* (projectStatus.go:26-37, renovateJobManager.go:184-236).
LEMMA ScheduleInPlace ==
    ASSUME NEW table \in Table
    PROVE  /\ \A p \in Projects, n \in Priorities :
                 Rescheduled(table, UpdateInPlace(table, p, ScheduledBy(n)))
           /\ Rescheduled(table, ScheduleIdle(table))
           /\ Rescheduled(table, ScheduleAll(table))
           /\ Rescheduled(table, table)
  <1> USE DEF Rescheduled, Table, ScheduledBy, GetUpdateStatusForProject,
              validateProjectStatusScheduled
  <1>1. ASSUME NEW p \in Projects, NEW n \in Priorities
        PROVE  Rescheduled(table, UpdateInPlace(table, p, ScheduledBy(n)))
    BY DEF UpdateInPlace, UpdateProjectStatus
  <1>2. Rescheduled(table, ScheduleIdle(table))
    BY DEF ScheduleIdle, UpdateProjectStatusBatched
  <1>3. Rescheduled(table, ScheduleAll(table))
    BY DEF ScheduleAll, UpdateProjectStatusBatched
  <1> QED
    BY <1>1, <1>2, <1>3

\* A step of anybody but the executor ends the tick or leaves its progress alone,
\* and its list shows at most that projects have been scheduled.
LEMMA Bystanders ==
    ASSUME TypeOK, Writers \/ Environment
    PROVE  \/ LeaveTick
           \/ UNCHANGED progress /\ Rescheduled(snap, snap')
  <1>0. snap \in Table /\ {0, 1, 2} \subseteq Priorities
    BY DEF TypeOK, Table, Priorities
  <1>1. Rescheduled(snap, snap)
    BY <1>0, ScheduleInPlace
  <1>2. ASSUME NEW table, Rescheduled(snap, table), SeenByTick(table)
        PROVE  Rescheduled(snap, snap')
    BY <1>1, <1>2 DEF SeenByTick
  <1>3. NotSeenByTick \/ UNCHANGED snap => Rescheduled(snap, snap')
    BY <1>1 DEF NotSeenByTick
  <1>4. ASSUME NEW p \in Projects, NEW n \in Priorities,
               SeenByTick(UpdateInPlace(snap, p, ScheduledBy(n)))
        PROVE  Rescheduled(snap, snap')
    BY <1>0, <1>2, <1>4, ScheduleInPlace
  <1>5. SeenByTick(ScheduleIdle(snap)) \/ SeenByTick(ScheduleAll(snap))
            => Rescheduled(snap, snap')
    BY <1>0, <1>2, ScheduleInPlace
  <1>6. CASE Writers
    <2>1. ASSUME NEW p \in Projects, NEW n \in {1, 2}, RequestRun(p, n) \/ RequestFails(p, n)
          PROVE  UNCHANGED progress /\ Rescheduled(snap, snap')
      BY <1>0, <1>3, <1>4, <2>1 DEF RequestRun, RequestFails
    <2>2. CASE runRenovateForAllProjects \/ RequestAllFails
      BY <1>3, <1>5, <2>2 DEF runRenovateForAllProjects, RequestAllFails
    <2>3. ASSUME NEW d \in Discoverable, uiDiscovery(d) \/ cronReconcile(d) \/ reconcileFails(d)
          PROVE  UNCHANGED progress /\ Rescheduled(snap, snap')
      BY <1>3, <2>3 DEF uiDiscovery, cronReconcile, reconcileFails, StoreDiscovered
    <2>4. CASE cronSchedule \/ cronScheduleFails
      BY <1>3, <1>5, <2>4 DEF cronSchedule, cronScheduleFails
    <2> QED
      BY <1>6, <2>1, <2>2, <2>3, <2>4 DEF Writers, runRenovateForProject, webhookRunRenovate
  <1>7. CASE Environment
    BY <1>3, <1>7 DEF Environment, CleanUp, CleanUpFails, JobEnds, JobExpires, CacheLags,
                      CacheSync, Crash, tick
  <1> QED
    BY <1>6, <1>7

-----------------------------------------------------------------------------
(* The order of a tick.                                                     *)

\* In pass 1 the counter stands for projects that the list of the tick shows as
\* running.  In pass 2 it also stands for the projects started: none of those
\* comes after a project with a higher priority, and no scheduled project is
\* passed over.
OrderInvariant ==
    /\ InPass1 => \A p \in counted : snap[p].status = "running"
    /\ InPass2 =>
       /\ \A p \in counted : plan[p].status # "running" =>
             p \notin todo /\ \A q \in todo : plan[q].priority <= plan[p].priority
       /\ \A q \in Projects : plan[q].status = "scheduled" =>
             q \in counted \/ (q \in todo /\ snap[q].status = "scheduled")
    /\ pc = "mark" => cur \in counted /\ cur \notin todo

\* Outside a tick there is nothing to keep.
LEMMA NoTickNoOrder == ASSUME pc' = "idle" PROVE OrderInvariant'
  BY DEF OrderInvariant, InPass1, InPass2

\* The steps of the executor keep the order (executor.go:161-278).
LEMMA OrderSteps ==
    ASSUME TypeOK, OrderInvariant, ExecutorStep \/ ExecutorFault
    PROVE  OrderInvariant'
  <1> USE DEF OrderInvariant, InPass1, InPass2
  <1>1. CASE BeginTick
    BY <1>1, GetRenovateJobType DEF BeginTick, GetProjectsByStatus, Table
  <1>2. ASSUME NEW p \in Projects, NEW visible, VisitRunning(p, visible)
        PROVE  OrderInvariant'
    BY <1>2 DEF VisitRunning
  <1>3. CASE CaptureMetrics \/ DeleteSuccessful
    BY <1>3 DEF CaptureMetrics, DeleteSuccessful, LeaveVisit
  <1>4. CASE RecordOutcome
    <2>1. cur \in Projects /\ snap \in Table
      BY <1>4 DEF RecordOutcome, TypeOK, Table
    <2>2. \A q \in Projects \ {cur} : snap'[q] = snap[q]
      BY <1>4, <2>1, UpdateProjectStatusType, UpdatesType
         DEF RecordOutcome, SeenByTick, UpdateInPlace
    <2>3. counted' = counted \ {cur} /\ pc' \in {"pass1", "delete"} /\ InPass1
      BY <1>4 DEF RecordOutcome, LeaveVisit
    <2> QED
      BY <2>2, <2>3 DEF TypeOK
  <1>5. CASE BeginPass2
    BY <1>5 DEF BeginPass2, TypeOK, ProjectEntry
  <1>6. ASSUME NEW p \in Projects, SkipProject(p) PROVE OrderInvariant'
    BY <1>6 DEF SkipProject
  <1>7. ASSUME NEW p \in Projects, StartJob(p) PROVE OrderInvariant'
    BY <1>7 DEF StartJob, NextInOrder
  <1>8. CASE MarkRunning
    <2>1. cur \in Projects /\ snap \in Table
      BY <1>8 DEF MarkRunning, TypeOK, Table
    <2>2. \A q \in Projects \ {cur} : snap'[q] = snap[q]
      BY <1>8, <2>1, UpdateProjectStatusType, UpdatesType
         DEF MarkRunning, SeenByTick, UpdateInPlace
    <2>3. pc = "mark" /\ pc' = "pass2" /\ UNCHANGED <<plan, counted, todo>>
      BY <1>8 DEF MarkRunning, LeaveVisit
    <2> QED
      BY <2>1, <2>2, <2>3
  <1>9. CASE pc' = "idle"
    BY <1>9, NoTickNoOrder
  <1> QED
    BY <1>1, <1>2, <1>3, <1>4, <1>5, <1>6, <1>7, <1>8, <1>9
       DEF ExecutorStep, ExecutorFault, LookUpJob, LookUpJobStale, EndTick, LookUpFails,
           RecordOutcomeFails, MarkRunningFails, WriteFails, DeleteFails, StartJobFails, LeaveTick

\* Requests, discoveries and failed writes in the middle of a tick keep it as well,
\* although some of them show in the list the tick works from.
LEMMA OrderBystanders ==
    ASSUME TypeOK, OrderInvariant, Writers \/ Environment
    PROVE  OrderInvariant'
  <1>1. CASE LeaveTick
    BY <1>1, NoTickNoOrder DEF LeaveTick
  <1>2. CASE UNCHANGED progress /\ Rescheduled(snap, snap')
    <2>1. UNCHANGED <<pc, plan, counted, todo, cur>>
      BY <1>2 DEF progress
    <2>2. counted \subseteq Projects /\ todo \subseteq Projects
      BY DEF TypeOK
    <2> QED
      BY <1>2, <2>1, <2>2 DEF OrderInvariant, InPass1, InPass2, Rescheduled
  <1> QED
    BY <1>1, <1>2, Bystanders

\* OrderInvariant holds in every tick.
LEMMA OrderHolds == Spec => []OrderInvariant
  <1>1. Init => OrderInvariant
    BY DEF Init, OrderInvariant, InPass1, InPass2
  <1>2. TypeOK /\ OrderInvariant /\ [Next]_vars => OrderInvariant'
    <2> SUFFICES ASSUME TypeOK, OrderInvariant, [Next]_vars PROVE OrderInvariant'
      OBVIOUS
    <2>1. CASE UNCHANGED vars
      BY <2>1 DEF vars, tick, progress, OrderInvariant, InPass1, InPass2
    <2> QED
      BY <2>1, OrderSteps, OrderBystanders DEF Next
  <1> QED
    BY <1>1, <1>2, TypeCorrect, PTL DEF Spec

\* A tick never starts a project before one that was scheduled with a higher
\* priority when it sorted the list, whatever is requested meanwhile and whatever
\* the informer cache shows (executor.go:243-278).
THEOREM PrioritiesAreRespected == Spec => []PriorityRespected
  <1>1. TypeOK /\ OrderInvariant => PriorityRespected
    BY DEF TypeOK, OrderInvariant, InPass2, PriorityRespected, StartedThisTick,
           GetProjectsByStatus
  <1> QED
    BY <1>1, OrderHolds, TypeCorrect, PTL

-----------------------------------------------------------------------------
(* The Job behind a running project.                                        *)

HasJob(p) == \E j \in jobs : j.project = p /\ j.gen = lastGen[p]

ShownRunning(p) == projects[p].status = "running" \/ cached[p].status = "running"

\* A pending cleanup spares the newest Job, as each project starts at most once in
\* a tick and the cleanups of a tick end before the next.
CleanupsInvariant ==
    /\ \A c \in cleanups : c.gen = lastGen[c.project]
    /\ InPass1 => cleanups = {}
    /\ InPass2 => \A c \in cleanups : c.project \notin todo

\* The Job found belongs to the project of the visit, and is deleted only if it was
\* a success.
FoundInvariant ==
    /\ pc \in {"capture", "update", "delete"} => found = NotFound \/ found.project = cur
    /\ pc = "delete" => found.phase = "complete"

\* Every table shows as running only projects with their newest Job in place.  What
\* is deleted after a success no longer counts as running.
JobInvariant ==
    /\ CleanupsInvariant
    /\ FoundInvariant
    /\ \A p \in Projects : ShownRunning(p) => HasJob(p)
    /\ pc = "mark" => HasJob(cur)
    /\ pc = "delete" => ~ShownRunning(cur)

\* A table shows a project as running only if an earlier one did, or if the executor
\* marks it (projectStatus.go:39-70).
LEMMA RunningComesFromMark ==
    ASSUME TypeOK, FoundEnded, NEW before \in Table, NEW after, WrittenFrom(before, after),
           NEW p \in Projects, after[p].status = "running"
    PROVE  before[p].status = "running" \/ (pc = "mark" /\ p = cur)
  <1> USE DEF Table, GetUpdateStatusForProject, validateProjectStatusScheduled, ScheduledBy
  <1>1. CASE \E q \in Projects, n \in Priorities :
                after = UpdateProjectStatus(before, q, ScheduledBy(n))
    BY <1>1 DEF UpdateProjectStatus
  <1>2. CASE pc = "update" /\ after = UpdateProjectStatus(before, cur, Outcome)
    <2>1. cur \in Projects /\ Outcome.status \in {"completed", "failed"}
      BY <1>2 DEF TypeOK, FoundEnded, Outcome, getJobStatus
    <2> QED
      BY <1>2, <2>1 DEF UpdateProjectStatus, validateProjectStatusCompleted,
                        validateProjectStatusFailed
  <1>3. CASE pc = "mark" /\ after = UpdateProjectStatus(before, cur, Started)
    BY <1>3 DEF UpdateProjectStatus, TypeOK
  <1>4. CASE after = ScheduleIdle(before)
    BY <1>4 DEF ScheduleIdle, UpdateProjectStatusBatched
  <1>5. CASE after = ScheduleAll(before)
    BY <1>5 DEF ScheduleAll, UpdateProjectStatusBatched
  <1>6. CASE \E d \in Discoverable : after = ReconcileProjects(before, d)
    BY <1>6 DEF ReconcileProjects, NotListed
  <1> QED
    BY <1>1, <1>2, <1>3, <1>4, <1>5, <1>6 DEF WrittenFrom

\* The same of the stored table and of the cache together.
LEMMA ShownRunningStep ==
    ASSUME TypeOK, FoundEnded, [Next]_vars, NEW p \in Projects, ShownRunning(p)'
    PROVE  ShownRunning(p) \/ (pc = "mark" /\ p = cur)
  <1>1. projects \in Table /\ cached \in Table /\ GetRenovateJob \in Table
    BY GetRenovateJobType DEF TypeOK, Table
  <1>2. GetRenovateJob \in {projects, cached}
    BY DEF GetRenovateJob
  <1>3. StoreStep
    BY StoreSteps
  <1>4. CASE projects'[p].status = "running"
    BY <1>1, <1>2, <1>3, <1>4, RunningComesFromMark DEF StoreStep, ShownRunning
  <1>5. CASE cached'[p].status = "running"
    <2>1. EmptyTable[p].status # "running"
      BY DEF EmptyTable, NotListed
    <2> QED
      BY <1>1, <1>2, <1>3, <1>5, <2>1, RunningComesFromMark DEF StoreStep, ShownRunning
  <1> QED
    BY <1>4, <1>5 DEF ShownRunning

\* The newest Job of a project stays, unless the executor deletes it after a success
\* (jobManager.go:42-137, executor.go:229-237).
LEMMA NewestJobStays ==
    ASSUME TypeOK, JobInvariant, ~JobTTL, [Next]_vars, NEW p \in Projects, HasJob(p)
    PROVE  HasJob(p)' \/ (pc = "delete" /\ p = cur)
  <1>0. PICK j \in jobs : j.project = p /\ j.gen = lastGen[p]
    BY DEF HasJob
  <1>1. CASE UNCHANGED <<jobs, lastGen>>
    BY <1>1 DEF HasJob
  <1>2. ASSUME NEW q \in Projects, jobs' = jobs \cup {NewJob(q)},
               lastGen' = [lastGen EXCEPT ![q] = @ + 1]
        PROVE  HasJob(p)'
    <2>1. CASE q = p
      <3>1. NewJob(p).project = p /\ NewJob(p).gen = lastGen[p] + 1
        BY DEF NewJob
      <3>2. lastGen'[p] = lastGen[p] + 1 /\ NewJob(p) \in jobs'
        BY <1>2, <2>1 DEF TypeOK
      <3> QED
        BY <3>1, <3>2 DEF HasJob
    <2>2. CASE q # p
      BY <1>0, <1>2, <2>2 DEF HasJob, TypeOK
    <2> QED
      BY <2>1, <2>2
  <1>3. CASE /\ pc = "delete" /\ jobs' = DeleteJob(jobs, found.project, found.gen)
             /\ UNCHANGED lastGen
    <2>1. found.project = cur
      BY <1>3 DEF JobInvariant, FoundInvariant, NotFound
    <2> QED
      BY <1>0, <1>3, <2>1 DEF HasJob, DeleteJob
  <1>4. ASSUME NEW c \in cleanups, NEW kept, UNCHANGED lastGen,
               jobs' = jobs \ (OtherGenerations(jobs, c.project, c.gen) \ kept)
        PROVE  HasJob(p)'
    <2>1. c.gen = lastGen[c.project]
      BY DEF JobInvariant, CleanupsInvariant
    <2>2. j \notin OtherGenerations(jobs, c.project, c.gen)
      BY <1>0, <2>1 DEF OtherGenerations, GetJobsByLabel
    <2> QED
      BY <1>0, <1>4, <2>2 DEF HasJob
  <1>5. ASSUME NEW k \in jobs, NEW phase, JobEnds(k, phase)
        PROVE  HasJob(p)'
    <2>1. CASE j = k
      <3>1. [k EXCEPT !.phase = phase] \in jobs'
        BY <1>5 DEF JobEnds
      <3>2. /\ [k EXCEPT !.phase = phase].project = k.project
            /\ [k EXCEPT !.phase = phase].gen = k.gen
        BY DEF TypeOK, JobRecord
      <3> QED
        BY <1>0, <1>5, <2>1, <3>1, <3>2 DEF HasJob, JobEnds
    <2>2. CASE j # k
      BY <1>0, <1>5, <2>2 DEF HasJob, JobEnds
    <2> QED
      BY <2>1, <2>2
  <1>6. CASE ExecutorStep
    BY <1>1, <1>2, <1>3, <1>6
       DEF ExecutorStep, BeginTick, LookUpJob, VisitRunning, CaptureMetrics, RecordOutcome,
           DeleteSuccessful, BeginPass2, SkipProject, StartJob, MarkRunning, EndTick
  <1>7. CASE ExecutorFault
    BY <1>1, <1>2, <1>3, <1>7
       DEF ExecutorFault, LookUpJobStale, VisitRunning, LookUpFails, RecordOutcomeFails,
           MarkRunningFails, WriteFails, DeleteFails, StartJobFails
  <1>8. CASE Writers
    BY <1>1, <1>8
       DEF Writers, runRenovateForProject, webhookRunRenovate, RequestRun,
           runRenovateForAllProjects, RequestFails, RequestAllFails, uiDiscovery, cronReconcile,
           reconcileFails, cronSchedule, cronScheduleFails
  <1>9. CASE Environment
    <2>1. ASSUME NEW c \in cleanups, CleanUp(c) \/ CleanUpFails(c) PROVE HasJob(p)'
      <3>1. CASE CleanUp(c)
        <4>1. /\ UNCHANGED lastGen
              /\ jobs' = jobs \ (OtherGenerations(jobs, c.project, c.gen) \ {})
          BY <3>1 DEF CleanUp
        <4> QED
          BY <1>4, <4>1
      <3>2. CASE CleanUpFails(c)
        BY <1>4, <3>2 DEF CleanUpFails
      <3> QED
        BY <2>1, <3>1, <3>2
    <2> QED
      BY <1>1, <1>5, <1>9, <2>1 DEF Environment, JobExpires, CacheLags, CacheSync, Crash
  <1>10. CASE UNCHANGED vars
    BY <1>1, <1>10 DEF vars
  <1> QED
    BY <1>6, <1>7, <1>8, <1>9, <1>10 DEF Next

\* A project is started once per tick, so no pending cleanup gets outdated
\* (jobManager.go:99-137, executor.go:251-278).
LEMMA CleanupsStep ==
    ASSUME TypeOK, CleanupsInvariant, ~LateCleanup, [Next]_vars
    PROVE  CleanupsInvariant'
  <1> USE DEF CleanupsInvariant, InPass1, InPass2
  <1>1. ASSUME cleanups' \subseteq cleanups, UNCHANGED lastGen,
               \/ pc' = "idle"
               \/ InPass1 /\ pc' \in {"pass1", "capture", "update", "delete", "pass2"}
               \/ InPass2 /\ InPass2' /\ todo' \subseteq todo
               \/ UNCHANGED <<pc, todo>>
        PROVE  CleanupsInvariant'
    BY <1>1
  <1>2. CASE BeginTick
    BY <1>2 DEF BeginTick
  <1>3. ASSUME NEW p \in Projects, StartJob(p) PROVE CleanupsInvariant'
    <2> DEFINE new == [project |-> p, gen |-> lastGen[p] + 1]
    <2>1. /\ cleanups' = cleanups \cup {new} /\ pc' = "mark" /\ InPass2
          /\ todo' = todo \ {p} /\ p \in todo
          /\ lastGen' = [lastGen EXCEPT ![p] = @ + 1]
      BY <1>3 DEF StartJob, NextInOrder
    <2>2. new.project = p /\ new.gen = lastGen[p] + 1 /\ lastGen'[p] = lastGen[p] + 1
      BY <2>1 DEF TypeOK
    <2>3. \A c \in cleanups : c.project # p /\ lastGen'[c.project] = lastGen[c.project]
      BY <2>1 DEF TypeOK
    <2> HIDE DEF new
    <2> QED
      BY <2>1, <2>2, <2>3
  <1>4. ASSUME NEW p \in Projects, StartJobFails(p) PROVE CleanupsInvariant'
    <2>1. /\ UNCHANGED cleanups /\ pc' = "idle" /\ InPass2 /\ p \in todo
          /\ lastGen' = lastGen \/ lastGen' = [lastGen EXCEPT ![p] = @ + 1]
      BY <1>4 DEF StartJobFails, NextInOrder, LeaveTick
    <2>2. \A c \in cleanups : c.project # p /\ lastGen'[c.project] = lastGen[c.project]
      BY <2>1 DEF TypeOK
    <2> QED
      BY <2>1, <2>2
  <1>5. CASE ExecutorStep /\ ~BeginTick /\ ~\E p \in Projects : StartJob(p)
    BY <1>1, <1>5
       DEF ExecutorStep, LookUpJob, VisitRunning, CaptureMetrics, RecordOutcome,
           DeleteSuccessful, BeginPass2, SkipProject, MarkRunning, EndTick, LeaveVisit, LeaveTick
  <1>6. CASE ExecutorFault /\ ~\E p \in Projects : StartJobFails(p)
    BY <1>1, <1>6
       DEF ExecutorFault, LookUpJobStale, VisitRunning, LookUpFails, RecordOutcomeFails,
           MarkRunningFails, WriteFails, DeleteFails, LeaveTick
  <1>7. CASE Writers
    BY <1>1, <1>7
       DEF Writers, runRenovateForProject, webhookRunRenovate, RequestRun,
           runRenovateForAllProjects, RequestFails, RequestAllFails, uiDiscovery, cronReconcile,
           reconcileFails, cronSchedule, cronScheduleFails, progress
  <1>8. CASE Environment
    BY <1>1, <1>8 DEF Environment, CleanUp, CleanUpFails, JobEnds, JobExpires, CacheLags,
                      CacheSync, Crash, LeaveTick, tick, progress
  <1>9. CASE UNCHANGED vars
    BY <1>1, <1>9 DEF vars, tick, progress
  <1> QED
    BY <1>2, <1>3, <1>4, <1>5, <1>6, <1>7, <1>8, <1>9 DEF Next, ExecutorStep, ExecutorFault

\* Pass 1 deletes what it looked up (executor.go:181-237).
LEMMA FoundStep ==
    ASSUME TypeOK, FoundInvariant, [Next]_vars
    PROVE  FoundInvariant'
  <1> USE DEF FoundInvariant
  <1>1. ASSUME NEW p \in Projects, NEW visible, VisitRunning(p, visible)
        PROVE  FoundInvariant'
    BY <1>1 DEF VisitRunning, GetJobByLabel, GetJobsByLabel
  <1>2. CASE CaptureMetrics
    BY <1>2 DEF CaptureMetrics
  <1>3. CASE RecordOutcome
    BY <1>3 DEF RecordOutcome, LeaveVisit, Outcome, getJobStatus
  <1>4. CASE pc' \notin {"capture", "update", "delete"}
    BY <1>4
  <1>5. CASE UNCHANGED progress
    BY <1>5 DEF progress
  <1>6. CASE ExecutorStep
    BY <1>1, <1>2, <1>3, <1>4, <1>6
       DEF ExecutorStep, BeginTick, LookUpJob, DeleteSuccessful, BeginPass2, SkipProject,
           StartJob, MarkRunning, EndTick, LeaveVisit, LeaveTick
  <1>7. CASE ExecutorFault
    BY <1>1, <1>4, <1>7
       DEF ExecutorFault, LookUpJobStale, LookUpFails, RecordOutcomeFails,
           MarkRunningFails, WriteFails, DeleteFails, StartJobFails, LeaveTick
  <1>8. CASE Writers \/ Environment
    BY <1>4, <1>5, <1>8, Bystanders DEF LeaveTick
  <1>9. CASE UNCHANGED vars
    BY <1>5, <1>9 DEF vars, tick
  <1> QED
    BY <1>6, <1>7, <1>8, <1>9 DEF Next

\* A project whose success is recorded is no longer shown as running.
LEMMA DeleteAfterEnd ==
    ASSUME TypeOK, FoundEnded, JobInvariant, [Next]_vars, pc' = "delete"
    PROVE  ~ShownRunning(cur)'
  <1>1. CASE RecordOutcome
    <2>1. pc = "update" /\ cur \in Projects /\ GetRenovateJob \in Table /\ cur' = cur
      BY <1>1, GetRenovateJobType DEF RecordOutcome, TypeOK, LeaveVisit
    <2>2. Outcome.status \in {"completed", "failed"}
      BY <2>1 DEF FoundEnded, Outcome, getJobStatus
    <2>3. /\ UpdateProjectStatus(GetRenovateJob, cur, Outcome)[cur].status # "running"
          /\ UpdateInPlace(GetRenovateJob, cur, Outcome)[cur].status # "running"
          /\ EmptyTable[cur].status # "running"
      BY <2>1, <2>2 DEF UpdateProjectStatus, UpdateInPlace, GetUpdateStatusForProject, Table,
                        validateProjectStatusCompleted, validateProjectStatusFailed, EmptyTable,
                        NotListed
    <2>4. /\ projects' = UpdateProjectStatus(GetRenovateJob, cur, Outcome)
          /\ cached' \in {EmptyTable, UpdateInPlace(GetRenovateJob, cur, Outcome)}
      BY <1>1 DEF RecordOutcome, LocalWrite, FollowApiServer
    <2> QED
      BY <2>1, <2>3, <2>4 DEF ShownRunning
  <1>2. CASE pc = "delete" /\ cur' = cur
    <2>1. cur \in Projects /\ ~ShownRunning(cur)
      BY <1>2 DEF TypeOK, JobInvariant
    <2>2. ASSUME NEW p \in Projects, p = cur PROVE ~ShownRunning(p)'
      BY <1>2, <2>1, <2>2, ShownRunningStep DEF ShownRunning
    <2> QED
      BY <1>2, <2>1, <2>2 DEF ShownRunning
  <1>3. CASE ExecutorStep
    BY <1>1, <1>3
       DEF ExecutorStep, BeginTick, LookUpJob, VisitRunning, CaptureMetrics, DeleteSuccessful,
           BeginPass2, SkipProject, StartJob, MarkRunning, EndTick, LeaveVisit, LeaveTick
  <1>4. CASE ExecutorFault
    BY <1>4
       DEF ExecutorFault, LookUpJobStale, VisitRunning, LookUpFails, RecordOutcomeFails,
           MarkRunningFails, WriteFails, DeleteFails, StartJobFails, LeaveTick
  <1>5. CASE Writers \/ Environment
    BY <1>2, <1>5, Bystanders DEF LeaveTick, progress
  <1>6. CASE UNCHANGED vars
    BY <1>2, <1>6 DEF vars, tick, progress
  <1> QED
    BY <1>3, <1>4, <1>5, <1>6 DEF Next

\* A project that is about to be marked has its Job (executor.go:255-277).
LEMMA JobBeforeMark ==
    ASSUME TypeOK, JobInvariant, ~JobTTL, [Next]_vars, pc' = "mark"
    PROVE  HasJob(cur)'
  <1>1. ASSUME NEW p \in Projects, StartJob(p) PROVE HasJob(cur)'
    <2>1. NewJob(p).project = p /\ NewJob(p).gen = lastGen[p] + 1
      BY DEF NewJob
    <2>2. lastGen'[p] = lastGen[p] + 1 /\ NewJob(p) \in jobs' /\ cur' = p
      BY <1>1 DEF StartJob, TypeOK
    <2> QED
      BY <2>1, <2>2 DEF HasJob
  <1>2. CASE pc = "mark" /\ cur' = cur
    <2>1. cur \in Projects /\ HasJob(cur)
      BY <1>2 DEF TypeOK, JobInvariant
    <2>2. ASSUME NEW p \in Projects, p = cur PROVE HasJob(p)'
      BY <1>2, <2>1, <2>2, NewestJobStays DEF HasJob
    <2> QED
      BY <1>2, <2>1, <2>2 DEF HasJob
  <1>3. CASE ExecutorStep
    BY <1>1, <1>3
       DEF ExecutorStep, BeginTick, LookUpJob, VisitRunning, CaptureMetrics, RecordOutcome,
           DeleteSuccessful, BeginPass2, SkipProject, MarkRunning, EndTick, LeaveVisit, LeaveTick
  <1>4. CASE ExecutorFault
    BY <1>4
       DEF ExecutorFault, LookUpJobStale, VisitRunning, LookUpFails, RecordOutcomeFails,
           MarkRunningFails, WriteFails, DeleteFails, StartJobFails, LeaveTick
  <1>5. CASE Writers \/ Environment
    BY <1>2, <1>5, Bystanders DEF LeaveTick, progress
  <1>6. CASE UNCHANGED vars
    BY <1>2, <1>6 DEF vars, tick, progress
  <1> QED
    BY <1>3, <1>4, <1>5, <1>6 DEF Next

\* A running project always has its newest Job in the cluster, over crashes, failed
\* and phantom writes, stale reads and discoveries that drop and bring back
\* projects.  The theorem needs Jobs without a TTL, and cleanups that end before the
\* next tick (jobManager.go:42-137, executor.go:161-278).
THEOREM RunningProjectsHaveJobs ==
    ASSUME ~JobTTL, ~LateCleanup
    PROVE  Spec => []RunningHasJob
  <1>1. Init => JobInvariant
    BY DEF Init, JobInvariant, CleanupsInvariant, FoundInvariant, ShownRunning, EmptyTable,
           NotListed, InPass1, InPass2
  <1>2. TypeOK /\ FoundEnded /\ JobInvariant /\ [Next]_vars => JobInvariant'
    <2> SUFFICES ASSUME TypeOK, FoundEnded, JobInvariant, [Next]_vars PROVE JobInvariant'
      OBVIOUS
    <2>1. ASSUME NEW p \in Projects, ShownRunning(p)' PROVE HasJob(p)'
      <3>1. HasJob(p) /\ ~(pc = "delete" /\ p = cur)
        <4>1. CASE ShownRunning(p)
          BY <4>1 DEF JobInvariant
        <4>2. CASE pc = "mark" /\ p = cur
          BY <4>2 DEF JobInvariant
        <4> QED
          BY <2>1, <4>1, <4>2, ShownRunningStep
      <3> QED
        BY <3>1, NewestJobStays
    <2>2. CleanupsInvariant'
      BY CleanupsStep DEF JobInvariant
    <2>3. FoundInvariant'
      BY FoundStep DEF JobInvariant
    <2>4. /\ pc' = "delete" => ~ShownRunning(cur)'
          /\ pc' = "mark" => HasJob(cur)'
      BY DeleteAfterEnd, JobBeforeMark
    <2> QED
      BY <2>1, <2>2, <2>3, <2>4 DEF JobInvariant
  <1>3. TypeOK /\ JobInvariant => RunningHasJob
    BY DEF TypeOK, JobInvariant, RunningHasJob, RunningProjects, GetProjectsByStatus,
           ShownRunning, HasJob
  <1> QED
    BY <1>1, <1>2, <1>3, TypeCorrect, FoundEndedHolds, PTL DEF Spec

-----------------------------------------------------------------------------
(* The gauge.                                                               *)

Ended(entry) == entry.status \in {"completed", "failed"}

\* No table shows a project as running that the stored one shows as ended, so the
\* gauge is set for a project that has no outcome yet.
GaugeInvariant ==
    /\ GaugeAgreesWithStatus
    /\ \A p \in Projects : GetRenovateJob[p].status = "running" => ~Ended(projects[p])
    /\ InPass1 => \A p \in todo : ~Ended(projects[p])
    /\ pc \in {"capture", "update"} => cur \in todo
    /\ pc = "update" => metrics[cur] # (IF getJobStatus(found) = "failed" THEN "ok" ELSE "failed")

\* A write that ends no run, and a change in place that shows no ended run as
\* running.
Quiet(before, after) ==
    \A p \in Projects : Ended(after[p]) => after[p].status = before[p].status

LagSafe(after, inPlace) ==
    \A p \in Projects : inPlace[p].status = "running" => ~Ended(after[p])

\* All operations of RenovateJobManager but the recording of an outcome are such
\* (renovateJobManager.go:184-286).
LEMMA QuietOperations ==
    ASSUME NEW table \in Table
    PROVE  /\ \A p \in Projects, desired \in {ScheduledBy(1), ScheduledBy(2), Started} :
                 /\ Quiet(table, UpdateProjectStatus(table, p, desired))
                 /\ LagSafe(UpdateProjectStatus(table, p, desired),
                            UpdateInPlace(table, p, desired))
           /\ Quiet(table, ScheduleIdle(table)) /\ LagSafe(ScheduleIdle(table), ScheduleIdle(table))
           /\ Quiet(table, ScheduleAll(table)) /\ LagSafe(ScheduleAll(table), ScheduleAll(table))
           /\ \A d \in Discoverable : /\ Quiet(table, ReconcileProjects(table, d))
                                      /\ LagSafe(ReconcileProjects(table, d), table)
  <1> USE DEF Quiet, LagSafe, Ended, Table, ScheduledBy, Started, GetUpdateStatusForProject,
              validateProjectStatusScheduled, validateProjectStatusRunning
  <1>1. ASSUME NEW p \in Projects, NEW desired \in {ScheduledBy(1), ScheduledBy(2), Started}
        PROVE  /\ Quiet(table, UpdateProjectStatus(table, p, desired))
               /\ LagSafe(UpdateProjectStatus(table, p, desired), UpdateInPlace(table, p, desired))
    BY DEF UpdateProjectStatus, UpdateInPlace
  <1>2. Quiet(table, ScheduleIdle(table)) /\ LagSafe(ScheduleIdle(table), ScheduleIdle(table))
    BY DEF ScheduleIdle, UpdateProjectStatusBatched
  <1>3. Quiet(table, ScheduleAll(table)) /\ LagSafe(ScheduleAll(table), ScheduleAll(table))
    BY DEF ScheduleAll, UpdateProjectStatusBatched
  <1>4. ASSUME NEW d \in Discoverable
        PROVE  Quiet(table, ReconcileProjects(table, d)) /\ LagSafe(ReconcileProjects(table, d), table)
    BY DEF ReconcileProjects, NotListed
  <1> QED
    BY <1>1, <1>2, <1>3, <1>4

\* The recorded outcome is the one of the visit, and of no other project.
LEMMA OutcomeOperation ==
    ASSUME FoundEnded, pc = "update", NEW table \in Table, NEW p \in Projects
    PROVE  LET after == UpdateProjectStatus(table, p, Outcome) IN
           /\ \A q \in Projects \ {p} : after[q] = table[q]
           /\ Ended(after[p]) => after[p].status \in {table[p].status, Outcome.status}
           /\ LagSafe(after, UpdateInPlace(table, p, Outcome))
  <1>1. Outcome.status \in {"completed", "failed"}
    BY DEF FoundEnded, Outcome, getJobStatus
  <1> QED
    BY <1>1 DEF UpdateProjectStatus, UpdateInPlace, Table, Ended, LagSafe,
                GetUpdateStatusForProject, validateProjectStatusCompleted,
                validateProjectStatusFailed

\* A cache that lags keeps what it has, or shows no ended run as running.
LagKept ==
    informer' = "lagging" =>
        \/ informer = "lagging" /\ cached' = cached
        \/ LagSafe(projects', cached')

\* A write of the leader starts from the stored table, also while its cache lags
\* (retry.RetryOnConflict in renovateJobManager.go:184-286).
LEMMA QuietWrites ==
    ASSUME TypeOK, informer # "altered", NEW result, NEW inPlace
    PROVE  /\ LocalWrite(result, inPlace) =>
                 /\ projects' = result /\ GetRenovateJob = projects
                 /\ LagSafe(result, inPlace) => LagKept
           /\ RemoteWrite(result) => projects' = result /\ LagKept
           /\ UNCHANGED store => UNCHANGED projects /\ LagKept
  BY DEF TypeOK, LocalWrite, RemoteWrite, FollowApiServer, GetRenovateJob, LagKept, store

\* Only the executor ends a run, when it records the outcome.
LEMMA QuietSteps ==
    ASSUME TypeOK, NoPhantom, [Next]_vars, ~RecordOutcome, ~RecordOutcomeFails
    PROVE  Quiet(projects, projects') /\ LagKept
  <1>0. /\ informer # "altered" /\ projects \in Table /\ GetRenovateJob \in Table
        /\ budget["phantom"] = 0
    BY GetRenovateJobType DEF NoPhantom, TypeOK, Table
  <1>1. UNCHANGED store => Quiet(projects, projects') /\ LagKept
    BY <1>0, QuietWrites DEF Quiet
  <1>2. ASSUME NEW result, NEW inPlace, LocalWrite(result, inPlace),
               Quiet(GetRenovateJob, result), LagSafe(result, inPlace)
        PROVE  Quiet(projects, projects') /\ LagKept
    BY <1>0, <1>2, QuietWrites
  <1>3. ASSUME NEW result, RemoteWrite(result), Quiet(projects, result)
        PROVE  Quiet(projects, projects') /\ LagKept
    BY <1>0, <1>3, QuietWrites
  <1>4. \A inPlace : ~PhantomWrite(inPlace)
    BY <1>0 DEF PhantomWrite, Spend
  <1>5. CASE ExecutorStep
    <2>1. CASE MarkRunning
      <3>1. cur \in Projects
        BY <2>1 DEF MarkRunning, TypeOK
      <3> QED
        BY <1>0, <1>2, <2>1, <3>1, QuietOperations DEF MarkRunning
    <2> QED
      BY <1>1, <1>5, <2>1
         DEF ExecutorStep, BeginTick, LookUpJob, VisitRunning, CaptureMetrics, DeleteSuccessful,
             BeginPass2, SkipProject, StartJob, EndTick
  <1>6. CASE ExecutorFault
    <2>1. CASE MarkRunningFails
      <3>1. cur \in Projects
        BY <2>1 DEF MarkRunningFails, WriteFails, TypeOK
      <3> QED
        BY <1>0, <1>1, <1>2, <1>4, <2>1, <3>1, QuietOperations DEF MarkRunningFails, WriteFails
    <2> QED
      BY <1>1, <1>6, <2>1
         DEF ExecutorFault, LookUpJobStale, VisitRunning, LookUpFails, DeleteFails, StartJobFails
  <1>7. CASE Writers
    <2>1. ASSUME NEW p \in Projects, runRenovateForProject(p) \/ webhookRunRenovate(p)
          PROVE  Quiet(projects, projects') /\ LagKept
      BY <1>0, <1>2, <1>3, <2>1, QuietOperations
         DEF runRenovateForProject, webhookRunRenovate, RequestRun
    <2>2. CASE runRenovateForAllProjects
      BY <1>0, <1>2, <1>3, <2>2, QuietOperations DEF runRenovateForAllProjects
    <2>3. ASSUME NEW d \in Discoverable, uiDiscovery(d) \/ cronReconcile(d) \/ reconcileFails(d)
          PROVE  Quiet(projects, projects') /\ LagKept
      BY <1>0, <1>1, <1>2, <1>3, <2>3, QuietOperations
         DEF uiDiscovery, cronReconcile, reconcileFails, StoreDiscovered
    <2>4. CASE cronSchedule \/ cronScheduleFails
      BY <1>0, <1>1, <1>2, <1>4, <2>4, QuietOperations DEF cronSchedule, cronScheduleFails
    <2> QED
      BY <1>4, <1>7, <2>1, <2>2, <2>3, <2>4 DEF Writers, RequestFails, RequestAllFails
  <1>8. CASE Environment
    <2>1. CASE CacheLags
      BY <2>1 DEF CacheLags, Quiet, LagKept, LagSafe, Ended
    <2>2. CASE CacheSync \/ Crash
      BY <2>2 DEF CacheSync, Crash, FollowApiServer, Quiet, LagKept
    <2> QED
      BY <1>1, <1>8, <2>1, <2>2 DEF Environment, CleanUp, CleanUpFails, JobEnds, JobExpires
  <1>9. CASE UNCHANGED vars
    BY <1>1, <1>9 DEF vars
  <1> QED
    BY <1>5, <1>6, <1>7, <1>8, <1>9 DEF Next

\* A gauge is set where pass 1 captures it; elsewhere it is only deleted
\* (executor.go:223-227, metrics.go).
LEMMA GaugesStay ==
    ASSUME TypeOK, [Next]_vars, ~CaptureMetrics
    PROVE  \A p \in Projects : metrics'[p] \in {metrics[p], NoSeries}
  <1>1. CASE UNCHANGED metrics
    BY <1>1
  <1>2. ASSUME NEW removed, metrics' = DeleteProjectMetrics(metrics, removed)
        PROVE  \A p \in Projects : metrics'[p] \in {metrics[p], NoSeries}
    BY <1>2 DEF DeleteProjectMetrics, TypeOK
  <1>3. CASE metrics' = [p \in Projects |-> NoSeries]
    BY <1>3
  <1>4. CASE ExecutorStep
    BY <1>1, <1>4
       DEF ExecutorStep, BeginTick, LookUpJob, VisitRunning, RecordOutcome, DeleteSuccessful,
           BeginPass2, SkipProject, StartJob, MarkRunning, EndTick
  <1>5. CASE ExecutorFault
    BY <1>1, <1>5
       DEF ExecutorFault, LookUpJobStale, VisitRunning, LookUpFails, RecordOutcomeFails,
           MarkRunningFails, WriteFails, DeleteFails, StartJobFails
  <1>6. CASE Writers
    BY <1>1, <1>2, <1>6
       DEF Writers, runRenovateForProject, webhookRunRenovate, RequestRun,
           runRenovateForAllProjects, RequestFails, RequestAllFails, uiDiscovery, cronReconcile,
           reconcileFails, StoreDiscovered, cronSchedule, cronScheduleFails
  <1>7. CASE Environment
    BY <1>1, <1>3, <1>7 DEF Environment, CleanUp, CleanUpFails, JobEnds, JobExpires, CacheLags,
                            CacheSync, Crash
  <1>8. CASE UNCHANGED vars
    BY <1>1, <1>8 DEF vars
  <1> QED
    BY <1>4, <1>5, <1>6, <1>7, <1>8 DEF Next

\* The write that ends a run, whether or not it reports an error
\* (executor.go:220-241).
LEMMA OutcomeSteps ==
    ASSUME TypeOK, NoPhantom, FoundEnded, RecordOutcome \/ RecordOutcomeFails
    PROVE  /\ pc = "update" /\ cur \in Projects /\ UNCHANGED metrics
           /\ pc' \in {"idle", "pass1", "delete"}
           /\ pc' = "idle" \/ todo' = todo \ {cur}
           /\ \/ UNCHANGED store
              \/ /\ projects' = UpdateProjectStatus(projects, cur, Outcome)
                 /\ informer' = "lagging" => LagSafe(projects', cached')
  <1>0. /\ informer # "altered" /\ projects \in Table /\ GetRenovateJob \in Table
        /\ pc = "update" /\ cur \in Projects
    BY GetRenovateJobType DEF NoPhantom, TypeOK, Table, RecordOutcome, RecordOutcomeFails, WriteFails
  <1>1. UNCHANGED metrics /\ pc' \in {"idle", "pass1", "delete"}
    BY DEF RecordOutcome, RecordOutcomeFails, WriteFails, LeaveVisit, LeaveTick
  <1>2. pc' = "idle" \/ todo' = todo \ {cur}
    BY DEF RecordOutcome, RecordOutcomeFails, WriteFails, LeaveTick
  <1>3. ~PhantomWrite(UpdateInPlace(GetRenovateJob, cur, Outcome))
    BY DEF NoPhantom, PhantomWrite, Spend
  <1>4. ASSUME LocalWrite(UpdateProjectStatus(GetRenovateJob, cur, Outcome),
                          UpdateInPlace(GetRenovateJob, cur, Outcome))
        PROVE  /\ projects' = UpdateProjectStatus(projects, cur, Outcome)
               /\ informer' = "lagging" => LagSafe(projects', cached')
    <2>1. GetRenovateJob = projects
      BY <1>0, <1>4, QuietWrites
    <2>2. LagSafe(UpdateProjectStatus(projects, cur, Outcome), UpdateInPlace(projects, cur, Outcome))
      BY <1>0, OutcomeOperation
    <2> QED
      BY <1>4, <2>1, <2>2 DEF LocalWrite, FollowApiServer
  <1> QED
    BY <1>0, <1>1, <1>2, <1>3, <1>4 DEF RecordOutcome, RecordOutcomeFails, WriteFails

\* The gauge that belongs to the outcome of the visit is in place before the status
\* is written, or was deleted meanwhile.
LEMMA GaugeAtOutcome ==
    ASSUME TypeOK, NoPhantom, NoPhantom', FoundEnded, GaugeInvariant,
           RecordOutcome \/ RecordOutcomeFails
    PROVE  GaugeInvariant'
  <1>1. /\ pc = "update" /\ cur \in Projects /\ UNCHANGED metrics
        /\ pc' \in {"idle", "pass1", "delete"}
        /\ pc' = "idle" \/ todo' = todo \ {cur}
    BY OutcomeSteps
  <1>2. projects \in Table /\ todo \subseteq Projects
    BY DEF TypeOK, Table
  <1>3. /\ \A p \in Projects \ {cur} : projects'[p] = projects[p]
        /\ Ended(projects'[cur]) => projects'[cur].status \in {projects[cur].status, Outcome.status}
    BY <1>1, <1>2, OutcomeSteps, OutcomeOperation DEF store
  <1>4. ~Ended(projects[cur])
    BY <1>1 DEF GaugeInvariant, InPass1
  <1>5. ASSUME NEW p \in Projects
        PROVE  /\ projects'[p].status = "completed" => metrics'[p] # "failed"
               /\ projects'[p].status = "failed"    => metrics'[p] # "ok"
    <2>1. CASE p = cur
      <3>1. Ended(projects'[cur]) => projects'[cur].status = getJobStatus(found)
        BY <1>3, <1>4 DEF Ended, Outcome
      <3> QED
        BY <1>1, <2>1, <3>1 DEF GaugeInvariant, Ended
    <2>2. CASE p # cur
      BY <1>1, <1>3, <2>2 DEF GaugeInvariant, GaugeAgreesWithStatus
    <2> QED
      BY <2>1, <2>2
  <1>6. ASSUME NEW p \in Projects, GetRenovateJob'[p].status = "running"
        PROVE  ~Ended(projects'[p])
    <2>1. CASE informer' = "lagging" /\ ~UNCHANGED store
      BY <1>6, <2>1, OutcomeSteps DEF LagSafe, GetRenovateJob
    <2>2. CASE informer' = "synced"
      BY <1>6, <2>2 DEF GetRenovateJob, Ended
    <2>3. CASE UNCHANGED store
      BY <1>6, <2>3 DEF GaugeInvariant, GetRenovateJob, store
    <2>4. informer' \in {"synced", "lagging"} \/ UNCHANGED store
      BY DEF NoPhantom, TypeOK, RecordOutcome, RecordOutcomeFails, WriteFails, LocalWrite,
             FollowApiServer, PhantomWrite, Spend
    <2> QED
      BY <2>1, <2>2, <2>3, <2>4
  <1>7. InPass1' => \A p \in todo' : ~Ended(projects'[p])
    BY <1>1, <1>2, <1>3 DEF GaugeInvariant, InPass1
  <1> QED
    BY <1>1, <1>5, <1>6, <1>7 DEF GaugeInvariant, GaugeAgreesWithStatus

\* The projects that pass 1 has still to visit, and the gauge it has captured.
LEMMA GaugeOfVisit ==
    ASSUME TypeOK, GaugeInvariant, [Next]_vars, ~RecordOutcome, ~RecordOutcomeFails
    PROVE  /\ InPass1' => \/ BeginTick
                          \/ InPass1 /\ todo' \subseteq todo
           /\ pc' \in {"capture", "update"} => cur' \in todo'
           /\ pc' = "update" =>
                 metrics'[cur'] # (IF getJobStatus(found)' = "failed" THEN "ok" ELSE "failed")
  <1>0. cur \in Projects \/ pc # "update"
    BY DEF TypeOK
  <1>1. CASE UNCHANGED progress
    <2>1. UNCHANGED <<pc, todo, cur, found>> /\ (pc = "update" => ~CaptureMetrics)
      BY <1>1 DEF progress, CaptureMetrics
    <2>2. pc' = "update" =>
             metrics'[cur'] # (IF getJobStatus(found)' = "failed" THEN "ok" ELSE "failed")
      BY <1>0, <2>1, GaugesStay DEF GaugeInvariant, getJobStatus, NoSeries
    <2> QED
      BY <2>1, <2>2 DEF GaugeInvariant, InPass1
  <1>2. CASE CaptureMetrics
    <2>1. /\ pc = "capture" /\ pc' = "update" /\ UNCHANGED <<todo, cur, found>>
          /\ metrics' = SetRunFailed(metrics, cur, getJobStatus(found) = "failed")
      BY <1>2 DEF CaptureMetrics
    <2>2. cur \in Projects
      BY <2>1 DEF TypeOK
    <2>3. metrics'[cur] = IF getJobStatus(found) = "failed" THEN "failed" ELSE "ok"
      BY <2>1, <2>2 DEF SetRunFailed, TypeOK
    <2>4. getJobStatus(found)' = getJobStatus(found)
      BY <2>1 DEF getJobStatus
    <2> QED
      BY <2>1, <2>3, <2>4 DEF GaugeInvariant, InPass1
  <1>3. ASSUME NEW p \in Projects, NEW visible, VisitRunning(p, visible)
        PROVE  /\ InPass1 /\ todo' \subseteq todo /\ pc' # "update"
               /\ pc' = "capture" => cur' \in todo'
    BY <1>3 DEF VisitRunning, InPass1
  <1>4. CASE \E p \in Projects : LookUpJob(p) \/ LookUpJobStale(p)
    BY <1>3, <1>4 DEF LookUpJob, LookUpJobStale
  <1>5. CASE DeleteSuccessful \/ BeginTick \/ ~InPass1'
    BY <1>5 DEF DeleteSuccessful, BeginTick, LeaveVisit, InPass1
  <1>6. CASE ExecutorStep
    BY <1>2, <1>4, <1>5, <1>6
       DEF ExecutorStep, BeginPass2, SkipProject, StartJob, MarkRunning, EndTick, LeaveVisit,
           LeaveTick, InPass1
  <1>7. CASE ExecutorFault
    BY <1>4, <1>5, <1>7
       DEF ExecutorFault, LookUpFails, MarkRunningFails, WriteFails, DeleteFails, StartJobFails,
           LeaveTick, InPass1
  <1>8. CASE Writers \/ Environment
    BY <1>1, <1>5, <1>8, Bystanders DEF LeaveTick, InPass1
  <1>9. CASE UNCHANGED vars
    BY <1>1, <1>9 DEF vars, tick
  <1> QED
    BY <1>6, <1>7, <1>8, <1>9 DEF Next

\* Every other step leaves the gauges in agreement with the table.
LEMMA GaugeOtherwise ==
    ASSUME TypeOK, NoPhantom, NoPhantom', GaugeInvariant, [Next]_vars,
           ~RecordOutcome, ~RecordOutcomeFails, informer' \in {"synced", "lagging", "altered"}
    PROVE  GaugeInvariant'
  <1>1. Quiet(projects, projects') /\ LagKept
    BY QuietSteps
  <1>2. ASSUME NEW p \in Projects
        PROVE  /\ projects'[p].status = "completed" => metrics'[p] # "failed"
               /\ projects'[p].status = "failed"    => metrics'[p] # "ok"
    <2>1. CASE CaptureMetrics
      <3>1. UNCHANGED projects /\ pc = "capture" /\ cur \in Projects
        BY <2>1 DEF CaptureMetrics, store, TypeOK
      <3>2. ~Ended(projects[cur])
        BY <3>1 DEF GaugeInvariant, InPass1
      <3>3. p # cur => metrics'[p] = metrics[p]
        BY <2>1, <3>1 DEF CaptureMetrics, SetRunFailed, TypeOK
      <3> QED
        BY <3>1, <3>2, <3>3 DEF GaugeInvariant, GaugeAgreesWithStatus, Ended
    <2>2. CASE ~CaptureMetrics
      <3>1. metrics'[p] \in {metrics[p], NoSeries}
        BY <2>2, GaugesStay
      <3>2. Ended(projects'[p]) => projects'[p].status = projects[p].status
        BY <1>1 DEF Quiet
      <3> QED
        BY <3>1, <3>2 DEF GaugeInvariant, GaugeAgreesWithStatus, Ended, NoSeries
    <2> QED
      BY <2>1, <2>2
  <1>3. ASSUME NEW p \in Projects, GetRenovateJob'[p].status = "running"
        PROVE  ~Ended(projects'[p])
    <2>1. CASE informer' = "synced"
      BY <1>3, <2>1 DEF GetRenovateJob, Ended
    <2>2. CASE informer' = "lagging"
      <3>1. cached'[p].status = "running"
        BY <1>3, <2>2 DEF GetRenovateJob
      <3>2. CASE informer = "lagging" /\ cached' = cached
        <4>1. ~Ended(projects[p])
          BY <3>1, <3>2 DEF GaugeInvariant, GetRenovateJob
        <4> QED
          BY <1>1, <4>1 DEF Quiet, Ended
      <3>3. CASE LagSafe(projects', cached')
        BY <3>1, <3>3 DEF LagSafe
      <3> QED
        BY <1>1, <2>2, <3>2, <3>3 DEF LagKept
    <2> QED
      BY <2>1, <2>2 DEF NoPhantom
  <1>4. ASSUME InPass1', NEW p \in todo' PROVE ~Ended(projects'[p])
    <2>1. CASE BeginTick
      <3>1. GetRenovateJob[p].status = "running" /\ p \in Projects /\ UNCHANGED projects
        BY <1>4, <2>1, GetRenovateJobType DEF BeginTick, GetProjectsByStatus, Table, store
      <3> QED
        BY <3>1 DEF GaugeInvariant
    <2>2. CASE InPass1 /\ todo' \subseteq todo
      <3>1. ~Ended(projects[p]) /\ p \in Projects
        BY <1>4, <2>2 DEF GaugeInvariant, TypeOK
      <3> QED
        BY <1>1, <3>1 DEF Quiet, Ended
    <2> QED
      BY <1>4, <2>1, <2>2, GaugeOfVisit
  <1>5. /\ pc' \in {"capture", "update"} => cur' \in todo'
        /\ pc' = "update" =>
              metrics'[cur'] # (IF getJobStatus(found)' = "failed" THEN "ok" ELSE "failed")
    BY GaugeOfVisit
  <1> QED
    BY <1>2, <1>3, <1>4, <1>5 DEF GaugeInvariant, GaugeAgreesWithStatus

\* The gauge never contradicts the status of its project, over crashes, lost answers,
\* a lagging cache, and projects that a discovery drops and brings back in the
\* middle of a visit.  It needs that no failed write leaves its change in the cache:
\* with two of those a finished run is visited again (executor.go:223-227).
THEOREM GaugesAgree ==
    ASSUME Budget["phantom"] = 0
    PROVE  Spec => []GaugeAgreesWithStatus
  <1>1. Init => GaugeInvariant
    BY DEF Init, GaugeInvariant, GaugeAgreesWithStatus, GetRenovateJob, EmptyTable, NotListed,
           InPass1, Ended
  <1>2. TypeOK /\ TypeOK' /\ NoPhantom /\ NoPhantom' /\ FoundEnded /\ GaugeInvariant
            /\ [Next]_vars => GaugeInvariant'
    <2> SUFFICES ASSUME TypeOK, TypeOK', NoPhantom, NoPhantom', FoundEnded, GaugeInvariant,
                        [Next]_vars
                 PROVE  GaugeInvariant'
      OBVIOUS
    <2>1. informer' \in {"synced", "lagging", "altered"}
      BY DEF TypeOK
    <2> QED
      BY <2>1, GaugeAtOutcome, GaugeOtherwise
  <1>3. GaugeInvariant => GaugeAgreesWithStatus
    BY DEF GaugeInvariant
  <1> QED
    BY <1>1, <1>2, <1>3, TypeCorrect, FoundEndedHolds, NoPhantomHolds, PTL DEF Spec

-----------------------------------------------------------------------------
(* The active Jobs.                                                         *)

\* No call fails, and the cache follows.
NoFaults == budget["fault"] = 0

Undisturbed == NoFaults /\ CacheFollows

\* The slots of a tick are those of the projects that run, and of the one that is
\* about to be marked.  A project that the list of the tick shows as scheduled
\* and that has no slot is scheduled.
ExactSlots ==
    /\ pc # "idle" => \A p \in counted : projects[p].status = "running" \/ (pc = "mark" /\ p = cur)
    /\ pc # "idle" => \A p \in Projects \ counted :
                         snap[p].status = "scheduled" => projects[p].status = "scheduled"
    /\ pc # "idle" => \A p \in Projects :
                         snap[p].status # "absent" => projects[p].status # "absent"
    /\ pc = "mark" => projects[cur].status = "scheduled"
    /\ InPass1 => todo \subseteq counted
    /\ pc \in {"capture", "update"} => cur \in counted
    /\ InPass2 => \A p \in counted \cap todo : snap[p].status = "running"

\* An active Job is the newest of a project in one of the slots, and of a
\* generation there is one Job.
ActiveInvariant ==
    /\ \A j \in ActiveJobs : j.project \in Slots /\ j.gen = lastGen[j.project]
    /\ \A j, k \in jobs : j.project = k.project /\ j.gen = k.gen => j = k
    /\ \A j \in jobs : j.gen <= lastGen[j.project]
    /\ pc \in {"capture", "update"} => \A j \in ActiveJobs : j.project # cur

\* What is left of the steps when nothing fails and the cache follows.
RequestStep ==
    \/ \E p \in Projects : runRenovateForProject(p) \/ webhookRunRenovate(p)
    \/ runRenovateForAllProjects
    \/ \E d \in Discoverable : uiDiscovery(d) \/ cronReconcile(d)
    \/ cronSchedule

JobStep ==
    \/ \E c \in cleanups : CleanUp(c)
    \/ \E j \in jobs : JobEnds(j, "complete") \/ JobEnds(j, "failed") \/ JobExpires(j)

\* No other step is possible then.
LEMMA UndisturbedSteps ==
    ASSUME Undisturbed, Next
    PROVE  ExecutorStep \/ RequestStep \/ JobStep
  <1>1. ~Spend("fault") /\ ~Spend("phantom") /\ ~Spend("stale") /\ informer = "synced"
    BY DEF Undisturbed, NoFaults, CacheFollows, Spend
  <1>2. ~ExecutorFault
    BY <1>1 DEF ExecutorFault, LookUpJobStale, LookUpFails, RecordOutcomeFails, DeleteFails,
                StartJobFails, MarkRunningFails, WriteFails, PhantomWrite
  <1>3. Writers => RequestStep
    BY <1>1 DEF Writers, RequestStep, RequestFails, RequestAllFails, reconcileFails,
                cronScheduleFails, PhantomWrite
  <1>4. Environment => JobStep
    BY <1>1 DEF Environment, JobStep, CleanUpFails, CacheLags, CacheSync, Crash, Undisturbed,
                CacheFollows
  <1> QED
    BY <1>2, <1>3, <1>4 DEF Next

\* A write of the whole table and the list of the tick that a request, the cron
\* callback or a discovery leaves behind, for each project.
Forward(before, after, seen, shown) ==
    \A p \in Projects :
        /\ before[p].status \in {"running", "scheduled"} => after[p].status = before[p].status
        /\ before[p].status # "absent" => after[p].status # "absent"
        /\ \/ shown[p].status = seen[p].status
           \/ /\ shown[p].status = "scheduled"
              /\ seen[p].status \notin {"running", "absent"}
              /\ before[p].status \notin {"running", "absent"} => after[p].status = "scheduled"

\* A request that schedules a project in the list of the tick schedules it in the
\* table as well.
LEMMA ForwardOperations ==
    ASSUME NEW table \in Table, NEW seen \in Table
    PROVE  /\ \A p \in Projects, n \in Priorities :
                 LET after == UpdateProjectStatus(table, p, ScheduledBy(n)) IN
                 /\ Forward(table, after, seen, seen)
                 /\ Forward(table, after, seen, UpdateInPlace(seen, p, ScheduledBy(n)))
           /\ Forward(table, ScheduleIdle(table), seen, seen)
           /\ Forward(table, ScheduleIdle(table), seen, ScheduleIdle(seen))
           /\ Forward(table, ScheduleAll(table), seen, seen)
           /\ Forward(table, ScheduleAll(table), seen, ScheduleAll(seen))
           /\ Forward(table, ReconcileProjects(table, Projects), seen, seen)
  <1> USE DEF Forward, Table, ScheduledBy, GetUpdateStatusForProject,
              validateProjectStatusScheduled
  <1>1. ASSUME NEW p \in Projects, NEW n \in Priorities
        PROVE  LET after == UpdateProjectStatus(table, p, ScheduledBy(n)) IN
               /\ Forward(table, after, seen, seen)
               /\ Forward(table, after, seen, UpdateInPlace(seen, p, ScheduledBy(n)))
    BY DEF UpdateInPlace, UpdateProjectStatus
  <1>2. /\ Forward(table, ScheduleIdle(table), seen, seen)
        /\ Forward(table, ScheduleIdle(table), seen, ScheduleIdle(seen))
    BY DEF ScheduleIdle, UpdateProjectStatusBatched, IsIdle
  <1>3. /\ Forward(table, ScheduleAll(table), seen, seen)
        /\ Forward(table, ScheduleAll(table), seen, ScheduleAll(seen))
    BY DEF ScheduleAll, UpdateProjectStatusBatched, IsNotRunning
  <1>4. Forward(table, ReconcileProjects(table, Projects), seen, seen)
    BY DEF ReconcileProjects, NotListed
  <1> QED
    BY <1>1, <1>2, <1>3, <1>4

\* Requests, the cron callback and discoveries that find every project.
LEMMA RequestSteps ==
    ASSUME TypeOK, Undisturbed, \A d \in Discoverable : d = Projects, RequestStep
    PROVE  /\ UNCHANGED <<progress, jobs, lastGen>>
           /\ Forward(projects, projects', snap, snap')
  <1>0. /\ projects \in Table /\ snap \in Table /\ {0, 1, 2} \subseteq Priorities
        /\ CacheFollows
    BY DEF TypeOK, Table, Undisturbed, Priorities
  <1>1. ASSUME NEW result, NEW inPlace, NEW seen,
               LocalWrite(result, inPlace) /\ (SeenByTick(seen) \/ NotSeenByTick),
               Forward(projects, result, snap, snap), Forward(projects, result, snap, seen)
        PROVE  Forward(projects, projects', snap, snap')
    <2>1. projects' = result /\ snap' \in {snap, seen}
      BY <1>0, <1>1, SyncedWrites DEF SeenByTick, NotSeenByTick
    <2> QED
      BY <1>1, <2>1
  <1>2. ASSUME NEW result, RemoteWrite(result) /\ NotSeenByTick,
               Forward(projects, result, snap, snap)
        PROVE  Forward(projects, projects', snap, snap')
    <2>1. projects' = result /\ snap' = snap
      BY <1>0, <1>2, SyncedWrites DEF NotSeenByTick
    <2> QED
      BY <1>2, <2>1
  <1>3. GetRenovateJob = projects
    BY <1>0, SyncedWrites
  <1>4. ASSUME NEW p \in Projects, NEW n \in {1, 2}, RequestRun(p, n)
        PROVE  Forward(projects, projects', snap, snap')
    BY <1>0, <1>1, <1>2, <1>3, <1>4, ForwardOperations DEF RequestRun
  <1>5. CASE runRenovateForAllProjects
    BY <1>0, <1>1, <1>2, <1>3, <1>5, ForwardOperations DEF runRenovateForAllProjects
  <1>6. ASSUME NEW d \in Discoverable, uiDiscovery(d) \/ cronReconcile(d)
        PROVE  Forward(projects, projects', snap, snap')
    <2>1. d = Projects
      OBVIOUS
    <2> QED
      BY <1>0, <1>1, <1>2, <1>3, <1>6, <2>1, ForwardOperations
         DEF uiDiscovery, cronReconcile, StoreDiscovered
  <1>7. CASE cronSchedule
    BY <1>0, <1>1, <1>3, <1>7, ForwardOperations DEF cronSchedule
  <1>8. UNCHANGED <<progress, jobs, lastGen>>
    BY DEF RequestStep, runRenovateForProject, webhookRunRenovate, RequestRun,
           runRenovateForAllProjects, uiDiscovery, cronReconcile, cronSchedule
  <1> QED
    BY <1>4, <1>5, <1>6, <1>7, <1>8 DEF RequestStep, runRenovateForProject, webhookRunRenovate

\* Outside a tick ExactSlots says nothing.
LEMMA NoTickNoSlots == ASSUME pc' = "idle" PROVE ExactSlots'
  BY DEF ExactSlots, InPass1, InPass2

\* The executor takes and releases slots with the writes that mark and end a run.
LEMMA ExactExecutor ==
    ASSUME TypeOK, SlotInvariant, OrderInvariant, FoundEnded, ExactSlots, ExecutorStep
    PROVE  ExactSlots'
  <1> USE DEF ExactSlots, InPass1, InPass2
  <1>0. /\ projects \in Table /\ snap \in Table /\ GetRenovateJob = projects
        /\ counted \subseteq Projects /\ todo \subseteq Projects
    BY SyncedWrites DEF TypeOK, Table, SlotInvariant
  <1>1. CASE BeginTick
    BY <1>0, <1>1 DEF BeginTick, GetProjectsByStatus, store, Table
  <1>2. ASSUME NEW p \in Projects, LookUpJob(p) PROVE ExactSlots'
    BY <1>2 DEF LookUpJob, VisitRunning, store
  <1>3. CASE CaptureMetrics \/ DeleteSuccessful
    BY <1>3 DEF CaptureMetrics, DeleteSuccessful, LeaveVisit, store
  <1>4. CASE RecordOutcome
    <2>1. /\ pc = "update" /\ cur \in Projects /\ cur \in counted
          /\ counted' = counted \ {cur} /\ todo' = todo \ {cur} /\ pc' \in {"pass1", "delete"}
      BY <1>4 DEF RecordOutcome, LeaveVisit, TypeOK
    <2>2. snap[cur].status = "running" /\ projects[cur].status = "running"
      BY <2>1 DEF OrderInvariant
    <2>3. projects' = UpdateProjectStatus(projects, cur, Outcome)
      BY <1>0, <1>4, SyncedWrites DEF RecordOutcome, SlotInvariant
    <2>4. snap' \in {snap, UpdateInPlace(snap, cur, Outcome)}
      BY <1>4 DEF RecordOutcome, SeenByTick
    <2>5. /\ \A q \in Projects \ {cur} : projects'[q] = projects[q] /\ snap'[q] = snap[q]
      BY <1>0, <2>1, <2>3, <2>4, UpdateProjectStatusType, UpdatesType DEF UpdateInPlace
    <2>6. Outcome.status \in {"completed", "failed"}
      BY <2>1 DEF FoundEnded, Outcome, getJobStatus
    <2>7. projects'[cur].status # "absent" /\ snap'[cur].status # "scheduled"
      BY <1>0, <2>1, <2>2, <2>3, <2>4, <2>6
         DEF UpdateProjectStatus, UpdateInPlace, GetUpdateStatusForProject, Table,
             validateProjectStatusCompleted, validateProjectStatusFailed
    <2> QED
      BY <1>0, <2>1, <2>5, <2>7
  <1>5. CASE BeginPass2
    BY <1>0, <1>5 DEF BeginPass2, store, OrderInvariant
  <1>6. ASSUME NEW p \in Projects, SkipProject(p) PROVE ExactSlots'
    BY <1>6 DEF SkipProject, store
  <1>7. ASSUME NEW p \in Projects, StartJob(p) PROVE ExactSlots'
    <2>1. p \notin counted /\ projects[p].status = "scheduled"
      BY <1>7 DEF StartJob, NextInOrder
    <2> QED
      BY <1>7, <2>1 DEF StartJob, store
  <1>8. CASE MarkRunning
    <2>1. /\ pc = "mark" /\ pc' = "pass2" /\ UNCHANGED <<counted, todo>> /\ cur \in Projects
          /\ cur \in counted /\ cur \notin todo
      BY <1>8 DEF MarkRunning, LeaveVisit, TypeOK, OrderInvariant
    <2>2. projects' = UpdateProjectStatus(projects, cur, Started)
      BY <1>0, <1>8, SyncedWrites DEF MarkRunning, SlotInvariant
    <2>3. snap' \in {snap, UpdateInPlace(snap, cur, Started)}
      BY <1>8 DEF MarkRunning, SeenByTick
    <2>4. \A q \in Projects \ {cur} : projects'[q] = projects[q] /\ snap'[q] = snap[q]
      BY <1>0, <2>1, <2>2, <2>3, UpdateProjectStatusType, UpdatesType DEF UpdateInPlace
    <2>5. projects'[cur].status = "running"
      BY <1>0, <2>1, <2>2 DEF UpdateProjectStatus, GetUpdateStatusForProject, Table, Started,
                              validateProjectStatusRunning
    <2> QED
      BY <1>0, <2>1, <2>4, <2>5
  <1>9. CASE EndTick
    BY <1>9, NoTickNoSlots DEF EndTick, LeaveTick
  <1> QED
    BY <1>1, <1>2, <1>3, <1>4, <1>5, <1>6, <1>7, <1>8, <1>9 DEF ExecutorStep

\* Requests in the middle of a tick do not blur which slots are taken.
LEMMA ExactRequests ==
    ASSUME TypeOK, SlotInvariant, ExactSlots, UNCHANGED progress,
           Forward(projects, projects', snap, snap')
    PROVE  ExactSlots'
  <1>1. UNCHANGED <<pc, counted, todo, cur>>
    BY DEF progress
  <1>2. \A p \in Projects \ counted : pc # "idle" => projects[p].status # "running"
    BY DEF SlotInvariant, Slots, RunningProjects, GetProjectsByStatus, TypeOK
  <1>3. counted \subseteq Projects /\ todo \subseteq Projects /\ (pc = "mark" => cur \in Projects)
    BY DEF TypeOK
  <1>4. ASSUME pc # "idle", NEW p \in Projects \ counted, snap'[p].status = "scheduled"
        PROVE  projects'[p].status = "scheduled"
    <2>1. snap[p].status # "absent" => projects[p].status # "absent"
      BY <1>4 DEF ExactSlots
    <2>2. CASE snap[p].status = "scheduled"
      BY <1>4, <2>2 DEF ExactSlots, Forward
    <2>3. CASE snap[p].status # "scheduled"
      BY <1>2, <1>4, <2>1, <2>3 DEF Forward
    <2> QED
      BY <2>2, <2>3
  <1>5. ASSUME pc # "idle", NEW p \in Projects, snap'[p].status # "absent"
        PROVE  projects'[p].status # "absent"
    BY <1>5 DEF ExactSlots, Forward
  <1>6. ASSUME pc # "idle", NEW p \in counted
        PROVE  projects'[p].status = "running" \/ (pc = "mark" /\ p = cur)
    BY <1>3, <1>6 DEF ExactSlots, Forward
  <1>7. pc = "mark" => projects'[cur].status = "scheduled"
    BY <1>3 DEF ExactSlots, Forward
  <1>8. InPass2 => \A p \in counted \cap todo : snap'[p].status = "running"
    BY <1>3 DEF ExactSlots, Forward
  <1> QED
    BY <1>1, <1>4, <1>5, <1>6, <1>7, <1>8 DEF ExactSlots, InPass1, InPass2

\* Jobs that go, or that end, leave the rest as it was.
LEMMA FewerJobs ==
    ASSUME ActiveInvariant, UNCHANGED lastGen, jobs' \subseteq jobs,
           \A j \in ActiveJobs : j.project \in Slots',
           pc' \in {"capture", "update"} =>
               \A j \in ActiveJobs : j.project # cur'
    PROVE  ActiveInvariant'
  BY DEF ActiveInvariant, ActiveJobs

\* A lookup that finds no active Job shows that there is none for the project, as
\* the newest Job is the only one that can be active (jobManager.go:42-76).
LEMMA LookUpIsConclusive ==
    ASSUME TypeOK, ActiveInvariant, NEW p \in Projects, NEW job \in GetJobByLabel(jobs, p),
           getJobStatus(job) # "running"
    PROVE  \A j \in ActiveJobs : j.project # p
  <1> SUFFICES ASSUME NEW j \in ActiveJobs, j.project = p PROVE FALSE
    OBVIOUS
  <1>1. j \in jobs /\ j.phase = "active" /\ j.gen = lastGen[p]
    BY DEF ActiveJobs, ActiveInvariant
  <1>2. job \in jobs /\ job.project = p /\ j.gen <= job.gen
    BY <1>1 DEF GetJobByLabel, GetJobsByLabel
  <1>3. job.gen <= lastGen[p] /\ job.gen \in Nat /\ j.gen \in Nat
    BY <1>1, <1>2 DEF ActiveInvariant, TypeOK, JobRecord
  <1>4. job.gen = j.gen
    BY <1>1, <1>2, <1>3
  <1>5. job = j
    BY <1>1, <1>2, <1>4 DEF ActiveInvariant
  <1> QED
    BY <1>1, <1>5 DEF getJobStatus

\* The executor activates a Job in the slot it takes.
LEMMA ActiveExecutor ==
    ASSUME TypeOK, SlotInvariant, ExactSlots, ActiveInvariant, ExecutorStep
    PROVE  ActiveInvariant'
  <1>0. GetRenovateJob = projects /\ counted \subseteq Projects
    BY SyncedWrites DEF SlotInvariant, TypeOK
  <1>a. \A j \in ActiveJobs : j.project \in Slots
    BY DEF ActiveInvariant
  <1>1. CASE BeginTick
    <2>1. Slots' = Slots /\ UNCHANGED <<jobs, lastGen>> /\ pc' = "pass1"
      BY <1>0, <1>1 DEF BeginTick, Slots, RunningProjects
    <2> QED
      BY <1>a, <2>1, FewerJobs
  <1>2. ASSUME NEW p \in Projects, LookUpJob(p) PROVE ActiveInvariant'
    <2>1. Slots' = Slots /\ UNCHANGED <<jobs, lastGen>> /\ pc' # "update"
      BY <1>2 DEF LookUpJob, VisitRunning, Slots
    <2>2. pc' = "capture" => \A j \in ActiveJobs : j.project # cur'
      BY <1>2, LookUpIsConclusive DEF LookUpJob, VisitRunning
    <2> QED
      BY <1>a, <2>1, <2>2, FewerJobs
  <1>3. CASE CaptureMetrics
    <2>1. /\ Slots' = Slots /\ UNCHANGED <<jobs, lastGen, cur>> /\ pc = "capture"
      BY <1>3 DEF CaptureMetrics, Slots
    <2> QED
      BY <1>a, <2>1, FewerJobs DEF ActiveInvariant
  <1>4. CASE RecordOutcome
    <2>1. /\ Slots' = Slots \ {cur} /\ UNCHANGED <<jobs, lastGen>> /\ pc = "update"
          /\ pc' \in {"pass1", "delete"}
      BY <1>4 DEF RecordOutcome, LeaveVisit, Slots
    <2>2. \A j \in ActiveJobs : j.project # cur
      BY <2>1 DEF ActiveInvariant
    <2> QED
      BY <1>a, <2>1, <2>2, FewerJobs
  <1>5. CASE DeleteSuccessful
    <2>1. Slots' = Slots /\ jobs' \subseteq jobs /\ UNCHANGED lastGen /\ pc' = "pass1"
      BY <1>5 DEF DeleteSuccessful, DeleteJob, LeaveVisit, Slots
    <2> QED
      BY <1>a, <2>1, FewerJobs
  <1>6. CASE BeginPass2 \/ MarkRunning \/ \E p \in Projects : SkipProject(p)
    <2>1. Slots' = Slots /\ UNCHANGED <<jobs, lastGen>> /\ pc' = "pass2"
      BY <1>6 DEF BeginPass2, MarkRunning, SkipProject, LeaveVisit, Slots
    <2> QED
      BY <1>a, <2>1, FewerJobs
  <1>7. ASSUME NEW p \in Projects, StartJob(p) PROVE ActiveInvariant'
    <2>1. /\ p \notin counted /\ pc = "pass2" /\ pc' = "mark"
          /\ Slots = counted /\ Slots' = counted \cup {p}
          /\ jobs' = jobs \cup {NewJob(p)}
          /\ lastGen' = [lastGen EXCEPT ![p] = @ + 1]
      BY <1>7 DEF StartJob, NextInOrder, Slots, ExactSlots, InPass2
    <2>2. NewJob(p).project = p /\ NewJob(p).gen = lastGen[p] + 1
      BY DEF NewJob
    <2>3. /\ lastGen[p] \in Nat /\ lastGen'[p] = lastGen[p] + 1
          /\ \A q \in Projects \ {p} : lastGen'[q] = lastGen[q]
      BY <2>1 DEF TypeOK
    <2>4. \A j \in jobs : j.project \in Projects /\ j.gen \in Nat
      BY DEF TypeOK, JobRecord
    <2>5. \A j \in jobs' : j.gen <= lastGen'[j.project]
      BY <2>1, <2>2, <2>3, <2>4 DEF ActiveInvariant
    <2>6. \A j \in jobs : ~(j.project = p /\ j.gen = lastGen[p] + 1)
      BY <2>3, <2>4 DEF ActiveInvariant
    <2>7. \A j, k \in jobs' : j.project = k.project /\ j.gen = k.gen => j = k
      BY <2>1, <2>2, <2>6 DEF ActiveInvariant
    <2>8. \A j \in ActiveJobs' : j.project \in Slots' /\ j.gen = lastGen'[j.project]
      <3> SUFFICES ASSUME NEW j \in ActiveJobs'
                   PROVE  j.project \in Slots' /\ j.gen = lastGen'[j.project]
        OBVIOUS
      <3>1. CASE j = NewJob(p)
        BY <2>1, <2>2, <2>3, <3>1
      <3>2. CASE j # NewJob(p)
        <4>1. j \in ActiveJobs /\ j \in jobs
          BY <2>1, <3>2 DEF ActiveJobs
        <4>2. j.project \in counted /\ j.gen = lastGen[j.project]
          BY <2>1, <4>1 DEF ActiveInvariant
        <4> QED
          BY <2>1, <2>3, <2>4, <4>1, <4>2
      <3> QED
        BY <3>1, <3>2
    <2> QED
      BY <2>1, <2>5, <2>7, <2>8 DEF ActiveInvariant
  <1>8. CASE EndTick
    <2>1. /\ Slots = counted /\ Slots' = RunningProjects /\ UNCHANGED <<jobs, lastGen>>
          /\ pc' = "idle" /\ pc = "pass2"
      BY <1>8 DEF EndTick, LeaveTick, Slots, RunningProjects, store
    <2>2. counted \subseteq RunningProjects
      BY <1>0, <2>1 DEF ExactSlots, RunningProjects, GetProjectsByStatus, TypeOK
    <2> QED
      BY <1>a, <2>1, <2>2, FewerJobs
  <1> QED
    BY <1>1, <1>2, <1>3, <1>4, <1>5, <1>6, <1>7, <1>8 DEF ExecutorStep

\* Kubernetes and the cleanups only end and remove Jobs.
LEMMA ActiveJobSteps ==
    ASSUME TypeOK, ActiveInvariant, JobStep
    PROVE  ActiveInvariant'
  <1>1. /\ UNCHANGED <<lastGen, pc, cur>> /\ Slots' = Slots
    BY DEF JobStep, CleanUp, JobEnds, JobExpires, tick, progress, store, Slots, RunningProjects
  <1>2. CASE jobs' \subseteq jobs
    BY <1>1, <1>2, FewerJobs DEF ActiveInvariant
  <1>3. ASSUME NEW j \in jobs, NEW phase \in {"complete", "failed"}, JobEnds(j, phase)
        PROVE  ActiveInvariant'
    <2> DEFINE k == [j EXCEPT !.phase = phase]
    <2>1. k.project = j.project /\ k.gen = j.gen /\ k.phase # "active"
      BY DEF TypeOK, JobRecord
    <2>2. jobs' = (jobs \ {j}) \cup {k}
      BY <1>3 DEF JobEnds
    <2> HIDE DEF k
    <2>3. ActiveJobs' \subseteq ActiveJobs
      BY <2>1, <2>2 DEF ActiveJobs
    <2>4. \A i, l \in jobs' : i.project = l.project /\ i.gen = l.gen => i = l
      BY <2>1, <2>2 DEF ActiveInvariant
    <2>5. \A i \in jobs' : i.gen <= lastGen'[i.project]
      BY <1>1, <2>1, <2>2 DEF ActiveInvariant
    <2>6. \A i \in ActiveJobs' : i.project \in Slots' /\ i.gen = lastGen'[i.project]
      BY <1>1, <2>3 DEF ActiveInvariant
    <2>7. pc' \in {"capture", "update"} => \A i \in ActiveJobs' : i.project # cur'
      BY <1>1, <2>3 DEF ActiveInvariant
    <2> QED
      BY <2>4, <2>5, <2>6, <2>7 DEF ActiveInvariant
  <1> QED
    BY <1>2, <1>3 DEF JobStep, CleanUp, JobExpires

\* Each active Job has a slot of its own.
LEMMA OneSlotPerJob ==
    ASSUME TypeOK, SlotInvariant, ActiveInvariant
    PROVE  JobsWithinParallelism
  <1> DEFINE f == [j \in ActiveJobs |-> j.project]
  <1>1. f \in [ActiveJobs -> Slots]
    BY DEF ActiveInvariant
  <1>2. \A j, k \in ActiveJobs : f[j] = f[k] => j = k
    BY DEF ActiveInvariant, ActiveJobs
  <1> HIDE DEF f
  <1>3. f \in Injection(ActiveJobs, Slots)
    BY <1>1, <1>2 DEF Injection, IsInjective
  <1>4. Slots \subseteq Projects
    BY DEF TypeOK, Slots, RunningProjects, GetProjectsByStatus
  <1>5. IsFiniteSet(Slots)
    BY <1>4, ConstantsAssumption, FS_Subset
  <1>6. IsFiniteSet(ActiveJobs) /\ Cardinality(ActiveJobs) <= Cardinality(Slots)
    BY <1>3, <1>5, FS_Injection
  <1>7. Cardinality(ActiveJobs) \in Nat /\ Cardinality(Slots) \in Nat
    BY <1>5, <1>6, FS_CardinalityType
  <1> QED
    BY <1>6, <1>7, ConstantsAssumption DEF SlotInvariant, JobsWithinParallelism

\* A budget without faults stays one.
LEMMA UndisturbedHolds ==
    ASSUME Budget["fault"] = 0, Budget["stale"] = 0, Budget["phantom"] = 0
    PROVE  Spec => []Undisturbed
  <1>1. Init => NoFaults
    BY DEF Init, NoFaults
  <1>2. TypeOK /\ NoFaults /\ SlotInvariant /\ [Next]_vars => NoFaults'
    <2> SUFFICES ASSUME TypeOK, NoFaults, SlotInvariant, [Next]_vars
                 PROVE  budget'["fault"] = 0
      BY DEF NoFaults
    <2>1. ASSUME NEW kind \in {"request", "discovery"}, Spend(kind) PROVE budget'["fault"] = 0
      BY <2>1 DEF Spend, EventKinds, TypeOK, NoFaults
    <2>2. Undisturbed
      BY DEF Undisturbed, SlotInvariant
    <2>a. budget["fault"] = 0
      BY DEF NoFaults
    <2>3. CASE UNCHANGED vars
      BY <2>a, <2>3 DEF vars
    <2>4. CASE ExecutorStep
      BY <2>a, <2>2, <2>4
         DEF ExecutorStep, BeginTick, LookUpJob, CaptureMetrics, RecordOutcome, DeleteSuccessful,
             BeginPass2, SkipProject, StartJob, MarkRunning, EndTick, Undisturbed, CacheFollows
    <2>5. CASE RequestStep
      BY <2>a, <2>1, <2>5
         DEF RequestStep, runRenovateForProject, webhookRunRenovate, RequestRun,
             runRenovateForAllProjects, uiDiscovery, cronReconcile, cronSchedule
    <2>6. CASE JobStep
      BY <2>a, <2>6 DEF JobStep, CleanUp, JobEnds, JobExpires
    <2> QED
      BY <2>2, <2>3, <2>4, <2>5, <2>6, UndisturbedSteps
  <1>3. SlotInvariant /\ NoFaults => Undisturbed
    BY DEF SlotInvariant, Undisturbed
  <1>4. Spec => []SlotInvariant
    BY SlotInvariantHolds
  <1>5. Spec => []NoFaults
    BY <1>1, <1>2, <1>4, TypeCorrect, PTL DEF Spec
  <1> QED
    BY <1>3, <1>4, <1>5, PTL

\* As long as no call fails, the cache follows the API server and discoveries find
\* every project, at most spec.parallelism Jobs are active at a time, whatever is
\* requested and however late the cleanups run (README.md:44, executor.go:161-278).
\* Each of the first two conditions keeps the executor from losing sight of a Job,
\* and the third keeps the table from doing so.
THEOREM ActiveJobsWithinParallelism ==
    ASSUME Budget["fault"] = 0, Budget["stale"] = 0, Budget["phantom"] = 0,
           \A d \in Discoverable : d = Projects
    PROVE  Spec => []JobsWithinParallelism
  <1>1. Init => ExactSlots /\ ActiveInvariant
    BY DEF Init, ExactSlots, ActiveInvariant, ActiveJobs, InPass1, InPass2
  <1>2. TypeOK /\ TypeOK' /\ SlotInvariant /\ OrderInvariant /\ FoundEnded /\ Undisturbed
            /\ ExactSlots /\ ActiveInvariant /\ [Next]_vars
        => ExactSlots' /\ ActiveInvariant'
    <2> SUFFICES ASSUME TypeOK, TypeOK', SlotInvariant, OrderInvariant, FoundEnded, Undisturbed,
                        ExactSlots, ActiveInvariant, [Next]_vars
                 PROVE  ExactSlots' /\ ActiveInvariant'
      OBVIOUS
    <2>1. CASE ExecutorStep
      BY <2>1, ExactExecutor, ActiveExecutor
    <2>2. CASE RequestStep
      <3>1. UNCHANGED <<progress, jobs, lastGen>> /\ Forward(projects, projects', snap, snap')
        BY <2>2, RequestSteps
      <3>2. ExactSlots'
        BY <3>1, ExactRequests
      <3>3. UNCHANGED <<pc, counted, cur>>
        BY <3>1 DEF progress
      <3>4. RunningProjects \subseteq RunningProjects'
        BY <3>1 DEF Forward, RunningProjects, GetProjectsByStatus, TypeOK
      <3>5. \A j \in ActiveJobs : j.project \in Slots'
        BY <3>3, <3>4 DEF ActiveInvariant, Slots
      <3>6. ActiveInvariant'
        BY <3>1, <3>3, <3>5, FewerJobs DEF ActiveInvariant
      <3> QED
        BY <3>2, <3>6
    <2>3. CASE JobStep
      <3>1. UNCHANGED <<projects, snap, progress>>
        BY <2>3 DEF JobStep, CleanUp, JobEnds, JobExpires, store, tick
      <3>2. ExactSlots'
        BY <3>1 DEF progress, ExactSlots, InPass1, InPass2
      <3> QED
        BY <2>3, <3>2, ActiveJobSteps
    <2>4. CASE UNCHANGED vars
      BY <2>4 DEF vars, store, tick, progress, ExactSlots, ActiveInvariant, ActiveJobs, Slots,
                  RunningProjects, InPass1, InPass2
    <2> QED
      BY <2>1, <2>2, <2>3, <2>4, UndisturbedSteps
  <1>3. TypeOK /\ SlotInvariant /\ ActiveInvariant => JobsWithinParallelism
    BY OneSlotPerJob
  <1>4. Spec => []SlotInvariant /\ []Undisturbed
    BY SlotInvariantHolds, UndisturbedHolds
  <1> QED
    BY <1>1, <1>2, <1>3, <1>4, TypeCorrect, FoundEndedHolds, OrderHolds, PTL DEF Spec
=============================================================================
