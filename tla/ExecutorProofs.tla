--------------------------- MODULE ExecutorProofs ---------------------------
(***************************************************************************)
(* Theorems about Executor, for every set of projects, every parallelism   *)
(* and every budget of outside events.                                     *)
(***************************************************************************)
EXTENDS Executor, FiniteSetTheorems, TLAPS

-----------------------------------------------------------------------------
(* The operators the actions are built from.                                *)

Table == [Projects -> ProjectEntry]

\* The transition rules map an entry to an entry (projectStatus.go:11-70).
LEMMA GetUpdateStatusType ==
    ASSUME NEW entry \in ProjectEntry, NEW desired \in StatusUpdate
    PROVE  GetUpdateStatusForProject(entry, desired) \in ProjectEntry
  BY DEF GetUpdateStatusForProject, validateProjectStatusScheduled, validateProjectStatusRunning,
         validateProjectStatusCompleted, validateProjectStatusFailed, HigherOf, ProjectEntry,
         StatusUpdate, Statuses, JobStatuses, Priorities

\* UpdateProjectStatus changes one project of the table and keeps its type
\* (renovateJobManager.go:184-214).
LEMMA UpdateProjectStatusType ==
    ASSUME NEW table \in Table, NEW p \in Projects, NEW desired \in StatusUpdate
    PROVE  /\ UpdateProjectStatus(table, p, desired) \in Table
           /\ \A q \in Projects : q # p => UpdateProjectStatus(table, p, desired)[q] = table[q]
  <1>1. table[p] \in ProjectEntry
    BY DEF Table
  <1>2. GetUpdateStatusForProject(table[p], desired) \in ProjectEntry
    BY <1>1, GetUpdateStatusType
  <1>3. [status |-> desired.status, priority |-> desired.priority] \in ProjectEntry
    BY DEF StatusUpdate, ProjectEntry, Statuses
  <1> QED
    BY <1>2, <1>3 DEF UpdateProjectStatus, Table

\* What the write does to the list it was given keeps its type as well.
LEMMA UpdateInPlaceType ==
    ASSUME NEW table \in Table, NEW p \in Projects, NEW desired \in StatusUpdate
    PROVE  UpdateInPlace(table, p, desired) \in Table
  BY UpdateProjectStatusType DEF UpdateInPlace

\* The two batched writes keep the type of the table (renovateJobManager.go:216-236).
LEMMA BatchedType ==
    ASSUME NEW table \in Table
    PROVE  ScheduleIdle(table) \in Table /\ ScheduleAll(table) \in Table
  <1>1. ScheduledBy(0) \in StatusUpdate /\ ScheduledBy(2) \in StatusUpdate
    BY DEF ScheduledBy, StatusUpdate, JobStatuses, Priorities
  <1>2. \A p \in Projects, n \in {0, 2} :
            GetUpdateStatusForProject(table[p], ScheduledBy(n)) \in ProjectEntry
    BY <1>1, GetUpdateStatusType DEF Table
  <1> QED
    BY <1>2 DEF ScheduleIdle, ScheduleAll, UpdateProjectStatusBatched, Table

\* ReconcileProjects keeps the type of the table (renovateJobManager.go:238-286).
LEMMA ReconcileType ==
    ASSUME NEW table \in Table, NEW discovered
    PROVE  ReconcileProjects(table, discovered) \in Table
  BY DEF ReconcileProjects, Table, NotListed, ProjectEntry, Statuses, JobStatuses, Priorities

\* A project counts as running after a single write only if it did before, or if
\* the write was the executor's "running" for it; a recorded outcome ends it.
LEMMA UpdateProjectStatusRunning ==
    ASSUME NEW table \in Table, NEW p \in Projects, NEW desired \in StatusUpdate
    PROVE  LET before == GetProjectsByStatus(table, "running")
               after  == GetProjectsByStatus(UpdateProjectStatus(table, p, desired), "running")
           IN  /\ after \subseteq before \cup {p}
               /\ desired.status # "running" => after \subseteq before
               /\ desired.status \in {"completed", "failed"} => after \subseteq before \ {p}
  BY UpdateProjectStatusType
     DEF GetProjectsByStatus, UpdateProjectStatus, GetUpdateStatusForProject,
         validateProjectStatusScheduled, validateProjectStatusRunning,
         validateProjectStatusCompleted, validateProjectStatusFailed, Table, ProjectEntry,
         StatusUpdate, Statuses, JobStatuses

\* Neither a batched scheduling nor a discovery makes a project running.
LEMMA BulkWritesRunning ==
    ASSUME NEW table \in Table, NEW discovered
    PROVE  LET before == GetProjectsByStatus(table, "running") IN
           /\ GetProjectsByStatus(ScheduleIdle(table), "running") \subseteq before
           /\ GetProjectsByStatus(ScheduleAll(table), "running") \subseteq before
           /\ GetProjectsByStatus(ReconcileProjects(table, discovered), "running")
                 \subseteq before
  BY DEF GetProjectsByStatus, ScheduleIdle, ScheduleAll, ScheduledBy,
         UpdateProjectStatusBatched, ReconcileProjects, GetUpdateStatusForProject, validateProjectStatusScheduled, NotListed, Table

-----------------------------------------------------------------------------
(* Type correctness.                                                        *)

\* The empty table is a table.
LEMMA EmptyTableType == EmptyTable \in Table
  BY DEF EmptyTable, Table, NotListed, ProjectEntry, Statuses, Priorities

\* The updates the executor and the requests write are well formed.
LEMMA UpdatesType ==
    /\ Started \in StatusUpdate
    /\ Outcome \in StatusUpdate
    /\ \A n \in Priorities : ScheduledBy(n) \in StatusUpdate
  BY DEF Started, Outcome, ScheduledBy, getJobStatus, StatusUpdate, JobStatuses, Priorities

\* Spending an outside event leaves a budget of natural numbers.
LEMMA SpendType ==
    ASSUME NEW kind \in EventKinds, budget \in [EventKinds -> Nat], Spend(kind)
    PROVE  budget' \in [EventKinds -> Nat]
  BY DEF Spend

\* A load returns a table, the stored one or an older or altered one.
LEMMA GetRenovateJobType ==
    ASSUME TypeOK
    PROVE  GetRenovateJob \in Table
  BY DEF TypeOK, GetRenovateJob, Table

\* The types of the stored table and of the cache.
StoreType ==
    /\ projects \in Table
    /\ informer \in {"synced", "lagging", "altered"}
    /\ cached \in Table

\* Every kind of write keeps them (renovateJobManager.go:184-286).
LEMMA WritesType ==
    ASSUME TypeOK, NEW result \in Table, NEW inPlace \in Table
    PROVE  /\ LocalWrite(result, inPlace) => StoreType'
           /\ RemoteWrite(result) => StoreType'
           /\ PhantomWrite(inPlace) => StoreType' /\ budget' \in [EventKinds -> Nat]
  <1>1. "phantom" \in EventKinds
    BY DEF EventKinds
  <1>2. PhantomWrite(inPlace) => budget' \in [EventKinds -> Nat]
    BY <1>1, SpendType DEF PhantomWrite, TypeOK
  <1> QED
    BY <1>2, EmptyTableType
       DEF TypeOK, StoreType, LocalWrite, RemoteWrite, PhantomWrite, FollowApiServer, Table

\* The table the tick works from keeps its type.
LEMMA SeenType ==
    ASSUME TypeOK, NEW inPlace \in Table, SeenByTick(inPlace) \/ NotSeenByTick
    PROVE  snap' \in Table /\ shared' \in BOOLEAN
  BY DEF TypeOK, SeenByTick, NotSeenByTick, Table

\* Every variable of the control loop keeps its type.
THEOREM TypeCorrect == Spec => []TypeOK
  <1>1. Init => TypeOK
    <2> SUFFICES ASSUME Init PROVE TypeOK
      OBVIOUS
    <2>1. projects \in Table /\ cached \in Table /\ snap \in Table /\ plan \in Table
      BY EmptyTableType DEF Init
    <2>2. metrics \in [Projects -> GaugeValues] /\ lastGen \in [Projects -> Nat]
      BY DEF Init, NoSeries, GaugeValues
    <2> QED
      BY <2>1, <2>2, ConstantsAssumption DEF Init, TypeOK, Table, PCs
  <1>2. TypeOK /\ [Next]_vars => TypeOK'
    <2> SUFFICES ASSUME TypeOK, [Next]_vars PROVE TypeOK'
      OBVIOUS
    <2> USE DEF TypeOK, store, tick, progress, PCs, Table
    <2>0. /\ EmptyTable \in Table
          /\ GetRenovateJob \in Table
          /\ "fault" \in EventKinds /\ "stale" \in EventKinds
          /\ "request" \in EventKinds /\ "discovery" \in EventKinds
      BY EmptyTableType, GetRenovateJobType DEF EventKinds
    <2>1. CASE BeginTick
      BY <2>1, <2>0, SpendType DEF BeginTick, GetProjectsByStatus
    <2>2. ASSUME NEW p \in Projects, NEW visible \in SUBSET jobs, VisitRunning(p, visible),
                 budget' \in [EventKinds -> Nat]
          PROVE  TypeOK'
      BY <2>2 DEF VisitRunning, GetJobByLabel, GetJobsByLabel
    <2>3. CASE \E p \in Projects : LookUpJob(p)
      BY <2>3, <2>2 DEF LookUpJob
    <2>4. CASE \E p \in Projects : LookUpJobStale(p)
      BY <2>4, <2>2, <2>0, SpendType DEF LookUpJobStale
    <2>5. CASE CaptureMetrics
      BY <2>5 DEF CaptureMetrics, SetRunFailed, GaugeValues
    \* The executor's writes of a single project.
    <2>6. ASSUME NEW desired \in StatusUpdate, cur \in Projects,
                 LocalWrite(UpdateProjectStatus(GetRenovateJob, cur, desired),
                            UpdateInPlace(GetRenovateJob, cur, desired))
          PROVE  StoreType'
      <3>1. UpdateProjectStatus(GetRenovateJob, cur, desired) \in Table
        BY <2>0, <2>6, UpdateProjectStatusType
      <3>2. UpdateInPlace(GetRenovateJob, cur, desired) \in Table
        BY <2>0, <2>6, UpdateInPlaceType
      <3> QED
        BY <2>6, <3>1, <3>2, WritesType
    <2>7. ASSUME NEW desired \in StatusUpdate, NEW p \in Projects,
                 SeenByTick(UpdateInPlace(snap, p, desired)) \/ NotSeenByTick
          PROVE  snap' \in Table /\ shared' \in BOOLEAN
      <3>1. UpdateInPlace(snap, p, desired) \in Table
        BY UpdateInPlaceType
      <3> QED
        BY <2>7, <3>1, SeenType
    <2>8. CASE RecordOutcome
      <3>1. cur \in Projects /\ Outcome \in StatusUpdate
        BY <2>8, UpdatesType DEF RecordOutcome
      <3>2. StoreType' /\ snap' \in Table /\ shared' \in BOOLEAN
        BY <2>8, <3>1, <2>6, <2>7 DEF RecordOutcome
      <3> QED
        BY <2>8, <3>2 DEF RecordOutcome, LeaveVisit, StoreType
    <2>9. CASE DeleteSuccessful
      BY <2>9 DEF DeleteSuccessful, DeleteJob, LeaveVisit
    <2>10. CASE BeginPass2
      BY <2>10 DEF BeginPass2
    <2>11. CASE \E p \in Projects : SkipProject(p)
      BY <2>11 DEF SkipProject
    <2>12. \A p \in Projects : NewJob(p) \in JobRecord(Projects)
      BY DEF NewJob, JobRecord, JobPhases
    <2>13. CASE \E p \in Projects : StartJob(p)
      BY <2>13, <2>12 DEF StartJob, NextInOrder
    <2>14. CASE MarkRunning
      <3>1. cur \in Projects /\ Started \in StatusUpdate
        BY <2>14, UpdatesType DEF MarkRunning
      <3>2. StoreType' /\ snap' \in Table /\ shared' \in BOOLEAN
        BY <2>14, <3>1, <2>6, <2>7 DEF MarkRunning
      <3> QED
        BY <2>14, <3>2 DEF MarkRunning, LeaveVisit, StoreType
    <2>15. CASE EndTick
      BY <2>15, <2>0 DEF EndTick, LeaveTick
    <2>16. CASE LookUpFails
      BY <2>16, <2>0, SpendType DEF LookUpFails, LeaveTick
    <2>17. ASSUME NEW step \in {"update", "mark"}, NEW desired \in StatusUpdate,
                  WriteFails(step, desired)
           PROVE  TypeOK'
      <3>1. cur \in Projects
        BY <2>17 DEF WriteFails
      <3>2. UpdateInPlace(GetRenovateJob, cur, desired) \in Table
        BY <2>0, <3>1, UpdateInPlaceType
      <3>3. StoreType' /\ budget' \in [EventKinds -> Nat]
        <4>1. CASE Spend("fault") /\ UNCHANGED store
          BY <4>1, <2>0, SpendType DEF StoreType
        <4>2. CASE /\ Spend("fault")
                   /\ LocalWrite(UpdateProjectStatus(GetRenovateJob, cur, desired),
                                 UpdateInPlace(GetRenovateJob, cur, desired))
          BY <4>2, <3>1, <2>0, <2>6, SpendType
        <4>3. CASE PhantomWrite(UpdateInPlace(GetRenovateJob, cur, desired))
          BY <4>3, <3>2, WritesType
        <4> QED
          BY <2>17, <4>1, <4>2, <4>3 DEF WriteFails
      <3> QED
        BY <2>17, <2>0, <3>3 DEF WriteFails, LeaveTick, StoreType
    <2>18. CASE RecordOutcomeFails \/ MarkRunningFails
      BY <2>18, <2>17, UpdatesType DEF RecordOutcomeFails, MarkRunningFails
    <2>19. CASE DeleteFails
      BY <2>19, <2>0, SpendType DEF DeleteFails, DeleteJob, LeaveTick
    <2>20. CASE \E p \in Projects : StartJobFails(p)
      <3> PICK p \in Projects : StartJobFails(p)
        BY <2>20
      <3>1. jobs' \subseteq JobRecord(Projects) /\ lastGen' \in [Projects -> Nat]
        BY <2>12 DEF StartJobFails
      <3>2. budget' \in [EventKinds -> Nat]
        BY <2>0, SpendType DEF StartJobFails
      <3> QED
        BY <2>0, <3>1, <3>2 DEF StartJobFails, LeaveTick
    <2>21. CASE \E c \in cleanups : CleanUp(c) \/ CleanUpFails(c)
      BY <2>21, <2>0, SpendType DEF CleanUp, CleanUpFails
    \* The other writers leave the progress of the tick alone.
    <2>22. ASSUME StoreType', snap' \in Table, shared' \in BOOLEAN,
                  budget' \in [EventKinds -> Nat], metrics' \in [Projects -> GaugeValues],
                  cron' \in {"idle", "reconciled"},
                  UNCHANGED <<jobs, lastGen, cleanups, progress>>
           PROVE  TypeOK'
      BY <2>22 DEF StoreType
    <2>23. ASSUME NEW p \in Projects, NEW n \in Priorities,
                  RequestRun(p, n) \/ RequestFails(p, n)
           PROVE  TypeOK'
      <3>1. ScheduledBy(n) \in StatusUpdate
        BY UpdatesType
      <3>2. /\ UpdateProjectStatus(GetRenovateJob, p, ScheduledBy(n)) \in Table
            /\ UpdateProjectStatus(projects, p, ScheduledBy(n)) \in Table
            /\ UpdateInPlace(GetRenovateJob, p, ScheduledBy(n)) \in Table
        BY <3>1, <2>0, UpdateProjectStatusType, UpdateInPlaceType
      <3>3. StoreType'
        BY <2>23, <3>2, WritesType DEF RequestRun, RequestFails
      <3>4. snap' \in Table /\ shared' \in BOOLEAN
        BY <2>23, <3>1, <2>7 DEF RequestRun, RequestFails
      <3>5. budget' \in [EventKinds -> Nat]
        BY <2>23, <3>2, <2>0, SpendType, WritesType DEF RequestRun, RequestFails
      <3> QED
        BY <2>23, <2>22, <3>3, <3>4, <3>5 DEF RequestRun, RequestFails
    <2>24. CASE \E p \in Projects : runRenovateForProject(p) \/ webhookRunRenovate(p)
      BY <2>24, <2>23 DEF runRenovateForProject, webhookRunRenovate, Priorities
    <2>25. CASE \E p \in Projects, priority \in {1, 2} : RequestFails(p, priority)
      BY <2>25, <2>23 DEF Priorities
    <2>26. /\ ScheduleIdle(GetRenovateJob) \in Table /\ ScheduleIdle(projects) \in Table
           /\ ScheduleIdle(snap) \in Table
           /\ ScheduleAll(GetRenovateJob) \in Table /\ ScheduleAll(snap) \in Table
      BY <2>0, BatchedType
    <2>27. CASE runRenovateForAllProjects \/ RequestAllFails
      <3>1. StoreType'
        BY <2>27, <2>26, WritesType DEF runRenovateForAllProjects, RequestAllFails
      <3>2. snap' \in Table /\ shared' \in BOOLEAN
        BY <2>27, <2>26, SeenType DEF runRenovateForAllProjects, RequestAllFails
      <3>3. budget' \in [EventKinds -> Nat]
        BY <2>27, <2>26, <2>0, SpendType, WritesType DEF runRenovateForAllProjects, RequestAllFails
      <3> QED
        BY <2>27, <2>22, <3>1, <3>2, <3>3 DEF runRenovateForAllProjects, RequestAllFails
    <2>28. \A removed : DeleteProjectMetrics(metrics, removed) \in [Projects -> GaugeValues]
      BY DEF DeleteProjectMetrics, NoSeries, GaugeValues
    <2>29. NotSeenByTick => snap' \in Table /\ shared' \in BOOLEAN
      BY DEF NotSeenByTick
    <2>30. ASSUME NEW d, StoreDiscovered(d)
           PROVE  /\ StoreType' /\ snap' \in Table /\ shared' \in BOOLEAN
                  /\ metrics' \in [Projects -> GaugeValues]
      BY <2>30, <2>0, <2>28, <2>29, ReconcileType, WritesType DEF StoreDiscovered
    <2>31. CASE \E d \in Discoverable : uiDiscovery(d)
      <3> PICK d \in Discoverable : uiDiscovery(d)
        BY <2>31
      <3>1. budget' \in [EventKinds -> Nat]
        BY <2>0, SpendType DEF uiDiscovery
      <3>2. CASE StoreDiscovered(d)
        BY <3>1, <3>2, <2>22, <2>30 DEF uiDiscovery
      <3>3. CASE /\ RemoteWrite(ReconcileProjects(projects, d))
                 /\ NotSeenByTick
                 /\ UNCHANGED metrics
        BY <3>1, <3>3, <2>22, <2>29, <2>0, ReconcileType, WritesType DEF uiDiscovery
      <3> QED
        BY <3>2, <3>3 DEF uiDiscovery
    <2>32. CASE \E d \in Discoverable : cronReconcile(d)
      BY <2>32, <2>22, <2>30, <2>0, SpendType DEF cronReconcile
    <2>33. CASE \E d \in Discoverable : reconcileFails(d)
      <3> PICK d \in Discoverable : reconcileFails(d)
        BY <2>33
      <3>1. budget' \in [EventKinds -> Nat]
        BY <2>0, SpendType DEF reconcileFails
      <3>2. CASE StoreDiscovered(d)
        BY <3>1, <3>2, <2>22, <2>30 DEF reconcileFails
      <3>3. CASE /\ metrics' = DeleteProjectMetrics(metrics, Dropped(d))
                 /\ UNCHANGED <<store, snap, shared>>
        BY <3>1, <3>3, <2>22, <2>28 DEF reconcileFails, StoreType
      <3> QED
        BY <3>2, <3>3 DEF reconcileFails
    <2>34. CASE cronSchedule
      <3>1. StoreType' /\ snap' \in Table /\ shared' \in BOOLEAN
        BY <2>34, <2>26, WritesType, SeenType DEF cronSchedule
      <3> QED
        BY <2>34, <2>22, <3>1 DEF cronSchedule
    <2>35. CASE cronScheduleFails
      <3>1. CASE Spend("fault") /\ UNCHANGED <<store, snap, shared>>
        BY <2>35, <3>1, <2>22, <2>0, SpendType DEF cronScheduleFails, StoreType
      <3>2. CASE PhantomWrite(ScheduleAll(GetRenovateJob)) /\ SeenByTick(ScheduleAll(snap))
        <4>1. /\ StoreType' /\ budget' \in [EventKinds -> Nat]
              /\ snap' \in Table /\ shared' \in BOOLEAN
          BY <3>2, <2>26, WritesType, SeenType
        <4> QED
          BY <2>35, <4>1, <2>22 DEF cronScheduleFails
      <3> QED
        BY <2>35, <3>1, <3>2 DEF cronScheduleFails
    <2>36. ASSUME NEW j \in jobs, NEW phase \in JobPhases, JobEnds(j, phase)
           PROVE  TypeOK'
      BY <2>36 DEF JobEnds, JobRecord
    <2>37. CASE \E j \in jobs : JobEnds(j, "complete") \/ JobEnds(j, "failed")
      BY <2>37, <2>36 DEF JobPhases
    <2>38. CASE \E j \in jobs : JobExpires(j)
      BY <2>38 DEF JobExpires
    <2>39. CASE CacheLags
      BY <2>39 DEF CacheLags
    <2>40. CASE CacheSync
      BY <2>40, <2>0 DEF CacheSync, FollowApiServer
    <2>41. CASE Crash
      BY <2>41, <2>0, SpendType DEF Crash, LeaveTick, FollowApiServer, NoSeries, GaugeValues
    <2>42. CASE UNCHANGED vars
      BY <2>42 DEF vars
    <2> QED
      BY <2>1, <2>3, <2>4, <2>5, <2>8, <2>9, <2>10, <2>11, <2>13, <2>14, <2>15, <2>16, <2>18,
         <2>19, <2>20, <2>21, <2>24, <2>25, <2>27, <2>31, <2>32, <2>33, <2>34, <2>35, <2>37,
         <2>38, <2>39, <2>40, <2>41, <2>42
         DEF Next, ExecutorStep, ExecutorFault, Writers, Environment
  <1> QED
    BY <1>1, <1>2, PTL DEF Spec

-----------------------------------------------------------------------------
(* The concurrency limit.                                                   *)

\* The projects that hold a slot: between two ticks the running ones, within a
\* tick those the executor has counted.
Slots == IF pc = "idle" THEN RunningProjects ELSE counted

\* The cache follows the API server: no write left a phantom and no watch lags.
CacheFollows ==
    /\ budget["stale"] = 0
    /\ budget["phantom"] = 0
    /\ informer = "synced"

\* The inductive invariant behind the limit.  RunningWithinParallelism alone is
\* not inductive: in the middle of a tick a slot is only free if the counter
\* of the executor covers every project that runs.
SlotInvariant ==
    /\ CacheFollows
    /\ RunningProjects \subseteq Slots
    /\ Cardinality(Slots) <= Parallelism
    /\ pc \in {"capture", "update"} => getJobStatus(found) # "running"
    /\ pc = "mark" => cur \in counted

\* Fewer projects in the slots need no more slots.
LEMMA FewerSlots ==
    ASSUME NEW S \in SUBSET Projects, NEW T \in SUBSET Projects, S \subseteq T,
           Cardinality(T) <= Parallelism
    PROVE  Cardinality(S) <= Parallelism
  <1>1. IsFiniteSet(T) /\ IsFiniteSet(S)
    BY ConstantsAssumption, FS_Subset
  <1>2. Cardinality(S) <= Cardinality(T) /\ Cardinality(S) \in Nat /\ Cardinality(T) \in Nat
    BY <1>1, FS_Subset, FS_CardinalityType
  <1> QED
    BY <1>2, ConstantsAssumption

\* Taking a free slot stays within the limit.
LEMMA OneMoreSlot ==
    ASSUME NEW S \in SUBSET Projects, NEW p \in Projects, Cardinality(S) < Parallelism
    PROVE  Cardinality(S \cup {p}) <= Parallelism
  <1>1. IsFiniteSet(S)
    BY ConstantsAssumption, FS_Subset
  <1>2. Cardinality(S) \in Nat
    BY <1>1, FS_CardinalityType
  <1>3. Cardinality(S \cup {p}) = IF p \in S THEN Cardinality(S) ELSE Cardinality(S) + 1
    BY <1>1, FS_AddElement
  <1> QED
    BY <1>2, <1>3, ConstantsAssumption

\* While the cache follows the API server, reads are current, writes show their
\* result and no write leaves a phantom.
LEMMA SyncedWrites ==
    ASSUME CacheFollows, NEW result, NEW inPlace
    PROVE  /\ GetRenovateJob = projects
           /\ LocalWrite(result, inPlace) => projects' = result /\ informer' = "synced"
           /\ RemoteWrite(result) => projects' = result /\ informer' = "synced"
           /\ ~PhantomWrite(inPlace)
  BY DEF CacheFollows, GetRenovateJob, LocalWrite, RemoteWrite, PhantomWrite, FollowApiServer,
         Spend

\* Spending another kind of event leaves these two kinds used up.
LEMMA SpendOther ==
    ASSUME NEW kind \in {"request", "discovery", "fault"}, budget \in [EventKinds -> Nat],
           Spend(kind), CacheFollows, informer' = "synced"
    PROVE  CacheFollows'
  BY DEF Spend, EventKinds, CacheFollows

\* Every step preserves the invariant, whoever takes it.
LEMMA SlotInvariantStep ==
    ASSUME TypeOK, SlotInvariant, [Next]_vars
    PROVE  SlotInvariant'
  <1> USE DEF TypeOK, store, tick, progress, Slots, RunningProjects, PCs
  <1>0. /\ CacheFollows
        /\ GetRenovateJob = projects
        /\ informer = "synced"
        /\ informer' = "synced" /\ UNCHANGED budget => CacheFollows'
        /\ projects \in Table
        /\ RunningProjects \subseteq Projects /\ Slots \subseteq Projects
    BY SyncedWrites DEF SlotInvariant, CacheFollows, Table, GetProjectsByStatus
  \* A step that leaves the tick: whatever still runs had a slot.
  <1>a. ASSUME LeaveTick, CacheFollows', RunningProjects' \subseteq Slots
        PROVE  SlotInvariant'
    <2>1. Cardinality(RunningProjects') <= Parallelism
      BY <1>a, <1>0, FewerSlots DEF SlotInvariant
    <2> QED
      BY <1>a, <2>1 DEF SlotInvariant, LeaveTick
  \* A step of another actor: it lets the executor alone and starts nothing.
  <1>b. ASSUME UNCHANGED progress, CacheFollows', RunningProjects' \subseteq RunningProjects
        PROVE  SlotInvariant'
    <2>1. Cardinality(Slots') <= Parallelism
      BY <1>b, <1>0, FewerSlots DEF SlotInvariant
    <2> QED
      BY <1>b, <2>1 DEF SlotInvariant
  <1>1. CASE BeginTick
    BY <1>1, <1>0 DEF BeginTick, SlotInvariant
  <1>2. CASE \E p \in Projects : LookUpJob(p)
    BY <1>2, <1>0 DEF LookUpJob, VisitRunning, SlotInvariant
  <1>3. CASE \E p \in Projects : LookUpJobStale(p)
    BY <1>3, <1>0 DEF LookUpJobStale, Spend, CacheFollows
  <1>4. CASE CaptureMetrics
    BY <1>4, <1>0 DEF CaptureMetrics, SlotInvariant
  <1>5. CASE RecordOutcome
    <2>1. Outcome \in StatusUpdate /\ Outcome.status \in {"completed", "failed"}
      BY <1>5, UpdatesType DEF RecordOutcome, SlotInvariant, Outcome, getJobStatus
    <2>2. projects' = UpdateProjectStatus(projects, cur, Outcome) /\ informer' = "synced"
      BY <1>5, <1>0, SyncedWrites DEF RecordOutcome
    <2>3. RunningProjects' \subseteq RunningProjects \ {cur}
      BY <1>5, <1>0, <2>1, <2>2, UpdateProjectStatusRunning DEF RecordOutcome
    <2>4. Cardinality(counted \ {cur}) <= Parallelism
      BY <1>5, <1>0, FewerSlots DEF SlotInvariant, RecordOutcome
    <2> QED
      BY <1>5, <1>0, <2>2, <2>3, <2>4 DEF RecordOutcome, LeaveVisit, SlotInvariant
  <1>6. CASE DeleteSuccessful
    BY <1>6, <1>0 DEF DeleteSuccessful, LeaveVisit, SlotInvariant
  <1>7. CASE BeginPass2
    BY <1>7, <1>0 DEF BeginPass2, SlotInvariant
  <1>8. CASE \E p \in Projects : SkipProject(p)
    BY <1>8, <1>0 DEF SkipProject, SlotInvariant
  <1>9. CASE \E p \in Projects : StartJob(p)
    <2> PICK p \in Projects : StartJob(p)
      BY <1>9
    <2>1. Cardinality(counted \cup {p}) <= Parallelism
      BY OneMoreSlot DEF StartJob, SlotFree, runningProjects
    <2> QED
      BY <1>0, <2>1 DEF StartJob, SlotInvariant
  <1>10. CASE MarkRunning
    <2>1. projects' = UpdateProjectStatus(projects, cur, Started) /\ informer' = "synced"
      BY <1>10, <1>0, SyncedWrites DEF MarkRunning
    <2>2. RunningProjects' \subseteq RunningProjects \cup {cur}
      BY <1>10, <1>0, <2>1, UpdatesType, UpdateProjectStatusRunning DEF MarkRunning
    <2> QED
      BY <1>10, <1>0, <2>1, <2>2 DEF MarkRunning, LeaveVisit, SlotInvariant
  <1>11. CASE EndTick
    BY <1>11, <1>0, <1>a DEF EndTick, SlotInvariant
  <1>12. CASE LookUpFails
    BY <1>12, <1>0, <1>a, SpendOther DEF LookUpFails, SlotInvariant
  <1>13. ASSUME NEW step, NEW desired, WriteFails(step, desired)
         PROVE  /\ CacheFollows'
                /\ \/ UNCHANGED projects
                   \/ projects' = UpdateProjectStatus(projects, cur, desired)
    BY <1>13, <1>0, SyncedWrites, SpendOther DEF WriteFails
  <1>14. CASE RecordOutcomeFails
    <2>1. Outcome \in StatusUpdate /\ Outcome.status \in {"completed", "failed"}
      BY <1>14, UpdatesType DEF RecordOutcomeFails, WriteFails, SlotInvariant, Outcome, getJobStatus
    <2>2. cur \in Projects /\ pc # "idle"
      BY <1>14 DEF RecordOutcomeFails, WriteFails
    <2>3. RunningProjects' \subseteq RunningProjects
      BY <1>14, <1>13, <1>0, <2>1, <2>2, UpdateProjectStatusRunning DEF RecordOutcomeFails
    <2> QED
      BY <1>14, <1>13, <1>a, <2>3 DEF RecordOutcomeFails, WriteFails, SlotInvariant
  <1>15. CASE MarkRunningFails
    <2>1. cur \in Projects /\ pc = "mark"
      BY <1>15 DEF MarkRunningFails, WriteFails
    <2>2. RunningProjects' \subseteq RunningProjects \cup {cur}
      BY <1>15, <1>13, <1>0, <2>1, UpdatesType, UpdateProjectStatusRunning DEF MarkRunningFails
    <2> QED
      BY <1>15, <1>13, <1>a, <2>1, <2>2 DEF MarkRunningFails, WriteFails, SlotInvariant
  <1>16. CASE DeleteFails
    BY <1>16, <1>0, <1>a, SpendOther DEF DeleteFails, SlotInvariant
  <1>17. CASE \E p \in Projects : StartJobFails(p)
    BY <1>17, <1>0, <1>a, SpendOther DEF StartJobFails, SlotInvariant
  <1>18. CASE \E c \in cleanups : CleanUp(c) \/ CleanUpFails(c)
    BY <1>18, <1>0, <1>b, SpendOther DEF CleanUp, CleanUpFails
  <1>19. ASSUME NEW p \in Projects, NEW n \in Priorities, RequestRun(p, n)
         PROVE  SlotInvariant'
    <2>1. projects' = UpdateProjectStatus(projects, p, ScheduledBy(n)) /\ CacheFollows'
      BY <1>19, <1>0, SyncedWrites, SpendOther DEF RequestRun
    <2>2. ScheduledBy(n) \in StatusUpdate /\ ScheduledBy(n).status = "scheduled"
      BY UpdatesType DEF ScheduledBy
    <2>3. RunningProjects' \subseteq RunningProjects
      BY <1>0, <2>1, <2>2, UpdateProjectStatusRunning
    <2> QED
      BY <1>19, <1>b, <2>1, <2>3 DEF RequestRun
  <1>20. CASE \E p \in Projects : runRenovateForProject(p) \/ webhookRunRenovate(p)
    BY <1>20, <1>19 DEF runRenovateForProject, webhookRunRenovate, Priorities
  <1>21. CASE runRenovateForAllProjects
    <2>1. projects' = ScheduleIdle(projects) /\ CacheFollows'
      BY <1>21, <1>0, SyncedWrites, SpendOther DEF runRenovateForAllProjects
    <2>2. RunningProjects' \subseteq RunningProjects
      BY <1>0, <2>1, BulkWritesRunning
    <2> QED
      BY <1>21, <1>b, <2>1, <2>2 DEF runRenovateForAllProjects
  <1>22. CASE RequestAllFails \/ \E p \in Projects, priority \in {1, 2} : RequestFails(p, priority)
    BY <1>22, <1>0, SyncedWrites DEF RequestAllFails, RequestFails
  <1>23. \A d : GetProjectsByStatus(ReconcileProjects(projects, d), "running")
                    \subseteq RunningProjects
    BY <1>0, BulkWritesRunning
  <1>24. ASSUME NEW d, StoreDiscovered(d)
         PROVE  projects' = ReconcileProjects(projects, d) /\ informer' = "synced"
    BY <1>24, <1>0, SyncedWrites DEF StoreDiscovered
  <1>25. CASE \E d \in Discoverable : uiDiscovery(d) \/ cronReconcile(d)
    <2> PICK d \in Discoverable : uiDiscovery(d) \/ cronReconcile(d)
      BY <1>25
    <2>1. projects' = ReconcileProjects(projects, d) /\ informer' = "synced"
      BY <1>24, <1>0, SyncedWrites DEF uiDiscovery, cronReconcile
    <2>2. CacheFollows'
      BY <1>0, <2>1, SpendOther DEF uiDiscovery, cronReconcile
    <2> QED
      BY <1>23, <1>b, <2>1, <2>2 DEF uiDiscovery, cronReconcile
  <1>26. CASE \E d \in Discoverable : reconcileFails(d)
    BY <1>26, <1>23, <1>24, <1>0, <1>b, SpendOther DEF reconcileFails
  <1>27. CASE cronSchedule
    <2>1. projects' = ScheduleAll(projects) /\ informer' = "synced"
      BY <1>27, <1>0, SyncedWrites DEF cronSchedule
    <2>2. RunningProjects' \subseteq RunningProjects
      BY <1>0, <2>1, BulkWritesRunning
    <2> QED
      BY <1>27, <1>0, <1>b, <2>1, <2>2 DEF cronSchedule
  <1>28. CASE cronScheduleFails
    BY <1>28, <1>0, <1>b, SyncedWrites, SpendOther DEF cronScheduleFails
  <1>29. CASE \E j \in jobs : JobEnds(j, "complete") \/ JobEnds(j, "failed") \/ JobExpires(j)
    BY <1>29, <1>0, <1>b DEF JobEnds, JobExpires
  <1>30. CASE CacheLags \/ CacheSync
    BY <1>30, <1>0 DEF CacheLags, CacheSync, CacheFollows
  <1>31. CASE Crash
    BY <1>31, <1>0, <1>a, SpendOther DEF Crash, FollowApiServer, SlotInvariant
  <1>32. CASE UNCHANGED vars
    BY <1>32, <1>0, <1>b DEF vars
  <1> QED
    BY <1>1, <1>2, <1>3, <1>4, <1>5, <1>6, <1>7, <1>8, <1>9, <1>10, <1>11, <1>12, <1>14, <1>15,
       <1>16, <1>17, <1>18, <1>20, <1>21, <1>22, <1>25, <1>26, <1>27, <1>28, <1>29, <1>30,
       <1>31, <1>32
       DEF Next, ExecutorStep, ExecutorFault, Writers, Environment

\* Initially no project is listed and every slot is free.
LEMMA SlotInvariantInit ==
    ASSUME Init, Budget["stale"] = 0, Budget["phantom"] = 0
    PROVE  SlotInvariant
  <1>1. RunningProjects = {}
    BY DEF Init, RunningProjects, GetProjectsByStatus, EmptyTable, NotListed
  <1>2. Cardinality(RunningProjects) <= Parallelism
    BY <1>1, FS_EmptySet, ConstantsAssumption
  <1> QED
    BY <1>1, <1>2 DEF Init, SlotInvariant, CacheFollows, Slots

\* With an informer cache that follows the API server, SlotInvariant always holds.
LEMMA SlotInvariantHolds ==
    ASSUME Budget["stale"] = 0, Budget["phantom"] = 0
    PROVE  Spec => []SlotInvariant
  <1>1. Init => SlotInvariant
    BY SlotInvariantInit
  <1>2. TypeOK /\ SlotInvariant /\ [Next]_vars => SlotInvariant'
    BY SlotInvariantStep
  <1> QED
    BY <1>1, <1>2, TypeCorrect, PTL DEF Spec

\* The concurrency limit holds for every number of projects and any order of
\* requests, discoveries, failed calls and crashes, as long as the informer cache
\* follows the API server: no tick starts from an outdated table and no failed
\* write leaves its change in the cache (executor.go:159-281).
THEOREM ParallelismLimit ==
    ASSUME Budget["stale"] = 0, Budget["phantom"] = 0
    PROVE  Spec => []RunningWithinParallelism
  <1>1. TypeOK /\ SlotInvariant => RunningWithinParallelism
    <2> SUFFICES ASSUME TypeOK, SlotInvariant PROVE RunningWithinParallelism
      OBVIOUS
    <2>1. RunningProjects \subseteq Projects /\ Slots \subseteq Projects
      BY DEF TypeOK, RunningProjects, GetProjectsByStatus, Slots
    <2> QED
      BY <2>1, FewerSlots DEF SlotInvariant, RunningWithinParallelism
  <1> QED
    BY <1>1, SlotInvariantHolds, TypeCorrect, PTL

-----------------------------------------------------------------------------
(* The transition rules, seen through all writers.                          *)

\* A table and what one operation of RenovateJobManager makes of it; the executor
\* writes the update its tick has decided on.
WrittenFrom(before, after) ==
    \/ after = before
    \/ \E p \in Projects, n \in Priorities :
          after = UpdateProjectStatus(before, p, ScheduledBy(n))
    \/ pc = "update" /\ after = UpdateProjectStatus(before, cur, Outcome)
    \/ pc = "mark" /\ after = UpdateProjectStatus(before, cur, Started)
    \/ after = ScheduleIdle(before)
    \/ after = ScheduleAll(before)
    \/ \E d \in Discoverable : after = ReconcileProjects(before, d)

\* What a step may do to the stored table and to the cache.  A write starts from
\* the stored table unless a phantom is in the cache.
StoreStep ==
    /\ WrittenFrom(projects, projects') \/ WrittenFrom(GetRenovateJob, projects')
    /\ informer # "altered" => WrittenFrom(projects, projects')
    /\ \/ cached' \in {cached, EmptyTable}
       \/ WrittenFrom(GetRenovateJob, cached')
    /\ informer' = "altered" => informer = "altered" \/ Spend("phantom")
    /\ budget'["phantom"] # budget["phantom"] => Spend("phantom")

\* A write of the leader starts from what it loaded.
LEMMA LocalStoreStep ==
    ASSUME TypeOK, NEW result, NEW inPlace, LocalWrite(result, inPlace),
           WrittenFrom(GetRenovateJob, result), WrittenFrom(GetRenovateJob, inPlace),
           budget'["phantom"] = budget["phantom"]
    PROVE  StoreStep
  <1>1. informer # "altered" => GetRenovateJob = projects
    BY DEF TypeOK, LocalWrite, GetRenovateJob
  <1> QED
    BY <1>1 DEF StoreStep, LocalWrite, FollowApiServer

\* A write of another replica starts from the stored table.
LEMMA RemoteStoreStep ==
    ASSUME NEW result, RemoteWrite(result), WrittenFrom(projects, result),
           budget'["phantom"] = budget["phantom"]
    PROVE  StoreStep
  BY DEF StoreStep, RemoteWrite, FollowApiServer

\* A phantom changes the cache alone.
LEMMA PhantomStoreStep ==
    ASSUME NEW inPlace, PhantomWrite(inPlace), WrittenFrom(GetRenovateJob, inPlace)
    PROVE  StoreStep
  BY DEF StoreStep, PhantomWrite, WrittenFrom

\* A step that does not write.
LEMMA NoStoreStep ==
    ASSUME UNCHANGED store, budget'["phantom"] = budget["phantom"]
    PROVE  StoreStep
  BY DEF StoreStep, store, WrittenFrom

\* Spending another kind of event leaves the phantoms alone.
LEMMA SpendNoPhantom ==
    ASSUME NEW kind \in {"request", "discovery", "fault", "stale"},
           budget \in [EventKinds -> Nat], Spend(kind)
    PROVE  budget'["phantom"] = budget["phantom"]
  BY DEF Spend, EventKinds

\* Every step that writes the table does so through one of the operations of
\* RenovateJobManager.
LEMMA StoreSteps ==
    ASSUME TypeOK, [Next]_vars
    PROVE  StoreStep
  <1> USE DEF TypeOK
  <1>0. \A p \in Projects, n \in Priorities :
           /\ WrittenFrom(projects, UpdateProjectStatus(projects, p, ScheduledBy(n)))
           /\ WrittenFrom(GetRenovateJob, UpdateProjectStatus(GetRenovateJob, p, ScheduledBy(n)))
           /\ WrittenFrom(GetRenovateJob, UpdateInPlace(GetRenovateJob, p, ScheduledBy(n)))
    BY DEF WrittenFrom, UpdateInPlace
  <1>1. /\ WrittenFrom(projects, ScheduleIdle(projects))
        /\ WrittenFrom(GetRenovateJob, ScheduleIdle(GetRenovateJob))
        /\ WrittenFrom(GetRenovateJob, ScheduleAll(GetRenovateJob))
        /\ WrittenFrom(GetRenovateJob, GetRenovateJob)
    BY DEF WrittenFrom
  <1>2. \A d \in Discoverable :
           /\ WrittenFrom(projects, ReconcileProjects(projects, d))
           /\ WrittenFrom(GetRenovateJob, ReconcileProjects(GetRenovateJob, d))
    BY DEF WrittenFrom
  <1>3. pc = "update" =>
           /\ WrittenFrom(GetRenovateJob, UpdateProjectStatus(GetRenovateJob, cur, Outcome))
           /\ WrittenFrom(GetRenovateJob, UpdateInPlace(GetRenovateJob, cur, Outcome))
    BY DEF WrittenFrom, UpdateInPlace
  <1>4. pc = "mark" =>
           /\ WrittenFrom(GetRenovateJob, UpdateProjectStatus(GetRenovateJob, cur, Started))
           /\ WrittenFrom(GetRenovateJob, UpdateInPlace(GetRenovateJob, cur, Started))
    BY DEF WrittenFrom, UpdateInPlace
  <1>5. CASE ExecutorStep
    <2>1. CASE RecordOutcome
      BY <2>1, <1>3, LocalStoreStep DEF RecordOutcome
    <2>2. CASE MarkRunning
      BY <2>2, <1>4, LocalStoreStep DEF MarkRunning
    <2>3. CASE BeginTick
      BY <2>3, NoStoreStep, SpendNoPhantom DEF BeginTick
    <2>4. CASE ~(RecordOutcome \/ MarkRunning \/ BeginTick)
      BY <1>5, <2>4, NoStoreStep
         DEF ExecutorStep, LookUpJob, VisitRunning, CaptureMetrics, DeleteSuccessful, BeginPass2,
             SkipProject, StartJob, EndTick
    <2> QED
      BY <2>1, <2>2, <2>3, <2>4
  <1>6. CASE ExecutorFault
    <2>1. ASSUME NEW step, NEW desired, WriteFails(step, desired),
                 WrittenFrom(GetRenovateJob, UpdateProjectStatus(GetRenovateJob, cur, desired)),
                 WrittenFrom(GetRenovateJob, UpdateInPlace(GetRenovateJob, cur, desired))
          PROVE  StoreStep
      BY <2>1, NoStoreStep, LocalStoreStep, PhantomStoreStep, SpendNoPhantom DEF WriteFails
    <2>2. CASE RecordOutcomeFails
      <3>1. pc = "update"
        BY <2>2 DEF RecordOutcomeFails, WriteFails
      <3> QED
        BY <2>2, <3>1, <1>3, <2>1 DEF RecordOutcomeFails
    <2>3. CASE MarkRunningFails
      <3>1. pc = "mark"
        BY <2>3 DEF MarkRunningFails, WriteFails
      <3> QED
        BY <2>3, <3>1, <1>4, <2>1 DEF MarkRunningFails
    <2>4. CASE ~(RecordOutcomeFails \/ MarkRunningFails)
      BY <1>6, <2>4, NoStoreStep, SpendNoPhantom
         DEF ExecutorFault, LookUpJobStale, VisitRunning, LookUpFails, DeleteFails, StartJobFails
    <2> QED
      BY <2>2, <2>3, <2>4
  <1>7. CASE Writers
    <2>1. ASSUME NEW p \in Projects, NEW n \in Priorities, RequestRun(p, n) \/ RequestFails(p, n)
          PROVE  StoreStep
      BY <2>1, <1>0, LocalStoreStep, RemoteStoreStep, PhantomStoreStep, SpendNoPhantom
         DEF RequestRun, RequestFails
    <2>2. CASE \E p \in Projects : runRenovateForProject(p) \/ webhookRunRenovate(p)
      BY <2>2, <2>1 DEF runRenovateForProject, webhookRunRenovate, Priorities
    <2>3. CASE \E p \in Projects, priority \in {1, 2} : RequestFails(p, priority)
      BY <2>3, <2>1 DEF Priorities
    <2>4. CASE runRenovateForAllProjects \/ RequestAllFails
      BY <2>4, <1>1, LocalStoreStep, RemoteStoreStep, PhantomStoreStep, SpendNoPhantom
         DEF runRenovateForAllProjects, RequestAllFails
    <2>5. CASE \E d \in Discoverable : uiDiscovery(d) \/ cronReconcile(d)
      BY <2>5, <1>1, <1>2, LocalStoreStep, RemoteStoreStep, SpendNoPhantom
         DEF uiDiscovery, cronReconcile, StoreDiscovered
    <2>6. CASE \E d \in Discoverable : reconcileFails(d)
      BY <2>6, <1>1, <1>2, LocalStoreStep, NoStoreStep, SpendNoPhantom
         DEF reconcileFails, StoreDiscovered
    <2>7. CASE cronSchedule
      BY <2>7, <1>1, LocalStoreStep DEF cronSchedule
    <2>8. CASE cronScheduleFails
      BY <2>8, <1>1, PhantomStoreStep, NoStoreStep, SpendNoPhantom DEF cronScheduleFails
    <2> QED
      BY <1>7, <2>2, <2>3, <2>4, <2>5, <2>6, <2>7, <2>8 DEF Writers
  <1>8. CASE Environment
    <2>1. CASE CacheLags
      BY <2>1, <1>1 DEF CacheLags, StoreStep, WrittenFrom, GetRenovateJob
    <2>2. CASE CacheSync
      BY <2>2 DEF CacheSync, FollowApiServer, StoreStep, WrittenFrom
    <2>3. CASE Crash
      BY <2>3, SpendNoPhantom DEF Crash, FollowApiServer, StoreStep, WrittenFrom
    <2>4. CASE ~(CacheLags \/ CacheSync \/ Crash)
      BY <1>8, <2>4, NoStoreStep, SpendNoPhantom
         DEF Environment, CleanUp, CleanUpFails, JobEnds, JobExpires
    <2> QED
      BY <2>1, <2>2, <2>3, <2>4
  <1>9. CASE UNCHANGED vars
    BY <1>9, NoStoreStep DEF vars
  <1> QED
    BY <1>5, <1>6, <1>7, <1>8, <1>9 DEF Next

\* The inductive form of PriorityOnlyWhileScheduled: the cache keeps the rule too,
\* because a later write may start from it.
ConsumedIn(table) == \A p \in Projects : table[p].priority > 0 => table[p].status = "scheduled"

PriorityInvariant == ConsumedIn(projects) /\ ConsumedIn(cached)

\* The operations of RenovateJobManager keep the rule.
LEMMA WritesConsume ==
    ASSUME TypeOK, NEW before \in Table, NEW after, ConsumedIn(before), WrittenFrom(before, after)
    PROVE  ConsumedIn(after)
  <1> SUFFICES ASSUME NEW p \in Projects, after[p].priority > 0
               PROVE  after[p].status = "scheduled"
    BY DEF ConsumedIn
  <1> USE DEF TypeOK, ConsumedIn, Table, ScheduledBy, GetUpdateStatusForProject,
              validateProjectStatusScheduled, HigherOf, Priorities, ProjectEntry
  <1>1. CASE \E q \in Projects, n \in Priorities :
                after = UpdateProjectStatus(before, q, ScheduledBy(n))
    BY <1>1 DEF UpdateProjectStatus
  <1>2. CASE pc = "update" /\ after = UpdateProjectStatus(before, cur, Outcome)
    BY <1>2 DEF UpdateProjectStatus, Outcome, getJobStatus, validateProjectStatusRunning,
                validateProjectStatusCompleted, validateProjectStatusFailed
  <1>3. CASE pc = "mark" /\ after = UpdateProjectStatus(before, cur, Started)
    BY <1>3 DEF UpdateProjectStatus, Started, validateProjectStatusRunning
  <1>4. CASE after = ScheduleIdle(before)
    BY <1>4 DEF ScheduleIdle, UpdateProjectStatusBatched, IsIdle
  <1>5. CASE after = ScheduleAll(before)
    BY <1>5 DEF ScheduleAll, UpdateProjectStatusBatched, IsNotRunning
  <1>6. CASE \E d \in Discoverable : after = ReconcileProjects(before, d)
    BY <1>6 DEF ReconcileProjects, NotListed
  <1> QED
    BY <1>1, <1>2, <1>3, <1>4, <1>5, <1>6 DEF WrittenFrom

\* A priority never outlives the wait for a slot, whatever the informer cache and
\* the API server do (projectStatus.go:26-70).
THEOREM PriorityConsumed == Spec => []PriorityOnlyWhileScheduled
  <1>1. Init => PriorityInvariant
    BY DEF Init, PriorityInvariant, ConsumedIn, EmptyTable, NotListed
  <1>2. TypeOK /\ PriorityInvariant /\ [Next]_vars => PriorityInvariant'
    <2> SUFFICES ASSUME TypeOK, PriorityInvariant, [Next]_vars PROVE PriorityInvariant'
      OBVIOUS
    <2>1. /\ projects \in Table /\ GetRenovateJob \in Table
          /\ ConsumedIn(projects) /\ ConsumedIn(GetRenovateJob) /\ ConsumedIn(EmptyTable)
      BY GetRenovateJobType
         DEF TypeOK, Table, PriorityInvariant, GetRenovateJob, ConsumedIn, EmptyTable, NotListed
    <2>2. ConsumedIn(projects')
      BY <2>1, WritesConsume, StoreSteps DEF StoreStep
    <2>3. ConsumedIn(cached')
      BY <2>1, WritesConsume, StoreSteps DEF StoreStep, PriorityInvariant
    <2>4. ConsumedIn(projects)' /\ ConsumedIn(cached)'
      BY <2>2, <2>3 DEF ConsumedIn
    <2> QED
      BY <2>4 DEF PriorityInvariant
  <1>3. PriorityInvariant => PriorityOnlyWhileScheduled
    BY DEF PriorityInvariant, PriorityOnlyWhileScheduled, ConsumedIn
  <1> QED
    BY <1>1, <1>2, <1>3, TypeCorrect, PTL DEF Spec

-----------------------------------------------------------------------------
(* Executor implements ProjectLifecycle.                                    *)

\* What pass 1 stores is the outcome of a run that ended.
FoundEnded == pc \in {"capture", "update"} => getJobStatus(found) # "running"

\* FoundEnded holds from the lookup to the write, stale reads or not.
LEMMA FoundEndedHolds == Spec => []FoundEnded
  <1>1. Init => FoundEnded
    BY DEF Init, FoundEnded
  <1>2. FoundEnded /\ [Next]_vars => FoundEnded'
    <2> SUFFICES ASSUME FoundEnded, [Next]_vars PROVE FoundEnded'
      OBVIOUS
    <2> USE DEF FoundEnded, tick, progress, LeaveTick, LeaveVisit
    <2>1. CASE ExecutorStep
      BY <2>1 DEF ExecutorStep, BeginTick, LookUpJob, VisitRunning, CaptureMetrics,
                  RecordOutcome, DeleteSuccessful, BeginPass2, SkipProject, StartJob, MarkRunning,
                  EndTick
    <2>2. CASE ExecutorFault
      BY <2>2 DEF ExecutorFault, LookUpJobStale, VisitRunning, LookUpFails, RecordOutcomeFails,
                  MarkRunningFails, WriteFails, DeleteFails, StartJobFails
    <2>3. CASE Writers
      BY <2>3 DEF Writers, runRenovateForProject, webhookRunRenovate, RequestRun,
                  runRenovateForAllProjects, RequestFails, RequestAllFails, uiDiscovery,
                  cronReconcile, StoreDiscovered, reconcileFails, cronSchedule,
                  cronScheduleFails
    <2>4. CASE Environment
      BY <2>4 DEF Environment, CleanUp, CleanUpFails, JobEnds, JobExpires, CacheLags, CacheSync,
                  Crash
    <2>5. CASE UNCHANGED vars
      BY <2>5 DEF vars
    <2> QED
      BY <2>1, <2>2, <2>3, <2>4, <2>5 DEF Next
  <1> QED
    BY <1>1, <1>2, PTL DEF Spec

\* What one step may do to the statuses, in the terms of ProjectLifecycle.
StatusStep ==
    \/ statusOf' = statusOf
    \/ \E S \in SUBSET Projects :
          /\ S \cap RunningProjects = {}
          /\ statusOf' = [p \in Projects |-> IF p \in S THEN "scheduled" ELSE statusOf[p]]
    \/ /\ pc = "mark"
       /\ statusOf[cur] \in {"scheduled", "absent"}
       /\ statusOf' = [statusOf EXCEPT ![cur] = "running"]
    \/ \E p \in Projects, outcome \in {"completed", "failed"} :
          /\ statusOf[p] \in {"running", "absent"}
          /\ statusOf' = [statusOf EXCEPT ![p] = outcome]
    \/ \E D \in SUBSET Projects :
          statusOf' = [p \in Projects |-> IF p \notin D THEN "absent"
                                          ELSE IF statusOf[p] = "absent" THEN "scheduled"
                                          ELSE statusOf[p]]

\* Every step of the operator is such a step.
LEMMA StatusSteps ==
    ASSUME TypeOK, FoundEnded, informer # "altered", [Next]_vars
    PROVE  StatusStep
  <1> USE DEF TypeOK, statusOf, ScheduledBy, GetUpdateStatusForProject
  <1>0. projects \in Table
    BY DEF Table
  <1>1. CASE UNCHANGED projects
    BY <1>1 DEF StatusStep
  <1>2. ASSUME NEW p \in Projects, NEW n \in Priorities,
               projects' = UpdateProjectStatus(projects, p, ScheduledBy(n))
        PROVE  StatusStep
    <2>1. CASE projects[p].status = "running"
      BY <1>2, <2>1 DEF UpdateProjectStatus, validateProjectStatusScheduled, StatusStep
    <2>2. CASE projects[p].status # "running"
      <3>1. projects'[p].status = "scheduled" /\ \A q \in Projects \ {p} : projects'[q] = projects[q]
        BY <1>2, <2>2 DEF UpdateProjectStatus, validateProjectStatusScheduled
      <3>2. {p} \cap RunningProjects = {}
        BY <2>2 DEF RunningProjects, GetProjectsByStatus
      <3>3. statusOf' = [q \in Projects |-> IF q \in {p} THEN "scheduled" ELSE statusOf[q]]
        BY <3>1
      <3> QED
        BY <3>2, <3>3 DEF StatusStep
    <2> QED
      BY <2>1, <2>2
  <1>3. CASE pc = "update" /\ projects' = UpdateProjectStatus(projects, cur, Outcome)
    <2>1. Outcome.status \in {"completed", "failed"}
      BY <1>3 DEF Outcome, FoundEnded, getJobStatus
    <2>2. CASE projects[cur].status \in {"running", "absent"}
      <3>1. statusOf' = [statusOf EXCEPT ![cur] = Outcome.status]
        BY <1>3, <2>1, <2>2
           DEF UpdateProjectStatus, validateProjectStatusCompleted, validateProjectStatusFailed
      <3> QED
        BY <1>3, <2>1, <2>2, <3>1 DEF StatusStep
    <2>3. CASE projects[cur].status \notin {"running", "absent"}
      BY <1>3, <2>1, <2>3
         DEF UpdateProjectStatus, validateProjectStatusCompleted, validateProjectStatusFailed,
             StatusStep
    <2> QED
      BY <2>2, <2>3
  <1>4. CASE pc = "mark" /\ projects' = UpdateProjectStatus(projects, cur, Started)
    <2>1. CASE projects[cur].status \in {"scheduled", "absent"}
      BY <1>4, <2>1 DEF UpdateProjectStatus, Started, validateProjectStatusRunning, StatusStep
    <2>2. CASE projects[cur].status \notin {"scheduled", "absent"}
      BY <1>4, <2>2 DEF UpdateProjectStatus, Started, validateProjectStatusRunning, StatusStep
    <2> QED
      BY <2>1, <2>2
  <1>5. CASE projects' = ScheduleIdle(projects)
    <2> DEFINE S == {p \in Projects : projects[p].status # "absent" /\ IsIdle(projects[p])}
    <2>1. S \cap RunningProjects = {}
      BY DEF IsIdle, RunningProjects, GetProjectsByStatus
    <2>2. statusOf' = [p \in Projects |-> IF p \in S THEN "scheduled" ELSE statusOf[p]]
      BY <1>5 DEF ScheduleIdle, UpdateProjectStatusBatched, validateProjectStatusScheduled, IsIdle
    <2>3. S \in SUBSET Projects
      OBVIOUS
    <2> QED
      BY <2>1, <2>2, <2>3 DEF StatusStep
  <1>6. CASE projects' = ScheduleAll(projects)
    <2> DEFINE S == {p \in Projects : projects[p].status # "absent" /\ IsNotRunning(projects[p])}
    <2>1. S \cap RunningProjects = {}
      BY DEF IsNotRunning, RunningProjects, GetProjectsByStatus
    <2>2. statusOf' = [p \in Projects |-> IF p \in S THEN "scheduled" ELSE statusOf[p]]
      BY <1>6 DEF ScheduleAll, UpdateProjectStatusBatched, validateProjectStatusScheduled, IsNotRunning
    <2>3. S \in SUBSET Projects
      OBVIOUS
    <2> QED
      BY <2>1, <2>2, <2>3 DEF StatusStep
  <1>7. CASE \E d \in Discoverable : projects' = ReconcileProjects(projects, d)
    <2> PICK d \in Discoverable : projects' = ReconcileProjects(projects, d)
      BY <1>7
    <2>1. d \in SUBSET Projects
      BY ConstantsAssumption
    <2>2. statusOf' = [p \in Projects |-> IF p \notin d THEN "absent"
                                          ELSE IF statusOf[p] = "absent" THEN "scheduled"
                                          ELSE statusOf[p]]
      BY DEF ReconcileProjects, NotListed
    <2> QED
      BY <2>1, <2>2 DEF StatusStep
  <1> QED
    BY <1>1, <1>2, <1>3, <1>4, <1>5, <1>6, <1>7, StoreSteps DEF StoreStep, WrittenFrom

\* Initially no project has a status.
LEMMA StatusInit == Init => statusOf = [p \in Projects |-> "absent"]
  BY DEF Init, statusOf, EmptyTable, NotListed

\* A project that starts finds a slot: the counter covers it and all that run.
LEMMA SlotForStart ==
    ASSUME TypeOK, SlotInvariant, pc = "mark"
    PROVE  RunningProjects \cup {cur} \in WithinLimit
  <1>1. RunningProjects \cup {cur} \subseteq counted /\ Cardinality(counted) <= Parallelism
    BY DEF SlotInvariant, Slots
  <1>2. counted \subseteq Projects
    BY DEF TypeOK
  <1> QED
    BY <1>1, <1>2, FewerSlots DEF WithinLimit

\* With an informer cache that follows the API server the control loop implements
\* the lifecycle with the concurrency limit (projectStatus.go:11-70 and
\* executor.go:159-281, interleaved with every other writer).
THEOREM LifecycleImplemented ==
    ASSUME Budget["stale"] = 0, Budget["phantom"] = 0
    PROVE  Spec => ImplementsLifecycle
  <1>1. Init => Lifecycle!LifecycleInit
    BY StatusInit DEF Lifecycle!LifecycleInit
  <1>2. TypeOK /\ SlotInvariant /\ FoundEnded /\ [Next]_vars
            => [Lifecycle!LifecycleNext]_statusOf
    <2> SUFFICES ASSUME TypeOK, SlotInvariant, FoundEnded, [Next]_vars
                 PROVE  [Lifecycle!LifecycleNext]_statusOf
      OBVIOUS
    <2>a. informer # "altered"
      BY DEF SlotInvariant, CacheFollows
    <2>0. Lifecycle!Occupied = RunningProjects
      BY DEF Lifecycle!Occupied, RunningProjects, GetProjectsByStatus, statusOf, TypeOK
    <2>1. ASSUME NEW S \in SUBSET Projects, S \cap RunningProjects = {},
                 statusOf' = [p \in Projects |-> IF p \in S THEN "scheduled" ELSE statusOf[p]]
          PROVE  Lifecycle!LifecycleNext
      BY <2>0, <2>1 DEF Lifecycle!LifecycleNext, Lifecycle!Schedule
    <2>2. ASSUME pc = "mark", statusOf[cur] \in {"scheduled", "absent"},
                 statusOf' = [statusOf EXCEPT ![cur] = "running"]
          PROVE  Lifecycle!LifecycleNext
      <3>1. cur \in Projects
        BY <2>2 DEF TypeOK
      <3>2. Lifecycle!Occupied \cup {cur} \in WithinLimit
        BY <2>0, <2>2, SlotForStart
      <3> QED
        BY <2>2, <3>1, <3>2 DEF Lifecycle!LifecycleNext, Lifecycle!Begin
    <2>3. ASSUME NEW p \in Projects, NEW outcome \in {"completed", "failed"},
                 statusOf[p] \in {"running", "absent"},
                 statusOf' = [statusOf EXCEPT ![p] = outcome]
          PROVE  Lifecycle!LifecycleNext
      BY <2>3 DEF Lifecycle!LifecycleNext, Lifecycle!End
    <2>4. ASSUME NEW D \in SUBSET Projects,
                 statusOf' = [p \in Projects |-> IF p \notin D THEN "absent"
                                                 ELSE IF statusOf[p] = "absent" THEN "scheduled"
                                                 ELSE statusOf[p]]
          PROVE  Lifecycle!LifecycleNext
      BY <2>4 DEF Lifecycle!LifecycleNext, Lifecycle!Discover
    <2> QED
      BY <2>a, <2>1, <2>2, <2>3, <2>4, StatusSteps DEF StatusStep
  <1> QED
    BY <1>1, <1>2, TypeCorrect, SlotInvariantHolds, FoundEndedHolds, PTL
       DEF Spec, ImplementsLifecycle, Lifecycle!LifecycleSpec

\* Without phantoms the cache may lag, but it is never altered.
NoPhantom == budget["phantom"] = 0 /\ informer # "altered"

\* A budget without phantoms never alters the cache.
LEMMA NoPhantomHolds ==
    ASSUME Budget["phantom"] = 0
    PROVE  Spec => []NoPhantom
  <1>1. Init => NoPhantom
    BY DEF Init, NoPhantom
  <1>2. TypeOK /\ NoPhantom /\ [Next]_vars => NoPhantom'
    BY StoreSteps DEF NoPhantom, StoreStep, Spend
  <1> QED
    BY <1>1, <1>2, TypeCorrect, PTL DEF Spec

\* A tick that starts from an outdated table may exceed the limit, yet it never
\* breaks the transition rules: every write is checked against the stored table
\* (retry.RetryOnConflict in renovateJobManager.go:184-286).
THEOREM TransitionRulesImplemented ==
    ASSUME Budget["phantom"] = 0
    PROVE  Spec => ImplementsTransitionRules
  <1>1. Init => LooseLifecycle!LifecycleInit
    BY StatusInit DEF LooseLifecycle!LifecycleInit
  <1>2. TypeOK /\ FoundEnded /\ NoPhantom /\ [Next]_vars
            => [LooseLifecycle!LifecycleNext]_statusOf
    <2> SUFFICES ASSUME TypeOK, FoundEnded, NoPhantom, [Next]_vars
                 PROVE  [LooseLifecycle!LifecycleNext]_statusOf
      OBVIOUS
    <2>0. LooseLifecycle!Occupied = RunningProjects
      BY DEF LooseLifecycle!Occupied, RunningProjects, GetProjectsByStatus, statusOf, TypeOK
    <2>1. ASSUME NEW S \in SUBSET Projects, S \cap RunningProjects = {},
                 statusOf' = [p \in Projects |-> IF p \in S THEN "scheduled" ELSE statusOf[p]]
          PROVE  LooseLifecycle!LifecycleNext
      BY <2>0, <2>1 DEF LooseLifecycle!LifecycleNext, LooseLifecycle!Schedule
    <2>2. ASSUME pc = "mark", statusOf[cur] \in {"scheduled", "absent"},
                 statusOf' = [statusOf EXCEPT ![cur] = "running"]
          PROVE  LooseLifecycle!LifecycleNext
      <3>1. cur \in Projects
        BY <2>2 DEF TypeOK
      <3>2. LooseLifecycle!Occupied \cup {cur} \in SUBSET Projects
        BY <2>0, <3>1 DEF RunningProjects, GetProjectsByStatus, TypeOK
      <3> QED
        BY <2>2, <3>1, <3>2 DEF LooseLifecycle!LifecycleNext, LooseLifecycle!Begin
    <2>3. ASSUME NEW p \in Projects, NEW outcome \in {"completed", "failed"},
                 statusOf[p] \in {"running", "absent"},
                 statusOf' = [statusOf EXCEPT ![p] = outcome]
          PROVE  LooseLifecycle!LifecycleNext
      BY <2>3 DEF LooseLifecycle!LifecycleNext, LooseLifecycle!End
    <2>4. ASSUME NEW D \in SUBSET Projects,
                 statusOf' = [p \in Projects |-> IF p \notin D THEN "absent"
                                                 ELSE IF statusOf[p] = "absent" THEN "scheduled"
                                                 ELSE statusOf[p]]
          PROVE  LooseLifecycle!LifecycleNext
      BY <2>4 DEF LooseLifecycle!LifecycleNext, LooseLifecycle!Discover
    <2> QED
      BY <2>1, <2>2, <2>3, <2>4, StatusSteps DEF StatusStep, NoPhantom
  <1> QED
    BY <1>1, <1>2, TypeCorrect, FoundEndedHolds, NoPhantomHolds, PTL
       DEF Spec, ImplementsTransitionRules, LooseLifecycle!LifecycleSpec
=============================================================================
