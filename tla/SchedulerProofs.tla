--------------------------- MODULE SchedulerProofs ---------------------------
(***************************************************************************)
(* Theorems about Scheduler, for every set of RenovateJobs and schedules   *)
(* and every number of edits, restarts and overlapping runs.               *)
(***************************************************************************)
EXTENDS Scheduler, TLAPS

-----------------------------------------------------------------------------
(* Type correctness.                                                        *)

\* A RenovateJob is known by one of the names (renovatejob_types.go:181-184).
LEMMA FullnameType ==
    ASSUME NEW job \in RenovateJobs
    PROVE  Fullname(job) \in Names
  BY DEF Names

\* What a new process starts with is well typed (health.go:44-58).
LEMMA FreshProcessType ==
    ASSUME NEW existing \in SUBSET RenovateJobs
    PROVE  /\ FreshProcess(existing).requests \subseteq RenovateJobs
           /\ FreshProcess(existing).entries \in [Names -> Entry \cup {NoEntry}]
           /\ FreshProcess(existing).health \in [Names -> Report \cup {NoReport}]
  BY DEF FreshProcess

\* The maps of the scheduler and the library's list keep their types when a
\* schedule is added (scheduler.go:73-95).
LEMMA AddScheduleType ==
    ASSUME TypeOK, NEW job \in RenovateJobs, NEW schedule \in Schedules,
           AddSchedule(job, schedule)
    PROVE  /\ entries' \in [Names -> Entry \cup {NoEntry}]
           /\ cron' \subseteq CronEntry
           /\ nextId' \in Nat \ {0}
           /\ health' \in [Names -> Report \cup {NoReport}]
  <1>1. CASE schedule \in Parseable
    <2>1. [entryId |-> nextId, schedule |-> schedule, job |-> job] \in CronEntry
      BY <1>1 DEF TypeOK, CronEntry
    <2>2. [entryId |-> nextId, schedule |-> schedule] \in Entry
      BY <1>1 DEF TypeOK, Entry
    <2>3. [schedule |-> schedule, isRunning |-> TRUE] \in Report
      BY <1>1 DEF Report
    <2>4. entries' \in [Names -> Entry \cup {NoEntry}]
      BY <1>1, <2>2 DEF TypeOK, AddSchedule
    <2>5. health' \in [Names -> Report \cup {NoReport}]
      BY <1>1, <2>3 DEF TypeOK, AddSchedule
    <2>6. cron' \subseteq CronEntry /\ nextId' \in Nat \ {0}
      BY <1>1, <2>1 DEF TypeOK, AddSchedule
    <2> QED
      BY <2>4, <2>5, <2>6
  <1>2. CASE schedule \notin Parseable
    BY <1>2 DEF TypeOK, AddSchedule, registry
  <1> QED
    BY <1>1, <1>2

\* They also do when one is removed (scheduler.go:112-124).
LEMMA RemoveScheduleType ==
    ASSUME TypeOK, NEW name \in Names, RemoveSchedule(name)
    PROVE  /\ entries' \in [Names -> Entry \cup {NoEntry}]
           /\ cron' \subseteq CronEntry
           /\ nextId' \in Nat \ {0}
           /\ health' \in [Names -> Report \cup {NoReport}]
  BY DEF TypeOK, RemoveSchedule

\* A report of a run is a report (health.go:99-110).
LEMMA ReportRunType ==
    ASSUME TypeOK, NEW run \in Run, NEW isRunning \in BOOLEAN, ReportRun(run, isRunning)
    PROVE  health' \in [Names -> Report \cup {NoReport}]
  <1>1. [schedule |-> run.schedule, isRunning |-> isRunning] \in Report
    BY DEF Run, Report
  <1>2. run.job \in RenovateJobs
    BY DEF Run
  <1> QED
    BY <1>1, <1>2, FullnameType DEF TypeOK, ReportRun

\* The types of a request that is being handled.
RequestTypes ==
    {Idle} \cup [at : {"gone"}, job : RenovateJobs]
           \cup [at : {"check", "remove", "add"}, job : RenovateJobs, schedule : Schedules]

\* What the place of a request says about its fields.
LEMMA RequestFields ==
    ASSUME NEW r \in RequestTypes
    PROVE  /\ r.at \in {"idle", "gone", "check", "remove", "add"}
           /\ r.at = "idle" => r = Idle
           /\ r.at # "idle" => r.job \in RenovateJobs
           /\ r.at \in {"check", "remove", "add"} =>
                 /\ r.schedule \in Schedules
                 /\ \A place \in {"remove", "add"} :
                       /\ [r EXCEPT !.at = place] \in RequestTypes
                       /\ [r EXCEPT !.at = place].at = place
                       /\ [r EXCEPT !.at = place].job = r.job
                       /\ [r EXCEPT !.at = place].schedule = r.schedule
  BY DEF RequestTypes, Idle

\* Every variable keeps its type.
THEOREM SchedulerTypeCorrect == Spec => []TypeOK
  <1>1. Init => TypeOK
    <2> SUFFICES ASSUME Init PROVE TypeOK
      OBVIOUS
    <2> DEFINE fresh == FreshProcess({job \in RenovateJobs : Exists(job)})
    <2>1. /\ fresh.requests \subseteq RenovateJobs
          /\ fresh.entries \in [Names -> Entry \cup {NoEntry}]
          /\ fresh.health \in [Names -> Report \cup {NoReport}]
      BY FreshProcessType
    <2>2. requests = fresh.requests /\ entries = fresh.entries /\ health = fresh.health
      BY DEF Init
    <2>3. /\ spec \in [RenovateJobs -> Schedules \cup {NoJob}]
          /\ reconcile = Idle /\ cron = {} /\ nextId = 1 /\ started = FALSE /\ runs = {}
          /\ edits = 0 /\ restarts = 0
      BY DEF Init
    <2> HIDE DEF fresh
    <2>4. requests \subseteq RenovateJobs
      BY <2>1, <2>2
    <2>5. entries \in [Names -> Entry \cup {NoEntry}]
      BY <2>1, <2>2
    <2>6. health \in [Names -> Report \cup {NoReport}]
      BY <2>1, <2>2
    <2>7. spec \in [RenovateJobs -> Schedules \cup {NoJob}]
      BY <2>3
    <2>8. reconcile \in RequestTypes
      BY <2>3 DEF RequestTypes
    <2>9. cron \subseteq CronEntry
      BY <2>3
    <2>10. nextId \in Nat \ {0}
      BY <2>3
    <2>11. started \in BOOLEAN
      BY <2>3
    <2>12. runs \subseteq Run
      BY <2>3
    <2>13. edits \in 0 .. MaxEdits
      BY <2>3, SchedulerAssumption
    <2>14. restarts \in 0 .. MaxRestarts
      BY <2>3, SchedulerAssumption
    <2> QED
      BY <2>4, <2>5, <2>6, <2>7, <2>8, <2>9, <2>10, <2>11, <2>12, <2>13, <2>14
         DEF TypeOK, RequestTypes
  <1>2. TypeOK /\ [Next]_vars => TypeOK'
    <2> SUFFICES ASSUME TypeOK, [Next]_vars PROVE TypeOK'
      OBVIOUS
    <2> USE SchedulerAssumption
    <2>0. reconcile \in RequestTypes
      BY DEF TypeOK, RequestTypes
    <2>1. ASSUME NEW job \in RenovateJobs, Edit(job) PROVE TypeOK'
      BY <2>1 DEF TypeOK, Edit, registry
    <2>2. ASSUME NEW job \in RenovateJobs, BeginReconcile(job) PROVE TypeOK'
      <3>1. reconcile' \in RequestTypes
        BY <2>2 DEF BeginReconcile, Exists, TypeOK, RequestTypes
      <3> QED
        BY <2>2, <3>1 DEF TypeOK, BeginReconcile, Requeue, registry, RequestTypes
    <2>3. ASSUME NEW job \in RenovateJobs, Fire(job) PROVE TypeOK'
      <3>1. PICK e \in cron, slot \in 1 .. MaxOverlap[job] :
               runs' = runs \cup {[job |-> job, slot |-> slot, schedule |-> e.schedule,
                                   at |-> "fired"]}
        BY <2>3 DEF Fire
      <3>2. [job |-> job, slot |-> slot, schedule |-> e.schedule, at |-> "fired"] \in Run
        BY DEF TypeOK, CronEntry, Run
      <3> QED
        BY <2>3, <3>1, <3>2 DEF TypeOK, Fire, registry
    <2>4. CASE CheckExisting
      <3>1. reconcile' \in RequestTypes
        <4>1. reconcile.at = "check"
          BY <2>4 DEF CheckExisting
        <4> DEFINE next == ReplaceExisting(entries[Fullname(reconcile.job)], reconcile.schedule)
        <4>2. next \in {"add", "keep", "remove"}
          BY DEF ReplaceExisting
        <4>3. reconcile' = IF next = "keep" THEN Idle ELSE [reconcile EXCEPT !.at = next]
          BY <2>4 DEF CheckExisting
        <4> HIDE DEF next
        <4> QED
          BY <2>0, <4>1, <4>2, <4>3, RequestFields DEF RequestTypes
      <3> QED
        BY <2>4, <3>1 DEF TypeOK, CheckExisting, registry, RequestTypes
    <2>5. CASE RemoveExisting
      <3>1. reconcile.at = "remove" /\ reconcile.job \in RenovateJobs
        BY <2>0, <2>5, RequestFields DEF RemoveExisting
      <3>2. reconcile' \in RequestTypes
        BY <2>0, <2>5, <3>1, RequestFields DEF RemoveExisting
      <3> QED
        BY <2>5, <3>1, <3>2, FullnameType, RemoveScheduleType
           DEF TypeOK, RemoveExisting, RequestTypes
    <2>6. CASE AddNew
      <3>1. reconcile.job \in RenovateJobs /\ reconcile.schedule \in Schedules
        BY <2>0, <2>6, RequestFields DEF AddNew
      <3> QED
        BY <2>6, <3>1, AddScheduleType DEF TypeOK, AddNew
    <2>7. CASE RemoveGone
      <3>1. reconcile.job \in RenovateJobs
        BY <2>0, <2>7, RequestFields DEF RemoveGone
      <3> QED
        BY <2>7, <3>1, FullnameType, RemoveScheduleType DEF TypeOK, RemoveGone
    <2>8. ASSUME NEW run \in runs, BeginRun(run) PROVE TypeOK'
      <3>1. run \in Run /\ [run EXCEPT !.at = "body"] \in Run
        BY DEF TypeOK, Run
      <3> QED
        BY <2>8, <3>1, ReportRunType DEF TypeOK, BeginRun, registry
    <2>9. ASSUME NEW run \in runs, EndRun(run) PROVE TypeOK'
      <3>1. run \in Run
        BY DEF TypeOK
      <3> QED
        BY <2>9, <3>1, ReportRunType DEF TypeOK, EndRun, registry
    <2>10. CASE Start
      BY <2>10 DEF TypeOK, Start, registry
    <2>11. CASE Restart
      <3> DEFINE fresh == FreshProcess({job \in RenovateJobs : Exists(job)})
      <3>1. /\ fresh.requests \subseteq RenovateJobs
            /\ fresh.entries \in [Names -> Entry \cup {NoEntry}]
            /\ fresh.health \in [Names -> Report \cup {NoReport}]
        BY FreshProcessType
      <3>2. /\ requests' = fresh.requests
            /\ entries' = fresh.entries
            /\ health' = fresh.health
        BY <2>11 DEF Restart
      <3>3. /\ reconcile' = Idle /\ cron' = {} /\ nextId' = 1 /\ started' = FALSE /\ runs' = {}
            /\ restarts < MaxRestarts /\ restarts' = restarts + 1
            /\ spec' = spec /\ edits' = edits
        BY <2>11 DEF Restart
      <3> HIDE DEF fresh
      <3>4. requests' \subseteq RenovateJobs
        BY <3>1, <3>2
      <3>5. entries' \in [Names -> Entry \cup {NoEntry}]
        BY <3>1, <3>2
      <3>6. health' \in [Names -> Report \cup {NoReport}]
        BY <3>1, <3>2
      <3>7. spec' \in [RenovateJobs -> Schedules \cup {NoJob}]
        BY <3>3 DEF TypeOK
      <3>8. reconcile' \in RequestTypes
        BY <3>3 DEF RequestTypes
      <3>9. cron' \subseteq CronEntry
        BY <3>3
      <3>10. nextId' \in Nat \ {0}
        BY <3>3
      <3>11. started' \in BOOLEAN
        BY <3>3
      <3>12. runs' \subseteq Run
        BY <3>3
      <3>13. edits' \in 0 .. MaxEdits
        BY <3>3 DEF TypeOK
      <3>14. restarts' \in 0 .. MaxRestarts
        BY <3>3 DEF TypeOK
      <3> QED
        BY <3>4, <3>5, <3>6, <3>7, <3>8, <3>9, <3>10, <3>11, <3>12, <3>13, <3>14
           DEF TypeOK, RequestTypes
    <2>12. CASE UNCHANGED vars
      BY <2>12 DEF TypeOK, vars, registry
    <2> QED
      BY <2>1, <2>2, <2>3, <2>4, <2>5, <2>6, <2>7, <2>8, <2>9, <2>10, <2>11, <2>12
         DEF Next, ReconcileStep
  <1> QED
    BY <1>1, <1>2, PTL DEF Spec

-----------------------------------------------------------------------------
(* The registry.  NoLeakedCronEntry is not inductive: removing a schedule  *)
(* takes out of the library what has the id the map gives for the name, so *)
(* the map must agree with the library name by name, and ids must be       *)
(* unique, which they are because the library gives out increasing ones.   *)

\* The map holds the id and the schedule of every entry of the library.
CronIsKnown ==
    \A e \in cron : entries[Fullname(e.job)] = [entryId |-> e.entryId, schedule |-> e.schedule]

\* Every entry of the map is in the library, under the same name.
KnownIsCron ==
    \A n \in Names : entries[n] # NoEntry => \E e \in cron : Fullname(e.job) = n

IdsAreUnique ==
    /\ \A e \in cron : e.entryId < nextId
    /\ \A e, f \in cron : e.entryId = f.entryId => e = f

\* What AddScheduleReplaceExisting saw before it gave up its lock still holds
\* when it takes the lock again: only the one reconciler changes the map.
ReconcilerIsRight ==
    /\ reconcile.at = "add" => entries[Fullname(reconcile.job)] = NoEntry
    /\ reconcile.at = "remove" =>
          entries[Fullname(reconcile.job)].schedule # reconcile.schedule

RegistryInv == CronIsKnown /\ KnownIsCron /\ IdsAreUnique /\ ReconcilerIsRight

\* The name of a RenovateJob can be looked up, and an entry has a schedule.
LEMMA EntryTypes ==
    ASSUME TypeOK
    PROVE  /\ \A n \in Names : entries[n] \in Entry \cup {NoEntry}
           /\ \A e \in cron : /\ e \in CronEntry
                             /\ e.job \in RenovateJobs
                             /\ e.entryId \in Nat \ {0}
                             /\ Fullname(e.job) \in Names
           /\ NoEntry.entryId = 0
  BY FullnameType DEF TypeOK, CronEntry, NoEntry

\* The fields of the entry in the map that belongs to an entry of the library.
LEMMA KnownFields ==
    ASSUME CronIsKnown, NEW e \in cron
    PROVE  /\ entries[Fullname(e.job)].entryId = e.entryId
           /\ entries[Fullname(e.job)].schedule = e.schedule
  <1>1. entries[Fullname(e.job)] = [entryId |-> e.entryId, schedule |-> e.schedule]
    BY DEF CronIsKnown
  <1> QED
    BY <1>1

\* AddSchedule keeps the registry consistent if the name is not taken
\* (scheduler.go:73-95).
LEMMA AddScheduleRegistry ==
    ASSUME TypeOK, CronIsKnown, KnownIsCron, IdsAreUnique,
           NEW job \in RenovateJobs, NEW schedule \in Schedules,
           entries[Fullname(job)] = NoEntry, AddSchedule(job, schedule)
    PROVE  CronIsKnown' /\ KnownIsCron' /\ IdsAreUnique'
  <1>1. CASE schedule \in Parseable
    <2> DEFINE new == [entryId |-> nextId, schedule |-> schedule, job |-> job]
               name == Fullname(job)
    <2>1. /\ cron' = cron \cup {new}
          /\ nextId' = nextId + 1
          /\ entries' = [entries EXCEPT ![name] = [entryId |-> nextId, schedule |-> schedule]]
      BY <1>1 DEF AddSchedule
    <2>2. new.entryId = nextId /\ new.schedule = schedule /\ new.job = job
      OBVIOUS
    <2>3. name \in Names /\ DOMAIN entries = Names /\ nextId \in Nat
      BY FullnameType DEF TypeOK
    <2>4. \A e \in cron : Fullname(e.job) # name
      <3> SUFFICES ASSUME NEW e \in cron, Fullname(e.job) = name PROVE FALSE
        OBVIOUS
      <3> QED
        BY KnownFields, EntryTypes
    <2> HIDE DEF new, name
    <2>5. CronIsKnown'
      <3> SUFFICES ASSUME NEW e \in cron'
                   PROVE entries'[Fullname(e.job)] =
                            [entryId |-> e.entryId, schedule |-> e.schedule]
        BY DEF CronIsKnown
      <3>1. CASE e \in cron
        BY <2>1, <2>3, <2>4, <3>1, EntryTypes DEF CronIsKnown
      <3>2. CASE e = new
        BY <2>1, <2>2, <2>3, <3>2 DEF name
      <3> QED
        BY <2>1, <3>1, <3>2
    <2>6. KnownIsCron'
      <3> SUFFICES ASSUME NEW n \in Names, entries'[n] # NoEntry
                   PROVE \E e \in cron' : Fullname(e.job) = n
        BY DEF KnownIsCron
      <3>1. CASE n = name
        BY <2>1, <2>2, <3>1 DEF name
      <3>2. CASE n # name
        BY <2>1, <2>3, <3>2 DEF KnownIsCron
      <3> QED
        BY <3>1, <3>2
    <2>7. IdsAreUnique'
      <3>1. \A e \in cron : e.entryId < nextId /\ e.entryId \in Nat
        BY EntryTypes DEF IdsAreUnique
      <3> QED
        BY <2>1, <2>2, <2>3, <3>1 DEF IdsAreUnique
    <2> QED
      BY <2>5, <2>6, <2>7
  <1>2. CASE schedule \notin Parseable
    BY <1>2 DEF AddSchedule, registry, CronIsKnown, KnownIsCron, IdsAreUnique
  <1> QED
    BY <1>1, <1>2

\* RemoveSchedule takes out of the library the entries of its name and no
\* others (scheduler.go:112-124).
LEMMA RemoveScheduleExact ==
    ASSUME TypeOK, CronIsKnown, KnownIsCron, IdsAreUnique,
           NEW name \in Names, RemoveSchedule(name)
    PROVE  cron' = {e \in cron : Fullname(e.job) # name}
  <1>1. cron' = {e \in cron : e.entryId # entries[name].entryId}
    BY DEF RemoveSchedule
  <1>2. ASSUME NEW e \in cron, Fullname(e.job) = name
        PROVE  e.entryId = entries[name].entryId
    BY <1>2, KnownFields
  <1>3. ASSUME NEW e \in cron, e.entryId = entries[name].entryId
        PROVE  Fullname(e.job) = name
    <2>1. entries[name] # NoEntry
      BY <1>3, EntryTypes
    <2>2. PICK f \in cron : Fullname(f.job) = name
      BY <2>1 DEF KnownIsCron
    <2>3. f.entryId = entries[name].entryId
      BY <1>2, <2>2
    <2> QED
      BY <1>3, <2>2, <2>3 DEF IdsAreUnique
  <1> QED
    BY <1>1, <1>2, <1>3

\* RemoveSchedule keeps the registry consistent and frees the name.
LEMMA RemoveScheduleRegistry ==
    ASSUME TypeOK, CronIsKnown, KnownIsCron, IdsAreUnique,
           NEW name \in Names, RemoveSchedule(name)
    PROVE  CronIsKnown' /\ KnownIsCron' /\ IdsAreUnique' /\ entries'[name] = NoEntry
  <1>1. cron' = {e \in cron : Fullname(e.job) # name}
    BY RemoveScheduleExact
  <1>2. /\ entries' = [entries EXCEPT ![name] = NoEntry]
        /\ nextId' = nextId
        /\ DOMAIN entries = Names
    BY DEF RemoveSchedule, TypeOK
  <1>3. CronIsKnown'
    BY <1>1, <1>2, EntryTypes DEF CronIsKnown
  <1>4. KnownIsCron'
    BY <1>1, <1>2 DEF KnownIsCron
  <1>5. IdsAreUnique'
    BY <1>1, <1>2 DEF IdsAreUnique
  <1> QED
    BY <1>2, <1>3, <1>4, <1>5

\* The map of the scheduler and the entries of the library agree at every
\* moment, name by name, also between the three locked sections in which a
\* schedule is replaced.
THEOREM RegistryIsConsistent == Spec => []RegistryInv
  <1>1. Init => RegistryInv
    <2> SUFFICES ASSUME Init PROVE RegistryInv
      OBVIOUS
    <2>1. cron = {} /\ entries = [n \in Names |-> NoEntry] /\ reconcile.at = "idle"
      BY DEF Init, FreshProcess, Idle
    <2> QED
      BY <2>1 DEF RegistryInv, CronIsKnown, KnownIsCron, IdsAreUnique, ReconcilerIsRight
  <1>2. TypeOK /\ RegistryInv /\ [Next]_vars => RegistryInv'
    <2> SUFFICES ASSUME TypeOK, RegistryInv, [Next]_vars PROVE RegistryInv'
      OBVIOUS
    <2> USE DEF RegistryInv
    <2>0. reconcile \in RequestTypes
      BY DEF TypeOK, RequestTypes
    <2>1. ASSUME UNCHANGED <<cron, entries, nextId>>
          PROVE  CronIsKnown' /\ KnownIsCron' /\ IdsAreUnique'
      BY <2>1 DEF CronIsKnown, KnownIsCron, IdsAreUnique
    <2>2. ASSUME UNCHANGED <<entries, reconcile>> PROVE ReconcilerIsRight'
      BY <2>2 DEF ReconcilerIsRight
    <2>3. ASSUME NEW job \in RenovateJobs, BeginReconcile(job) PROVE RegistryInv'
      <3>1. UNCHANGED <<cron, entries, nextId>> /\ reconcile'.at \in {"check", "gone"}
        BY <2>3 DEF BeginReconcile, registry
      <3>2. ReconcilerIsRight'
        BY <3>1 DEF ReconcilerIsRight
      <3> QED
        BY <2>1, <3>1, <3>2
    <2>4. CASE CheckExisting
      <3> DEFINE entry == entries[Fullname(reconcile.job)]
                 next == ReplaceExisting(entry, reconcile.schedule)
      <3>1. /\ UNCHANGED <<cron, entries, nextId>>
            /\ reconcile.at = "check"
            /\ reconcile' = IF next = "keep" THEN Idle ELSE [reconcile EXCEPT !.at = next]
        BY <2>4 DEF CheckExisting, registry
      <3>2. CASE next = "keep"
        <4>1. reconcile'.at = "idle"
          BY <3>1, <3>2 DEF Idle
        <4> QED
          BY <2>1, <3>1, <4>1 DEF ReconcilerIsRight
      <3>3. CASE next = "add"
        <4>1. entry = NoEntry
          BY <3>3 DEF ReplaceExisting
        <4>2. reconcile'.at = "add" /\ reconcile'.job = reconcile.job
          BY <2>0, <3>1, <3>3, RequestFields
        <4> QED
          BY <2>1, <3>1, <4>1, <4>2 DEF ReconcilerIsRight
      <3>4. CASE next = "remove"
        <4>1. entry.schedule # reconcile.schedule
          BY <3>4 DEF ReplaceExisting
        <4>2. /\ reconcile'.at = "remove"
              /\ reconcile'.job = reconcile.job
              /\ reconcile'.schedule = reconcile.schedule
          BY <2>0, <3>1, <3>4, RequestFields
        <4> QED
          BY <2>1, <3>1, <4>1, <4>2 DEF ReconcilerIsRight
      <3>5. next \in {"keep", "add", "remove"}
        BY DEF ReplaceExisting
      <3> QED
        BY <3>2, <3>3, <3>4, <3>5
    <2>5. CASE RemoveExisting
      <3>1. reconcile.at = "remove" /\ Fullname(reconcile.job) \in Names
        BY <2>0, <2>5, RequestFields, FullnameType DEF RemoveExisting
      <3>2. RemoveSchedule(Fullname(reconcile.job))
        BY <2>5 DEF RemoveExisting
      <3>3. reconcile'.at = "add" /\ reconcile'.job = reconcile.job
        BY <2>0, <2>5, <3>1, RequestFields DEF RemoveExisting
      <3>4. CronIsKnown' /\ KnownIsCron' /\ IdsAreUnique'
            /\ entries'[Fullname(reconcile.job)] = NoEntry
        BY <3>1, <3>2, RemoveScheduleRegistry
      <3> QED
        BY <3>3, <3>4 DEF ReconcilerIsRight
    <2>6. CASE AddNew
      <3>1. /\ reconcile.job \in RenovateJobs /\ reconcile.schedule \in Schedules
            /\ entries[Fullname(reconcile.job)] = NoEntry
        BY <2>0, <2>6, RequestFields DEF AddNew, ReconcilerIsRight
      <3>2. AddSchedule(reconcile.job, reconcile.schedule) /\ reconcile'.at = "idle"
        BY <2>6 DEF AddNew, Idle
      <3>3. CronIsKnown' /\ KnownIsCron' /\ IdsAreUnique'
        BY <3>1, <3>2, AddScheduleRegistry
      <3> QED
        BY <3>2, <3>3 DEF ReconcilerIsRight
    <2>7. CASE RemoveGone
      <3>1. Fullname(reconcile.job) \in Names
        BY <2>0, <2>7, RequestFields, FullnameType DEF RemoveGone
      <3>2. RemoveSchedule(Fullname(reconcile.job)) /\ reconcile'.at = "idle"
        BY <2>7 DEF RemoveGone, Idle
      <3>3. CronIsKnown' /\ KnownIsCron' /\ IdsAreUnique'
        BY <3>1, <3>2, RemoveScheduleRegistry
      <3> QED
        BY <3>2, <3>3 DEF ReconcilerIsRight
    <2>8. CASE Restart
      <3>1. cron' = {} /\ entries' = [n \in Names |-> NoEntry] /\ reconcile'.at = "idle"
        BY <2>8 DEF Restart, FreshProcess, Idle
      <3> QED
        BY <3>1 DEF CronIsKnown, KnownIsCron, IdsAreUnique, ReconcilerIsRight
    <2>9. CASE UNCHANGED <<cron, entries, nextId, reconcile>>
      BY <2>1, <2>2, <2>9
    <2>10. ASSUME NEW job \in RenovateJobs, Edit(job) \/ Fire(job)
           PROVE  UNCHANGED <<cron, entries, nextId, reconcile>>
      BY <2>10 DEF Edit, Fire, registry
    <2>11. ASSUME NEW run \in runs, BeginRun(run) \/ EndRun(run)
           PROVE  UNCHANGED <<cron, entries, nextId, reconcile>>
      BY <2>11 DEF BeginRun, EndRun, registry
    <2>12. Start \/ UNCHANGED vars => UNCHANGED <<cron, entries, nextId, reconcile>>
      BY DEF Start, vars, registry
    <2> QED
      BY <2>3, <2>4, <2>5, <2>6, <2>7, <2>8, <2>9, <2>10, <2>11, <2>12 DEF Next, ReconcileStep
  <1> QED
    BY <1>1, <1>2, SchedulerTypeCorrect, PTL DEF Spec

\* The library runs exactly the schedules the scheduler knows: no entry is left
\* behind that nobody can remove (scheduler.go:73-124).
THEOREM NothingLeaks == Spec => []NoLeakedCronEntry
  <1>1. TypeOK /\ RegistryInv => NoLeakedCronEntry
    <2> SUFFICES ASSUME TypeOK, RegistryInv PROVE NoLeakedCronEntry
      OBVIOUS
    <2>1. ASSUME NEW e \in cron
          PROVE  \E n \in Names : entries[n] # NoEntry /\ entries[n].entryId = e.entryId
      <3>1. entries[Fullname(e.job)].entryId = e.entryId
        BY KnownFields DEF RegistryInv
      <3> QED
        BY <3>1, EntryTypes
    <2>2. ASSUME NEW n \in Names, entries[n] # NoEntry
          PROVE  \E e \in cron : e.entryId = entries[n].entryId
      <3>1. PICK e \in cron : Fullname(e.job) = n
        BY <2>2 DEF RegistryInv, KnownIsCron
      <3>2. entries[n].entryId = e.entryId
        BY <3>1, KnownFields DEF RegistryInv
      <3> QED
        BY <3>2
    <2> QED
      BY <2>1, <2>2 DEF NoLeakedCronEntry
  <1> QED
    BY <1>1, SchedulerTypeCorrect, RegistryIsConsistent, PTL

\* The entry of a schedule nobody changed is not taken out of the library, as
\* long as the leader lives (scheduler.go:98-111, renovatejob_controller.go:57, 62).
THEOREM SettledSchedulesStay == Spec => SettledSchedulesAreKept
  <1>1. TypeOK /\ RegistryInv /\ [Next]_vars => [KeepsSettledSchedules]_vars
    <2> SUFFICES ASSUME TypeOK, RegistryInv, Next, restarts' = restarts,
                        NEW e \in cron, SettledSchedule(e)
                 PROVE  e \in cron'
      BY DEF KeepsSettledSchedules
    <2> USE DEF RegistryInv
    <2>0. reconcile \in RequestTypes /\ restarts \in Nat
      BY SchedulerAssumption DEF TypeOK, RequestTypes
    <2>1. ASSUME NEW job \in RenovateJobs, Edit(job) \/ BeginReconcile(job) \/ Fire(job)
          PROVE  e \in cron'
      BY <2>1 DEF Edit, BeginReconcile, Fire, registry
    <2>2. CASE RemoveExisting
      <3>1. /\ reconcile.at = "remove" /\ reconcile.job \in RenovateJobs
            /\ Fullname(reconcile.job) \in Names
        BY <2>0, <2>2, RequestFields, FullnameType DEF RemoveExisting
      <3>2. Fullname(e.job) # Fullname(reconcile.job)
        <4> SUFFICES ASSUME Fullname(e.job) = Fullname(reconcile.job) PROVE FALSE
          OBVIOUS
        <4>1. reconcile.job = e.job
          BY <3>1 DEF SettledSchedule, HasOwnName
        <4>2. reconcile.schedule = e.schedule
          BY <3>1, <4>1 DEF SettledSchedule
        <4>3. entries[Fullname(reconcile.job)].schedule = e.schedule
          BY KnownFields
        <4> QED
          BY <3>1, <4>2, <4>3 DEF ReconcilerIsRight
      <3>3. cron' = {c \in cron : Fullname(c.job) # Fullname(reconcile.job)}
        BY <2>2, <3>1, RemoveScheduleExact DEF RemoveExisting
      <3> QED
        BY <3>2, <3>3
    <2>3. CASE RemoveGone
      <3>1. /\ reconcile.at = "gone" /\ reconcile.job \in RenovateJobs
            /\ Fullname(reconcile.job) \in Names
        BY <2>0, <2>3, RequestFields, FullnameType DEF RemoveGone
      <3>2. Fullname(e.job) # Fullname(reconcile.job)
        BY <3>1 DEF SettledSchedule, HasOwnName
      <3>3. cron' = {c \in cron : Fullname(c.job) # Fullname(reconcile.job)}
        BY <2>3, <3>1, RemoveScheduleExact DEF RemoveGone
      <3> QED
        BY <3>2, <3>3
    <2>4. CASE CheckExisting \/ AddNew \/ Start
      BY <2>4 DEF CheckExisting, AddNew, AddSchedule, Start, registry
    <2>5. ASSUME NEW run \in runs, BeginRun(run) \/ EndRun(run) PROVE e \in cron'
      BY <2>5 DEF BeginRun, EndRun, registry
    <2>6. ~Restart
      BY <2>0 DEF Restart
    <2> QED
      BY <2>1, <2>2, <2>3, <2>4, <2>5, <2>6 DEF Next, ReconcileStep
  <1> QED
    BY <1>1, SchedulerTypeCorrect, RegistryIsConsistent, PTL
       DEF Spec, SettledSchedulesAreKept
=============================================================================
