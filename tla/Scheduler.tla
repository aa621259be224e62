----------------------------- MODULE Scheduler -----------------------------
(***************************************************************************)
(* The cron schedules of the RenovateJobs: the reconciler                  *)
(* (controllers/renovatejob_controller.go) that registers, replaces and    *)
(* removes them, the scheduler that keeps them (scheduler/scheduler.go),   *)
(* the runs the cron library starts, and the health report both of them    *)
(* write (health/health.go).                                               *)
(*                                                                         *)
(* The controller handles one request at a time.  Every request is put     *)
(* back after a minute, also that of a RenovateJob which no longer exists. *)
(* A run is a goroutine of its own: the library does not wait for the      *)
(* previous run of an entry, nor for the runs of an entry it removes.      *)
(* Everything here is memory of the leader and lost when it ends.          *)
(*                                                                         *)
(* Names are Kubernetes names cut at their dashes: "a-b" is <<"a", "b">>.  *)
(* What a run does besides its report is modelled in Discovery, Executor   *)
(* and WebhookSync.                                                        *)
(***************************************************************************)
EXTENDS Integers, Sequences

CONSTANTS
    RenovateJobs,  \* the identities [name, namespace] of RenovateJobs
    Schedules,     \* the values of spec.schedule
    Parseable,     \* those the cron library accepts
    MaxOverlap,    \* bound: how many runs of each RenovateJob may overlap
    MaxEdits,      \* bound: how often somebody changes a RenovateJob
    MaxRestarts    \* bound: how often the leader ends

NoJob == "no job"

ASSUME SchedulerAssumption ==
    /\ Parseable \subseteq Schedules
    /\ NoJob \notin Schedules
    /\ MaxOverlap \in [RenovateJobs -> Nat]
    /\ MaxEdits \in Nat
    /\ MaxRestarts \in Nat

VARIABLES
    spec,      \* spec.schedule of each RenovateJob as its informer shows it
    requests,  \* the RenovateJobs in the queue of the controller
    reconcile, \* the request being handled
    entries,   \* scheduler.entries
    cron,      \* the entries of the cron library
    nextId,    \* the entry id it gives out next
    started,   \* scheduler.Start was called
    runs,      \* the goroutines it started
    health,    \* SchedulerHealth.Scheduler
    edits, restarts

registry == <<entries, cron, nextId>>
vars == <<spec, requests, reconcile, registry, started, runs, health, edits, restarts>>

\* The key of a RenovateJob in every map.
Fullname(job) == job.name \o job.namespace

Names == {Fullname(job) : job \in RenovateJobs}

NoEntry == [entryId |-> 0, schedule |-> NoJob]
NoReport == [schedule |-> NoJob, isRunning |-> FALSE]
Idle == [at |-> "idle"]

Entry == [entryId : Nat \ {0}, schedule : Parseable]
CronEntry == [entryId : Nat \ {0}, schedule : Parseable, job : RenovateJobs]
Run == [job : RenovateJobs, slot : Nat, schedule : Parseable, at : {"fired", "body"}]
Report == [schedule : Parseable, isRunning : BOOLEAN]

TypeOK ==
    /\ spec \in [RenovateJobs -> Schedules \cup {NoJob}]
    /\ requests \subseteq RenovateJobs
    /\ reconcile \in {Idle} \cup [at : {"gone"}, job : RenovateJobs]
                            \cup [at : {"check", "remove", "add"}, job : RenovateJobs,
                                  schedule : Schedules]
    /\ entries \in [Names -> Entry \cup {NoEntry}]
    /\ cron \subseteq CronEntry
    /\ nextId \in Nat \ {0}
    /\ started \in BOOLEAN
    /\ runs \subseteq Run
    /\ health \in [Names -> Report \cup {NoReport}]
    /\ edits \in 0 .. MaxEdits
    /\ restarts \in 0 .. MaxRestarts

Exists(job) == spec[job] # NoJob

\* What a new leader starts with: its informer lists the RenovateJobs.
FreshProcess(existing) ==
    [entries |-> [n \in Names |-> NoEntry], requests |-> existing,
     health |-> [n \in Names |-> NoReport]]

Init ==
    /\ spec \in [RenovateJobs -> Schedules \cup {NoJob}]
    /\ LET fresh == FreshProcess({job \in RenovateJobs : Exists(job)}) IN
       /\ requests = fresh.requests
       /\ entries = fresh.entries
       /\ health = fresh.health
    /\ reconcile = Idle
    /\ cron = {}
    /\ nextId = 1
    /\ started = FALSE
    /\ runs = {}
    /\ edits = 0
    /\ restarts = 0

-----------------------------------------------------------------------------
(* The users of the cluster and the end of the leader.                      *)

\* A RenovateJob is created, deleted or given another schedule; the watch
\* brings the object and a request.
Edit(job) ==
    /\ edits < MaxEdits
    /\ edits' = edits + 1
    /\ \E schedule \in (Schedules \cup {NoJob}) \ {spec[job]} :
           spec' = [spec EXCEPT ![job] = schedule]
    /\ requests' = requests \cup {job}
    /\ UNCHANGED <<reconcile, registry, started, runs, health, restarts>>

Restart ==
    /\ restarts < MaxRestarts
    /\ restarts' = restarts + 1
    /\ LET fresh == FreshProcess({job \in RenovateJobs : Exists(job)}) IN
       /\ requests' = fresh.requests
       /\ entries' = fresh.entries
       /\ health' = fresh.health
    /\ reconcile' = Idle
    /\ cron' = {}
    /\ nextId' = 1
    /\ started' = FALSE
    /\ runs' = {}
    /\ UNCHANGED <<spec, edits>>

-----------------------------------------------------------------------------
(* scheduler.go                                                             *)

\* The leader starts the library, before or after the first reconciliations.
Start ==
    /\ ~started
    /\ started' = TRUE
    /\ UNCHANGED <<spec, requests, reconcile, registry, runs, health, edits, restarts>>

\* Defect: the error of the library is not looked at.
AddUnchecked(job, schedule) ==
    /\ cron' = cron \cup {[entryId |-> nextId, schedule |-> schedule, job |-> job]}
    /\ nextId' = nextId + 1
    /\ entries' = [entries EXCEPT ![Fullname(job)] =
                      [entryId |-> nextId, schedule |-> schedule]]
    /\ health' = [health EXCEPT ![Fullname(job)] =
                      [schedule |-> schedule, isRunning |-> TRUE]]

\* Registers an entry; the library refuses a schedule it cannot parse, and then
\* nothing is registered.  The report of a new schedule says it is running.
AddSchedule(job, schedule) ==
    IF schedule \in Parseable
    THEN /\ cron' = cron \cup {[entryId |-> nextId, schedule |-> schedule, job |-> job]}
         /\ nextId' = nextId + 1
         /\ entries' = [entries EXCEPT ![Fullname(job)] =
                           [entryId |-> nextId, schedule |-> schedule]]
         /\ health' = [health EXCEPT ![Fullname(job)] =
                           [schedule |-> schedule, isRunning |-> TRUE]]
    ELSE UNCHANGED <<registry, health>>

\* Defect: the entry of the library is not removed.
ForgetSchedule(name) ==
    /\ UNCHANGED <<cron, nextId>>
    /\ entries' = [entries EXCEPT ![name] = NoEntry]
    /\ health' = [health EXCEPT ![name] = NoReport]

\* Removes the entry, if there is one, and the report in any case.
RemoveSchedule(name) ==
    /\ cron' = {e \in cron : e.entryId # entries[name].entryId}
    /\ entries' = [entries EXCEPT ![name] = NoEntry]
    /\ health' = [health EXCEPT ![name] = NoReport]
    /\ UNCHANGED nextId

\* Defect: a schedule that is known is replaced, changed or not.
ReplaceAlways(entry, schedule) == IF entry = NoEntry THEN "add" ELSE "remove"

\* Defect: a schedule that is known is left alone.
ReplaceNever(entry, schedule) == IF entry = NoEntry THEN "add" ELSE "keep"

\* What AddScheduleReplaceExisting does about the entry it found.
ReplaceExisting(entry, schedule) ==
    IF entry = NoEntry THEN "add"
    ELSE IF entry.schedule = schedule THEN "keep" ELSE "remove"

\* The library starts the function of an entry in a goroutine of its own (which
\* takes the first free slot).
Fire(job) ==
    /\ started
    /\ \E e \in cron, slot \in 1 .. MaxOverlap[job] :
       /\ e.job = job
       /\ {r.slot : r \in {x \in runs : x.job = job}} \cap 1 .. slot = 1 .. slot - 1
       /\ runs' = runs \cup {[job |-> job, slot |-> slot, schedule |-> e.schedule,
                              at |-> "fired"]}
    /\ UNCHANGED <<spec, requests, reconcile, registry, started, health, edits, restarts>>

ReportRun(run, isRunning) ==
    health' = [health EXCEPT ![Fullname(run.job)] =
                  [schedule |-> run.schedule, isRunning |-> isRunning]]

\* The two halves of execute: the report of a run is written before and after
\* the function, whatever has become of the schedule in the meantime.
BeginRun(run) ==
    /\ run.at = "fired"
    /\ runs' = (runs \ {run}) \cup {[run EXCEPT !.at = "body"]}
    /\ ReportRun(run, TRUE)
    /\ UNCHANGED <<spec, requests, reconcile, registry, started, edits, restarts>>

\* The function fetches the RenovateJob again and returns early if it is gone;
\* otherwise it works for a while.
EndRun(run) ==
    /\ run.at = "body"
    /\ runs' = runs \ {run}
    /\ ReportRun(run, FALSE)
    /\ UNCHANGED <<spec, requests, reconcile, registry, started, edits, restarts>>

-----------------------------------------------------------------------------
(* Reconcile: the RenovateJob is read once, then the scheduler is called.   *)

\* Defect: the request of a RenovateJob that is gone is not repeated.
RequeueExisting(job) == IF Exists(job) THEN requests ELSE requests \ {job}

\* RequeueAfter is set on every path, so a request never leaves the queue.  (A
\* read that fails with another error than "not found" changes nothing else.)
Requeue(job) == requests

BeginReconcile(job) ==
    /\ reconcile = Idle
    /\ job \in requests
    /\ requests' = Requeue(job)
    /\ reconcile' = IF Exists(job)
                    THEN [at |-> "check", job |-> job, schedule |-> spec[job]]
                    ELSE [at |-> "gone", job |-> job]
    /\ UNCHANGED <<spec, registry, started, runs, health, edits, restarts>>

\* createScheduler: AddScheduleReplaceExisting looks the name up ...
CheckExisting ==
    /\ reconcile.at = "check"
    /\ LET next == ReplaceExisting(entries[Fullname(reconcile.job)], reconcile.schedule) IN
       reconcile' = IF next = "keep" THEN Idle ELSE [reconcile EXCEPT !.at = next]
    /\ UNCHANGED <<spec, requests, registry, started, runs, health, edits, restarts>>

\* ... gives up its lock, removes what it found, and takes the lock again ...
RemoveExisting ==
    /\ reconcile.at = "remove"
    /\ RemoveSchedule(Fullname(reconcile.job))
    /\ reconcile' = [reconcile EXCEPT !.at = "add"]
    /\ UNCHANGED <<spec, requests, started, runs, edits, restarts>>

\* ... to add the new schedule.  An error is logged and nothing else.
AddNew ==
    /\ reconcile.at = "add"
    /\ AddSchedule(reconcile.job, reconcile.schedule)
    /\ reconcile' = Idle
    /\ UNCHANGED <<spec, requests, started, runs, edits, restarts>>

\* The RenovateJob was not found.
RemoveGone ==
    /\ reconcile.at = "gone"
    /\ RemoveSchedule(Fullname(reconcile.job))
    /\ reconcile' = Idle
    /\ UNCHANGED <<spec, requests, started, runs, edits, restarts>>

ReconcileStep == CheckExisting \/ RemoveExisting \/ AddNew \/ RemoveGone

Next ==
    \/ \E job \in RenovateJobs : Edit(job) \/ BeginReconcile(job) \/ Fire(job)
    \/ ReconcileStep
    \/ \E run \in runs : BeginRun(run) \/ EndRun(run)
    \/ Start
    \/ Restart

Spec == Init /\ [][Next]_vars

\* The leader is started and its controller works through its queue, with every
\* request in its turn; an entry fires again and again; a run goes on and ends
\* (Discovery!EveryCallerFinishes).
Fairness ==
    /\ WF_vars(Start)
    /\ WF_vars(ReconcileStep)
    /\ \A job \in RenovateJobs :
          /\ SF_vars(BeginReconcile(job))
          /\ WF_vars(Fire(job))
    /\ \A job \in RenovateJobs : \A slot \in 1 .. MaxOverlap[job] :
          WF_vars(\E run \in runs : /\ run.job = job /\ run.slot = slot
                                    /\ BeginRun(run) \/ EndRun(run))

FairSpec == Spec /\ Fairness

-----------------------------------------------------------------------------
(* Properties.  Two RenovateJobs with the same Fullname share everything;   *)
(* what is promised to a single RenovateJob is promised if it has a name of *)
(* its own.                                                                 *)

HasOwnName(job) == \A other \in RenovateJobs : Fullname(other) = Fullname(job) => other = job

\* The library runs exactly the schedules the scheduler knows: replacing one in
\* three locked sections, with runs and restarts in between, leaves no entry
\* behind that nobody can remove (scheduler.go:73-124).
NoLeakedCronEntry ==
    {e.entryId : e \in cron} = {entries[n].entryId : n \in {m \in Names : entries[m] # NoEntry}}

\* An entry is taken out of the library only if its RenovateJob has another
\* schedule or is gone by then, or was when the reconciler read it: the
\* reconciliation every minute does not start a schedule over
\* (scheduler.go:98-111, renovatejob_controller.go:57, 62).
SettledSchedule(e) ==
    /\ HasOwnName(e.job)
    /\ spec[e.job] = e.schedule
    /\ reconcile.at # "idle" =>
          reconcile.job # e.job \/ (reconcile.at # "gone" /\ reconcile.schedule = e.schedule)

KeepsSettledSchedules ==
    restarts' = restarts => \A e \in cron : SettledSchedule(e) => e \in cron'

SettledSchedulesAreKept == [][KeepsSettledSchedules]_vars

\* Once nobody edits RenovateJobs any more, each has the schedule it asks for,
\* and none if it is gone or its schedule cannot be parsed
\* (renovatejob_controller.go:50-69, 145-152).
ScheduleOf(job) == IF spec[job] \in Parseable THEN {spec[job]} ELSE {}

SchedulesFollowSpec ==
    <>[](\A job \in RenovateJobs :
            HasOwnName(job) => {e.schedule : e \in {c \in cron : c.job = job}} = ScheduleOf(job))

\* The health report comes to agree: no report of a RenovateJob that is gone,
\* although a run that outlives its schedule writes one, and the current
\* schedule for the others (scheduler.go:119-122, 139-165).
HealthFollowsSpec ==
    <>[](\A job \in RenovateJobs : HasOwnName(job) =>
            /\ ~Exists(job) => health[Fullname(job)] = NoReport
            /\ spec[job] \in Parseable => health[Fullname(job)].schedule = spec[job])
=============================================================================
