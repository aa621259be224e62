--------------------------- MODULE ProjectStatus ---------------------------
(***************************************************************************)
(* The status of one project inside a RenovateJob, and the transition      *)
(* rules of internal/utils/projectStatus.go.                               *)
(*                                                                         *)
(* An entry keeps the two fields of api.ProjectStatus that decide what the *)
(* operator does next: the status and the priority.  LastRun, Duration and *)
(* RenovateResultStatus are display data that no decision reads, and are   *)
(* left out.  "absent" stands for a project that is not listed in          *)
(* status.projects; the code has no such value.                            *)
(***************************************************************************)
EXTENDS Integers

JobStatuses == {"scheduled", "running", "completed", "failed"}

Statuses == JobStatuses \cup {"absent"}

\* 0: cron or discovery, 1: webhook, 2: web UI.
Priorities == 0..2

ProjectEntry == [status : Statuses, priority : Priorities]

StatusUpdate == [status : JobStatuses, priority : Priorities]

NotListed == [status |-> "absent", priority |-> 0]

----------------------------------------------------------------------------

HigherOf(old, desired) == IF desired > old THEN desired ELSE old

\* Defect: the guard against running projects is missing.
ScheduleEvenRunning(entry, desired) ==
    [status |-> "scheduled", priority |-> HigherOf(entry.priority, desired.priority)]

\* A running project cannot be scheduled; otherwise the higher priority wins.
validateProjectStatusScheduled(entry, desired) ==
    IF entry.status # "running"
    THEN [status   |-> "scheduled",
          priority |-> HigherOf(entry.priority, desired.priority)]
    ELSE entry

\* Defect: the priority is not reset.
StartKeepsPriority(entry) ==
    IF entry.status = "scheduled"
    THEN [status |-> "running", priority |-> entry.priority]
    ELSE entry

\* Only a scheduled project can become running; its priority is consumed.
validateProjectStatusRunning(entry) ==
    IF entry.status = "scheduled"
    THEN [status |-> "running", priority |-> 0]
    ELSE entry

\* Defect: any project can become completed.
CompleteAnything(entry) == [status |-> "completed", priority |-> 0]

\* Only a running project can become completed.
validateProjectStatusCompleted(entry) ==
    IF entry.status = "running"
    THEN [status |-> "completed", priority |-> 0]
    ELSE entry

\* Only a running project can become failed.
validateProjectStatusFailed(entry) ==
    IF entry.status = "running"
    THEN [status |-> "failed", priority |-> 0]
    ELSE entry

\* The switch on the desired status.
GetUpdateStatusForProject(entry, desired) ==
    IF desired.status = "scheduled"      THEN validateProjectStatusScheduled(entry, desired)
    ELSE IF desired.status = "running"   THEN validateProjectStatusRunning(entry)
    ELSE IF desired.status = "completed" THEN validateProjectStatusCompleted(entry)
    ELSE IF desired.status = "failed"    THEN validateProjectStatusFailed(entry)
    ELSE entry
============================================================================
