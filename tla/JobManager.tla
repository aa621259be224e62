----------------------------- MODULE JobManager -----------------------------
(***************************************************************************)
(* The Kubernetes Jobs of the executor, internal/crdManager/jobManager.go, *)
(* and how internal/renovate/jobHelper.go reads their conditions.          *)
(*                                                                         *)
(* A Job carries the name label of its project and a generation label, the *)
(* Unix second of its creation.  The executor creates at most one Job for  *)
(* a project per tick and pauses ten seconds between ticks, so the         *)
(* generations of one project are strictly increasing: they are modelled   *)
(* by their rank 1, 2, ...  A Job is "active" until Kubernetes sets one of *)
(* the conditions Complete and Failed.                                     *)
(***************************************************************************)
EXTENDS Integers

JobPhases == {"active", "complete", "failed"}

JobRecord(Names) == [project : Names, gen : Nat \ {0}, phase : JobPhases]

\* No Job matches the selector.
NotFound == [project |-> "none", gen |-> 0, phase |-> "failed"]

GetJobsByLabel(jobs, name) == {j \in jobs : j.project = name}

\* Defect: the comparison of the generations is inverted.
OldestJobByLabel(jobs, name) ==
    LET matching == GetJobsByLabel(jobs, name) IN
    IF matching = {}
    THEN {NotFound}
    ELSE {j \in matching : \A k \in matching : k.gen >= j.gen}

\* The possible answers of the lookup: of several matching Jobs one with the
\* highest generation is returned.
GetJobByLabel(jobs, name) ==
    LET matching == GetJobsByLabel(jobs, name) IN
    IF matching = {}
    THEN {NotFound}
    ELSE {j \in matching : \A k \in matching : k.gen <= j.gen}

\* Defect: a Job without a terminal condition has no status.
StatusWithoutDefault(job) ==
    IF job.phase = "complete"    THEN "completed"
    ELSE IF job.phase = "failed" THEN "failed"
    ELSE ""

\* Defect: the condition Failed is not looked at.
StatusIgnoresFailure(job) == IF job.phase = "complete" THEN "completed" ELSE "running"

\* The project status a Job stands for; a missing Job is a failed run.
getJobStatus(job) ==
    IF job.phase = "complete"    THEN "completed"
    ELSE IF job.phase = "failed" THEN "failed"
    ELSE "running"

\* Deleting by name; deleting a Job that is gone is not an error.
DeleteJob(jobs, name, gen) == {j \in jobs : ~(j.project = name /\ j.gen = gen)}

\* Defect: the comparison of the generations is inverted.
SameGeneration(jobs, name, currentGen) ==
    {j \in GetJobsByLabel(jobs, name) : j.gen = currentGen}

\* Defect: finished Jobs are skipped.
OtherActiveGenerations(jobs, name, currentGen) ==
    {j \in GetJobsByLabel(jobs, name) : j.gen # currentGen /\ j.phase = "active"}

\* The Jobs cleanupOldGenerations(currentGen) selects: every other generation.
OtherGenerations(jobs, name, currentGen) ==
    {j \in GetJobsByLabel(jobs, name) : j.gen # currentGen}
=============================================================================
