-------------------------- MODULE ProjectLifecycle --------------------------
(***************************************************************************)
(* What the operator promises about the status of its projects, with no    *)
(* Jobs, ticks, snapshots, caches or failures: the transitions documented  *)
(* by the comments and the table test of internal/utils/projectStatus.go,  *)
(* and the concurrency limit of the README ("Only as many jobs as defined  *)
(* in spec.parallelism are getting executed at the same time").            *)
(*                                                                         *)
(* A request never takes a slot away from a running project, a project is  *)
(* started only when it is scheduled and a slot is free, and it ends only  *)
(* when it runs.  Only a discovery takes a project off the list.  A write  *)
(* that finds its project gone puts it back with the written status: the   *)
(* executor may do so in the middle of a run.                              *)
(***************************************************************************)
CONSTANTS
    Projects,
    Admissible   \* the sets of projects that may run at the same time

VARIABLE status

Occupied == {p \in Projects : status[p] = "running"}

LifecycleInit == status = [p \in Projects |-> "absent"]

\* Requests and the cron callback: any set of projects that do not run.
Schedule(S) ==
    /\ S \cap Occupied = {}
    /\ status' = [p \in Projects |-> IF p \in S THEN "scheduled" ELSE status[p]]

Begin(p) ==
    /\ status[p] \in {"scheduled", "absent"}
    /\ Occupied \cup {p} \in Admissible
    /\ status' = [status EXCEPT ![p] = "running"]

End(p, outcome) ==
    /\ status[p] \in {"running", "absent"}
    /\ status' = [status EXCEPT ![p] = outcome]

Discover(D) ==
    status' = [p \in Projects |-> IF p \notin D THEN "absent"
                                  ELSE IF status[p] = "absent" THEN "scheduled"
                                  ELSE status[p]]

LifecycleNext ==
    \/ \E S \in SUBSET Projects : Schedule(S)
    \/ \E p \in Projects : Begin(p)
    \/ \E p \in Projects : End(p, "completed") \/ End(p, "failed")
    \/ \E D \in SUBSET Projects : Discover(D)

LifecycleSpec == LifecycleInit /\ [][LifecycleNext]_status
=============================================================================
