------------------------- MODULE RenovateJobManager -------------------------
(***************************************************************************)
(* The writes of internal/crdManager/renovateJobManager.go to              *)
(* RenovateJob.status.projects, as operators on the whole project table.   *)
(*                                                                         *)
(* Each of them is one optimistic read-modify-write inside                 *)
(* retry.RetryOnConflict: it loads the RenovateJob from the informer       *)
(* cache, and the API server rejects an update computed from an old        *)
(* resourceVersion, upon which the closure runs again.                     *)
(*                                                                         *)
(* DeepCopyObject copies the struct but not the list of projects: what a   *)
(* load returns shares its list with the cache.  An entry that is changed  *)
(* is therefore changed in the cache too, accepted or not; a list that is  *)
(* replaced or appended to is not.                                         *)
(*                                                                         *)
(* The table is a function from project names to entries; the order of     *)
(* the list only breaks ties and is left open where the code iterates.     *)
(***************************************************************************)
EXTENDS ProjectStatus

\* An unknown project is appended with exactly the desired status, whatever
\* that status is; a known one goes through the transition rules.
UpdateProjectStatus(table, project, desired) ==
    [table EXCEPT ![project] =
        IF table[project].status = "absent"
        THEN [status |-> desired.status, priority |-> desired.priority]
        ELSE GetUpdateStatusForProject(table[project], desired)]

\* What UpdateProjectStatus does to the list it was given: an appended entry
\* goes to a new list.
UpdateInPlace(table, project, desired) ==
    IF table[project].status = "absent"
    THEN table
    ELSE UpdateProjectStatus(table, project, desired)

\* The transition rules applied to every listed project that the callback fn
\* selects.
UpdateProjectStatusBatched(table, selected, desired) ==
    [p \in DOMAIN table |->
        IF table[p].status # "absent" /\ p \in selected
        THEN GetUpdateStatusForProject(table[p], desired)
        ELSE table[p]]

\* The discovered list replaces the table: listed projects keep their entry,
\* new ones are scheduled with no priority, all others are dropped.
ReconcileProjects(table, discovered) ==
    [p \in DOMAIN table |->
        IF p \notin discovered
        THEN NotListed
        ELSE IF table[p].status = "absent"
             THEN [status |-> "scheduled", priority |-> 0]
             ELSE table[p]]

\* The names of the projects with the given status.
GetProjectsByStatus(table, status) == {p \in DOMAIN table : table[p].status = status}
=============================================================================
