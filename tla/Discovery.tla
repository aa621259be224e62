----------------------------- MODULE Discovery -----------------------------
(***************************************************************************)
(* Project discovery for one RenovateJob: internal/renovate/               *)
(* discoveryAgent.go and the two places that use it, the cron callback     *)
(* (controllers) and the "discover" button of the web UI.                  *)
(*                                                                         *)
(* A caller creates a discovery Job, polls it by its generation, reads the *)
(* log of the newest discovery Job and stores the result.  Several callers *)
(* overlap: the cron callback does not look for a running discovery, and   *)
(* the UI looks first and creates later.  The result of a Job is modelled  *)
(* by the Job it comes from.                                               *)
(***************************************************************************)
EXTENDS JobManager, FiniteSets

CONSTANTS
    CronCallers,  \* firings of the cron callback
    UiCallers,    \* requests of UI users
    MaxClock,     \* bound on the seconds that pass
    MaxFaults     \* bound on failed calls and crashes

Callers == CronCallers \cup UiCallers

ASSUME DiscoveryAssumption ==
    /\ IsFiniteSet(Callers)
    /\ MaxClock \in Nat \ {0}
    /\ MaxFaults \in Nat

VARIABLES
    djobs,    \* the discovery Jobs in the cluster
    created,  \* how many were ever created: the next one gets this identity
    clock,    \* the Unix second, from which generations are made
    pending,  \* the Jobs whose cleanup goroutine has not run
    pc,       \* where each caller is
    own,      \* the generation each caller waits for
    result,   \* the generation of the Job whose log each caller has read
    stored,   \* the generation of the result that the status table holds
    faults    \* failed calls so far

vars == <<djobs, created, clock, pending, pc, own, result, stored, faults>>

Label == "discovery"

\* A pod failed and another attempt is pending ("retrying"), or the attempt
\* after that succeeded ("recovered"): status.failed > 0 in both.
DiscoveryPhases == {"active", "retrying", "complete", "recovered", "failed"}

DiscoveryJob == [project : {Label}, id : Nat, gen : Nat \ {0}, phase : DiscoveryPhases]

Unfinished(job) == job.phase \in {"active", "retrying"}

HasSuccessfulPod(job) == job.phase \in {"complete", "recovered"}

CallerPCs == {"idle", "create", "wait", "read", "store", "done", "failed"}

TypeOK ==
    /\ djobs \subseteq DiscoveryJob
    /\ created \in Nat
    /\ clock \in 1..MaxClock
    /\ pending \subseteq [id : Nat, gen : 1..MaxClock]
    /\ pc \in [Callers -> CallerPCs]
    /\ own \in [Callers -> 0..MaxClock]
    /\ result \in [Callers -> 0..MaxClock]
    /\ stored \in 0..MaxClock
    /\ faults \in 0..MaxFaults

Init ==
    /\ djobs = {}
    /\ created = 0
    /\ clock = 1
    /\ pending = {}
    /\ pc = [c \in Callers |-> "idle"]
    /\ own = [c \in Callers |-> 0]
    /\ result = [c \in Callers |-> 0]
    /\ stored = 0
    /\ faults = 0

Goto(c, target) == pc' = [pc EXCEPT ![c] = target]

Fault == faults < MaxFaults /\ faults' = faults + 1

----------------------------------------------------------------------------
(* The status of a discovery Job: a failed pod wins over a succeeded one.  *)

\* Defect: only the final outcome of the Job is looked at.
StatusIgnoresRetries(job) ==
    IF job.phase = "failed" THEN "failed"
    ELSE IF job.phase = "complete" THEN "completed"
    ELSE "running"

getDiscoveryJobStatus(job) ==
    IF job.phase \in {"retrying", "recovered", "failed"} THEN "failed"
    ELSE IF job.phase = "complete" THEN "completed"
    ELSE "running"

WithGeneration(gen) == {j \in djobs : j.gen = gen}

----------------------------------------------------------------------------
(* One caller.                                                             *)

\* The cron callback goes straight to Discover.
CronFires(c) ==
    /\ c \in CronCallers
    /\ pc[c] = "idle"
    /\ Goto(c, "create")
    /\ UNCHANGED <<djobs, created, clock, pending, own, result, stored, faults>>

\* runDiscoveryForProject: "already running" ends the request.  A lookup that
\* finds nothing reports an error, and an error does not stop the handler.
UiChecks(c) ==
    /\ c \in UiCallers
    /\ pc[c] = "idle"
    /\ \E job \in GetJobByLabel(djobs, Label) :
          IF getDiscoveryJobStatus(job) = "running" THEN Goto(c, "done") ELSE Goto(c, "create")
    /\ UNCHANGED <<djobs, created, clock, pending, own, result, stored, faults>>

\* Defect: the Job is created before its generation label is set.
UnlabelledJob == [project |-> Label, id |-> created, gen |-> 0, phase |-> "active"]

NewDiscoveryJob == [project |-> Label, id |-> created, gen |-> clock, phase |-> "active"]

CreateDiscoveryJob(c) ==
    /\ pc[c] = "create"
    /\ djobs' = djobs \cup {NewDiscoveryJob}
    /\ created' = created + 1
    /\ pending' = pending \cup {[id |-> created, gen |-> clock]}
    /\ own' = [own EXCEPT ![c] = clock]
    /\ Goto(c, "wait")
    /\ UNCHANGED <<clock, result, stored, faults>>

\* The creation reports an error; the Job may exist all the same.
CreateDiscoveryJobFails(c) ==
    /\ pc[c] = "create"
    /\ Fault
    /\ \/ UNCHANGED <<djobs, created>>
       \/ djobs' = djobs \cup {NewDiscoveryJob} /\ created' = created + 1
    /\ Goto(c, "failed")
    /\ UNCHANGED <<clock, pending, own, result, stored>>

\* WaitForDiscoveryJob polls the Job of the caller's generation until it is not
\* running.  A Job that stays missing through the retries is an error.
WaitForDiscoveryJob(c) ==
    /\ pc[c] = "wait"
    /\ \E job \in GetJobByLabel(WithGeneration(own[c]), Label) :
          /\ getDiscoveryJobStatus(job) # "running"
          /\ Goto(c, IF getDiscoveryJobStatus(job) = "completed" THEN "read" ELSE "failed")
    /\ UNCHANGED <<djobs, created, clock, pending, own, result, stored, faults>>

\* The log is that of the newest discovery Job, whatever generation the caller
\* waited for; without a successful pod there is none to read.
ReadResult(c) ==
    /\ pc[c] = "read"
    /\ \E job \in GetJobByLabel(djobs, Label) :
          IF job # NotFound /\ HasSuccessfulPod(job)
          THEN Goto(c, "store") /\ result' = [result EXCEPT ![c] = job.gen]
          ELSE Goto(c, "failed") /\ UNCHANGED result
    /\ UNCHANGED <<djobs, created, clock, pending, own, stored, faults>>

\* FilterForks and ReconcileProjects.
StoreResult(c) ==
    /\ pc[c] = "store"
    /\ stored' = result[c]
    /\ Goto(c, "done")
    /\ UNCHANGED <<djobs, created, clock, pending, own, result, faults>>

\* Any other error of a lookup, of the log or of the store ends the caller.
CallFails(c) ==
    /\ pc[c] \in {"wait", "read", "store"}
    /\ Fault
    /\ Goto(c, "failed")
    /\ UNCHANGED <<djobs, created, clock, pending, own, result, stored>>

----------------------------------------------------------------------------
(* Background work, Kubernetes, time.                                      *)

CleanUp(c) ==
    /\ c \in pending
    /\ pending' = pending \ {c}
    /\ djobs' = djobs \ OtherGenerations(djobs, Label, c.gen)
    /\ UNCHANGED <<created, clock, pc, own, result, stored, faults>>

\* The listing or some deletions fail; the errors are dropped.
CleanUpFails(c) ==
    /\ c \in pending
    /\ Fault
    /\ pending' = pending \ {c}
    /\ \E kept \in (SUBSET OtherGenerations(djobs, Label, c.gen)) \ {{}} :
          djobs' = djobs \ (OtherGenerations(djobs, Label, c.gen) \ kept)
    /\ UNCHANGED <<created, clock, pc, own, result, stored>>

PhaseChanges == {<<"active", "complete">>, <<"active", "retrying">>, <<"active", "failed">>,
                 <<"retrying", "recovered">>, <<"retrying", "failed">>}

JobProgress(j) ==
    /\ j \in djobs
    /\ \E change \in PhaseChanges :
          /\ change[1] = j.phase
          /\ djobs' = (djobs \ {j}) \cup {[j EXCEPT !.phase = change[2]]}
    /\ UNCHANGED <<created, clock, pending, pc, own, result, stored, faults>>

\* ttlSecondsAfterFinished, if it is set, to one second or more.
JobExpires(j) ==
    /\ j \in djobs
    /\ ~Unfinished(j)
    /\ j.gen < clock
    /\ djobs' = djobs \ {j}
    /\ UNCHANGED <<created, clock, pending, pc, own, result, stored, faults>>

ClockTicks ==
    /\ clock < MaxClock
    /\ clock' = clock + 1
    /\ UNCHANGED <<djobs, created, pending, pc, own, result, stored, faults>>

\* The process dies (or a nil Job is dereferenced after a failed retry).
Crash ==
    /\ Fault
    /\ pending' = {}
    /\ pc' = [c \in Callers |-> IF pc[c] \in {"idle", "done"} THEN pc[c] ELSE "failed"]
    /\ UNCHANGED <<djobs, created, clock, own, result, stored>>

----------------------------------------------------------------------------

CallerStep(c) ==
    \/ CronFires(c)
    \/ UiChecks(c)
    \/ CreateDiscoveryJob(c)
    \/ WaitForDiscoveryJob(c)
    \/ ReadResult(c)
    \/ StoreResult(c)

Next ==
    \/ \E c \in Callers : CallerStep(c)
    \/ \E c \in Callers : CreateDiscoveryJobFails(c)
    \/ \E c \in Callers : CallFails(c)
    \/ \E c \in pending : CleanUp(c)
    \/ \E c \in pending : CleanUpFails(c)
    \/ \E j \in djobs : JobProgress(j)
    \/ \E j \in djobs : JobExpires(j)
    \/ ClockTicks
    \/ Crash

Spec == Init /\ [][Next]_vars

\* A request that was begun goes on, cleanups run, and activeDeadlineSeconds
\* ends every Job.  Nobody has to begin a request.
Fairness ==
    /\ \A c \in Callers : WF_vars(/\ pc[c] # "idle"
                                  /\ CallerStep(c))
    /\ WF_vars(\E c \in pending : CleanUp(c))
    /\ WF_vars(\E j \in djobs : JobProgress(j))

FairSpec == Spec /\ Fairness

----------------------------------------------------------------------------
(* Properties.                                                             *)

\* While the Job it waited for exists, a caller never takes the result of an
\* older one, although it reads the newest Job without naming a generation
\* (discoveryAgent.go:94-108).
ResultNotOlderThanOwn ==
    [][\A c \in Callers : ReadResult(c) /\ WithGeneration(own[c]) # {}
                              => pc'[c] = "failed" \/ result'[c] >= own[c]]_vars

\* "This is an old generation - safe to delete" (jobManager.go:132): a cleanup
\* deletes no Job younger than the one it was started for.
CleanupDeletesOnlyOlder ==
    [][\A c \in pending : CleanUp(c) => \A j \in djobs \ djobs' : j.gen < c.gen]_vars

\* No caller polls for ever: its Job ends or disappears, and either is noticed
\* (discoveryAgent.go:75-91).
EveryCallerFinishes ==
    \A c \in Callers : pc[c] # "idle" ~> pc[c] \in {"done", "failed"}

\* A discovery that succeeds, is neither superseded nor expired and meets no
\* failure reaches the status table (discoveryAgent.go:75-109 through
\* ReconcileProjects).
LastGeneration(c) == \A j \in djobs : j.gen <= own[c]

SuccessIsStored ==
    \A c \in Callers :
        (/\ pc[c] = "wait"
         /\ WithGeneration(own[c]) # {}
         /\ \A j \in WithGeneration(own[c]) : j.phase = "complete")
        ~> \/ stored >= own[c]
           \/ ~LastGeneration(c)
           \/ WithGeneration(own[c]) = {}
           \/ faults > 0
           \/ \E j \in WithGeneration(own[c]) : j.phase # "complete"

============================================================================
