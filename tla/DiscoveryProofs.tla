--------------------------- MODULE DiscoveryProofs ---------------------------
(***************************************************************************)
(* Theorems about Discovery, for every set of callers and every bound.     *)
(***************************************************************************)
EXTENDS Discovery, TLAPS

-----------------------------------------------------------------------------
(* Types.  That results stay within the clock needs that no Job comes from *)
(* the future.                                                             *)

\* A Job carries a second that has passed (jobManager.go:100-102).
GenerationsArePast == \A j \in djobs : j.gen <= clock

TypeInvariant == TypeOK /\ GenerationsArePast

\* The fields of a discovery Job.
LEMMA JobFields ==
    ASSUME TypeOK, NEW j \in djobs
    PROVE  /\ j \in DiscoveryJob
           /\ j.project = Label
           /\ j.id \in Nat
           /\ j.gen \in Nat \ {0}
           /\ j.phase \in DiscoveryPhases
  BY DEF TypeOK, DiscoveryJob

\* A new Job is one, and carries the present second (jobManager.go:100-102).
LEMMA NewJobFields ==
    ASSUME TypeOK
    PROVE  /\ NewDiscoveryJob \in DiscoveryJob
           /\ NewDiscoveryJob.gen = clock
  <1>1. created \in Nat /\ clock \in Nat \ {0}
    BY DiscoveryAssumption DEF TypeOK
  <1> QED
    BY <1>1 DEF NewDiscoveryJob, DiscoveryJob, DiscoveryPhases

\* A lookup answers with an existing Job that carries the label and has the
\* highest generation, or finds nothing (jobManager.go:42-70).
LEMMA LookupAnswer ==
    ASSUME NEW jobs, NEW name, NEW job \in GetJobByLabel(jobs, name), job # NotFound
    PROVE  /\ job \in jobs
           /\ \A k \in jobs : k.project = name => k.gen <= job.gen
  BY DEF GetJobByLabel, GetJobsByLabel

\* A lookup that could match a Job does not come back with nothing.
LEMMA LookupFinds ==
    ASSUME NEW jobs, NEW name, NEW j \in jobs, j.project = name,
           NEW job \in GetJobByLabel(jobs, name)
    PROVE  job \in jobs /\ j.gen <= job.gen
  BY DEF GetJobByLabel, GetJobsByLabel

\* What a step of a caller does to the callers and to the Jobs.
LEMMA CallerStepType ==
    ASSUME TypeInvariant, NEW c \in Callers, CallerStep(c)
    PROVE  TypeInvariant'
  <1> USE DEF TypeInvariant
  <1>1. CASE CronFires(c)
    BY <1>1 DEF CronFires, Goto, CallerPCs, TypeOK, GenerationsArePast
  <1>2. CASE UiChecks(c)
    BY <1>2 DEF UiChecks, Goto, CallerPCs, TypeOK, GenerationsArePast
  <1>3. CASE CreateDiscoveryJob(c)
    <2>1. /\ djobs' = djobs \cup {NewDiscoveryJob} /\ created' = created + 1
          /\ pending' = pending \cup {[id |-> created, gen |-> clock]}
          /\ own' = [own EXCEPT ![c] = clock]
          /\ pc' = [pc EXCEPT ![c] = "wait"]
          /\ UNCHANGED <<clock, result, stored, faults>>
      BY <1>3 DEF CreateDiscoveryJob, Goto
    <2>2. djobs' \subseteq DiscoveryJob
      BY <2>1, NewJobFields DEF TypeOK
    <2>3. pending' \subseteq [id : Nat, gen : 1..MaxClock]
      <3>1. created \in Nat /\ clock \in 1..MaxClock
        BY DEF TypeOK
      <3> QED
        BY <2>1, <3>1 DEF TypeOK
    <2>4. own' \in [Callers -> 0..MaxClock]
      <3>1. clock \in 0..MaxClock
        BY DiscoveryAssumption DEF TypeOK
      <3> QED
        BY <2>1, <3>1 DEF TypeOK
    <2>5. pc' \in [Callers -> CallerPCs]
      BY <2>1 DEF TypeOK, CallerPCs
    <2>6. created' \in Nat
      BY <2>1 DEF TypeOK
    <2>7. clock' \in 1..MaxClock /\ result' \in [Callers -> 0..MaxClock]
          /\ stored' \in 0..MaxClock /\ faults' \in 0..MaxFaults
      BY <2>1 DEF TypeOK
    <2>8. GenerationsArePast'
      <3>1. clock \in Nat
        BY DiscoveryAssumption DEF TypeOK
      <3> QED
        BY <2>1, <3>1, NewJobFields DEF GenerationsArePast
    <2> QED
      BY <2>2, <2>3, <2>4, <2>5, <2>6, <2>7, <2>8 DEF TypeOK
  <1>4. CASE WaitForDiscoveryJob(c)
    BY <1>4 DEF WaitForDiscoveryJob, Goto, CallerPCs, TypeOK, GenerationsArePast
  <1>5. CASE ReadResult(c)
    <2>1. UNCHANGED <<djobs, created, clock, pending, own, stored, faults>>
      BY <1>5 DEF ReadResult
    <2>2. pc' \in [Callers -> CallerPCs]
      BY <1>5 DEF ReadResult, Goto, TypeOK, CallerPCs
    <2>3. PICK job \in GetJobByLabel(djobs, Label) :
             \/ job # NotFound /\ result' = [result EXCEPT ![c] = job.gen]
             \/ UNCHANGED result
      BY <1>5 DEF ReadResult
    <2>4. CASE job # NotFound /\ result' = [result EXCEPT ![c] = job.gen]
      <3>1. job \in djobs
        BY <2>4, LookupAnswer
      <3>2. job.gen \in 0..MaxClock
        BY <3>1, JobFields, DiscoveryAssumption DEF TypeOK, GenerationsArePast
      <3>3. result' \in [Callers -> 0..MaxClock]
        BY <2>4, <3>2 DEF TypeOK
      <3> QED
        BY <2>1, <2>2, <3>3 DEF TypeOK, GenerationsArePast
    <2>5. CASE UNCHANGED result
      BY <2>1, <2>2, <2>5 DEF TypeOK, GenerationsArePast
    <2> QED
      BY <2>3, <2>4, <2>5
  <1>6. CASE StoreResult(c)
    <2>1. result[c] \in 0..MaxClock
      BY DEF TypeOK
    <2> QED
      BY <1>6, <2>1 DEF StoreResult, Goto, CallerPCs, TypeOK, GenerationsArePast
  <1> QED
    BY <1>1, <1>2, <1>3, <1>4, <1>5, <1>6 DEF CallerStep

\* One more failed call is within the bound.
LEMMA FaultType ==
    ASSUME TypeOK, Fault
    PROVE  faults' \in 0..MaxFaults
  BY DiscoveryAssumption DEF TypeOK, Fault

\* A Job whose phase changes stays a Job with its generation.
LEMMA ProgressFields ==
    ASSUME TypeOK, NEW j \in djobs, NEW change \in PhaseChanges
    PROVE  /\ [j EXCEPT !.phase = change[2]] \in DiscoveryJob
           /\ [j EXCEPT !.phase = change[2]].gen = j.gen
  <1>1. change[2] \in DiscoveryPhases
    BY DEF PhaseChanges, DiscoveryPhases
  <1>2. j \in DiscoveryJob
    BY JobFields
  <1> QED
    BY <1>1, <1>2 DEF DiscoveryJob

\* The inductive invariant of the types.
LEMMA TypesHold == Spec => []TypeInvariant
  <1>1. Init => TypeInvariant
    BY DiscoveryAssumption DEF Init, TypeInvariant, TypeOK, GenerationsArePast, CallerPCs
  <1>2. TypeInvariant /\ [Next]_vars => TypeInvariant'
    <2> SUFFICES ASSUME TypeInvariant, [Next]_vars PROVE TypeInvariant'
      OBVIOUS
    <2> USE DEF TypeInvariant
    <2>1. ASSUME NEW c \in Callers, CallerStep(c) PROVE TypeInvariant'
      BY <2>1, CallerStepType
    <2>2. ASSUME NEW c \in Callers, CreateDiscoveryJobFails(c) PROVE TypeInvariant'
      <3>1. UNCHANGED <<clock, pending, own, result, stored>>
        BY <2>2 DEF CreateDiscoveryJobFails
      <3>2. faults' \in 0..MaxFaults
        BY <2>2, FaultType DEF CreateDiscoveryJobFails
      <3>3. pc' \in [Callers -> CallerPCs]
        BY <2>2 DEF CreateDiscoveryJobFails, Goto, TypeOK, CallerPCs
      <3>4. \/ UNCHANGED <<djobs, created>>
            \/ djobs' = djobs \cup {NewDiscoveryJob} /\ created' = created + 1
        BY <2>2 DEF CreateDiscoveryJobFails
      <3>5. djobs' \subseteq DiscoveryJob /\ created' \in Nat
        BY <3>4, NewJobFields DEF TypeOK
      <3>6. GenerationsArePast'
        <4>1. clock \in Nat
          BY DiscoveryAssumption DEF TypeOK
        <4> QED
          BY <3>1, <3>4, <4>1, NewJobFields DEF GenerationsArePast
      <3> QED
        BY <3>1, <3>2, <3>3, <3>5, <3>6 DEF TypeOK
    <2>3. ASSUME NEW c \in Callers, CallFails(c) PROVE TypeInvariant'
      BY <2>3, FaultType DEF CallFails, Goto, TypeOK, CallerPCs, GenerationsArePast
    <2>4. ASSUME NEW c \in pending, CleanUp(c) PROVE TypeInvariant'
      BY <2>4 DEF CleanUp, TypeOK, GenerationsArePast
    <2>5. ASSUME NEW c \in pending, CleanUpFails(c) PROVE TypeInvariant'
      <3>1. djobs' \subseteq djobs /\ pending' \subseteq pending
            /\ UNCHANGED <<created, clock, pc, own, result, stored>>
        BY <2>5 DEF CleanUpFails
      <3>2. faults' \in 0..MaxFaults
        BY <2>5, FaultType DEF CleanUpFails
      <3> QED
        BY <3>1, <3>2 DEF TypeOK, GenerationsArePast
    <2>6. ASSUME NEW j \in djobs, JobProgress(j) PROVE TypeInvariant'
      <3>1. PICK change \in PhaseChanges :
               djobs' = (djobs \ {j}) \cup {[j EXCEPT !.phase = change[2]]}
        BY <2>6 DEF JobProgress
      <3>2. UNCHANGED <<created, clock, pending, pc, own, result, stored, faults>>
        BY <2>6 DEF JobProgress
      <3>3. /\ [j EXCEPT !.phase = change[2]] \in DiscoveryJob
            /\ [j EXCEPT !.phase = change[2]].gen = j.gen
        BY <2>6, ProgressFields
      <3>4. djobs' \subseteq DiscoveryJob
        BY <3>1, <3>3 DEF TypeOK
      <3>5. GenerationsArePast'
        BY <3>1, <3>2, <3>3 DEF GenerationsArePast
      <3> QED
        BY <3>2, <3>4, <3>5 DEF TypeOK
    <2>7. ASSUME NEW j \in djobs, JobExpires(j) PROVE TypeInvariant'
      BY <2>7 DEF JobExpires, TypeOK, GenerationsArePast
    <2>8. CASE ClockTicks
      <3>1. clock' \in 1..MaxClock /\ clock' = clock + 1 /\ clock \in Nat
        BY <2>8, DiscoveryAssumption DEF ClockTicks, TypeOK
      <3>2. UNCHANGED <<djobs, created, pending, pc, own, result, stored, faults>>
        BY <2>8 DEF ClockTicks
      <3>3. GenerationsArePast'
        BY <3>1, <3>2, JobFields DEF GenerationsArePast
      <3> QED
        BY <3>1, <3>2, <3>3 DEF TypeOK
    <2>9. CASE Crash
      <3>1. pc' \in [Callers -> CallerPCs]
        BY <2>9 DEF Crash, TypeOK, CallerPCs
      <3> QED
        BY <2>9, <3>1, FaultType DEF Crash, TypeOK, GenerationsArePast
    <2>10. CASE UNCHANGED vars
      BY <2>10 DEF vars, TypeOK, GenerationsArePast
    <2> QED
      BY <2>1, <2>2, <2>3, <2>4, <2>5, <2>6, <2>7, <2>8, <2>9, <2>10 DEF Next
  <1> QED
    BY <1>1, <1>2, PTL DEF Spec

\* Every state of a discovery is well typed; in particular what is read and
\* stored is a second that has passed, although callers overlap, Jobs expire and
\* are cleaned up, and calls fail (discoveryAgent.go:58-109).
THEOREM DiscoveryTypeCorrect == Spec => []TypeOK
  <1>1. TypeInvariant => TypeOK
    BY DEF TypeInvariant
  <1> QED
    BY <1>1, TypesHold, PTL

-----------------------------------------------------------------------------
(* The result of a caller.                                                 *)

\* A caller that reads the newest Job, without naming the generation it waited
\* for, never gets an older result than its own Job would have given while that
\* Job exists (discoveryAgent.go:94-108).
THEOREM ResultsAreNotOlder == Spec => ResultNotOlderThanOwn
  <1>1. TypeOK => \A c \in Callers : ReadResult(c) /\ WithGeneration(own[c]) # {}
                     => pc'[c] = "failed" \/ result'[c] >= own[c]
    <2> SUFFICES ASSUME TypeOK, NEW c \in Callers, ReadResult(c), WithGeneration(own[c]) # {}
                 PROVE  pc'[c] = "failed" \/ result'[c] >= own[c]
      OBVIOUS
    <2>1. PICK j \in djobs : j.gen = own[c]
      BY DEF WithGeneration
    <2>2. PICK job \in GetJobByLabel(djobs, Label) :
             \/ pc' = [pc EXCEPT ![c] = "failed"]
             \/ result' = [result EXCEPT ![c] = job.gen]
      BY DEF ReadResult, Goto
    <2>3. job \in djobs /\ j.gen <= job.gen
      BY <2>1, JobFields, LookupFinds
    <2>4. CASE pc' = [pc EXCEPT ![c] = "failed"]
      BY <2>4 DEF TypeOK
    <2>5. CASE result' = [result EXCEPT ![c] = job.gen]
      <3>1. result'[c] = job.gen
        BY <2>5 DEF TypeOK
      <3> QED
        BY <2>1, <2>3, <3>1, JobFields
    <2> QED
      BY <2>2, <2>4, <2>5
  <1> QED
    BY <1>1, DiscoveryTypeCorrect, PTL DEF ResultNotOlderThanOwn

-----------------------------------------------------------------------------
(* Cleanups.                                                               *)

\* CleanupDeletesOnlyOlder for the cleanups that run within the second in which
\* their Job was created (jobManager.go:110-116, 128-133).
PromptCleanupDeletesOnlyOlder ==
    [][\A c \in pending : CleanUp(c) /\ c.gen = clock
                              => \A j \in djobs \ djobs' : j.gen < c.gen]_vars

\* It takes a late cleanup to delete a younger Job: "This is an old generation -
\* safe to delete" is true of a cleanup that runs at once, however many callers
\* overlap (jobManager.go:110-133).
THEOREM PromptCleanupIsSafe == Spec => PromptCleanupDeletesOnlyOlder
  <1>1. TypeInvariant => \A c \in pending : CleanUp(c) /\ c.gen = clock
                                 => \A j \in djobs \ djobs' : j.gen < c.gen
    <2> SUFFICES ASSUME TypeInvariant, NEW c \in pending, CleanUp(c), c.gen = clock,
                        NEW j \in djobs, j \notin djobs'
                 PROVE  j.gen < c.gen
      OBVIOUS
    <2>1. j.gen # c.gen
      BY DEF CleanUp, OtherGenerations, GetJobsByLabel
    <2>2. j.gen \in Nat /\ clock \in Nat /\ j.gen <= clock
      BY JobFields, DiscoveryAssumption DEF TypeInvariant, TypeOK, GenerationsArePast
    <2> QED
      BY <2>1, <2>2
  <1> QED
    BY <1>1, TypesHold, PTL DEF PromptCleanupDeletesOnlyOlder

=============================================================================
