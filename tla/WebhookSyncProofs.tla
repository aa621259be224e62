-------------------------- MODULE WebhookSyncProofs --------------------------
(***************************************************************************)
(* Theorems about WebhookSync, for every number of repositories and of     *)
(* overlapping callbacks, every set of configurations, every page limit    *)
(* and every number of outside events.                                     *)
(***************************************************************************)
EXTENDS WebhookSync, FiniteSetTheorems, TLAPS

-----------------------------------------------------------------------------
(* Type correctness, one part of the state at a time.                       *)

ForgejoOK ==
    /\ topics \in [Places -> SUBSET Repos] /\ admins \in [Endpoints -> SUBSET Repos]
    /\ hooks \subseteq Hook /\ lastHook \in [Endpoints -> Nat]

SpecOK == config \in Configs /\ enabled \in BOOLEAN

AnnotationOK ==
    stored \in ManagedRepos \cup {NoAnnotation} /\ cached \in ManagedRepos \cup {NoAnnotation}

SyncersOK ==
    /\ settings \in [Slots -> Configs \cup {NoConfig}]
    /\ managed \in [Slots -> ManagedRepos]
    /\ current \in Slots

FoundOK ==
    /\ page \in [Cycles -> Nat \ {0}]
    /\ topicRepos \in [Cycles -> SUBSET Repos] /\ adminRepos \in [Cycles -> SUBSET Repos]

CycleOK ==
    /\ using \in [Cycles -> Slots] /\ pc \in [Cycles -> PCs]
    /\ FoundOK
    /\ todo \in [Cycles -> SUBSET Repos] /\ cur \in [Cycles -> Repos \cup {0}]
    /\ copy \in [Cycles -> ManagedRepos]

OutsideOK ==
    changes \in 0 .. MaxTopics /\ events \in 0 .. MaxEvents /\ happened \subseteq Events

\* Together they are TypeOK, before and after a step.
LEMMA TypeParts ==
    /\ TypeOK <=> /\ ForgejoOK /\ SpecOK /\ AnnotationOK
                  /\ SyncersOK /\ CycleOK /\ OutsideOK
    /\ TypeOK' <=> /\ ForgejoOK' /\ SpecOK' /\ AnnotationOK'
                   /\ SyncersOK' /\ CycleOK' /\ OutsideOK'
  BY DEF TypeOK, ForgejoOK, SpecOK, AnnotationOK, SyncersOK, FoundOK, CycleOK, OutsideOK

\* What an action leaves alone keeps its type.
LEMMA SameParts ==
    ASSUME TypeOK
    PROVE  /\ UNCHANGED forgejo => ForgejoOK'
           /\ UNCHANGED spec => SpecOK'
           /\ UNCHANGED annotation => AnnotationOK'
           /\ UNCHANGED syncers => SyncersOK'
           /\ UNCHANGED found => FoundOK'
           /\ UNCHANGED cycle => CycleOK'
           /\ UNCHANGED outside => OutsideOK'
  BY TypeParts DEF ForgejoOK, SpecOK, AnnotationOK, SyncersOK, FoundOK, CycleOK, OutsideOK,
         forgejo, spec, annotation, syncers, found, cycle, outside

\* An outside event is counted and named.
LEMMA EventType ==
    ASSUME TypeOK, NEW kind \in Events, Event(kind)
    PROVE  OutsideOK'
  BY WebhookSyncAssumption DEF TypeOK, Event, OutsideOK

\* What is managed at first, and what a configuration consists of
\* (sync.go:14-38, renovatejob_controller.go:242-258).
LEMMA Basics ==
    /\ NothingManaged \in ManagedRepos /\ NoHook \in Nat /\ 0 \in Slots
    /\ \A s \in Configs : s.endpoint \in Endpoints /\ s.url \in URLs /\ Place(s) \in Places
    /\ MaxCycles \in Nat /\ MaxCycles >= 1
  BY WebhookSyncAssumption
     DEF NothingManaged, ManagedRepos, NoHook, Slots, Endpoints, URLs, Places

\* A cycle works with a syncer that exists, and creates a hook on a repository.
\* That hooks have the URL of a webhook rests on this.
CyclesInv ==
    \A c \in Cycles : /\ pc[c] # "idle" => settings[using[c]] \in Configs
                      /\ pc[c] = "create" => cur[c] \in Repos

\* Without an overlap there is one cycle at a time.
OverlapInv ==
    "overlap" \notin happened =>
        \A c, d \in Cycles : pc[c] # "idle" /\ pc[d] # "idle" => c = d

\* No step forgets what happened.
LEMMA HappenedGrows ==
    /\ UNCHANGED outside => happened \subseteq happened'
    /\ \A kind : Event(kind) => happened \subseteq happened' /\ kind \in happened'
  BY DEF outside, Event

\* A step that starts no cycle and changes no syncer a cycle uses.
LEMMA SameCycles ==
    ASSUME CyclesInv, OverlapInv, happened \subseteq happened',
           \A c \in Cycles : pc'[c] # "idle" => /\ pc[c] # "idle"
                                                /\ settings'[using'[c]] = settings[using[c]],
           \A c \in Cycles : pc'[c] = "create" => cur'[c] \in Repos
    PROVE  CyclesInv' /\ OverlapInv'
  BY DEF CyclesInv, OverlapInv

\* Such a step, with all that a cycle is in place.
LEMMA UntouchedCycles ==
    ASSUME CyclesInv, OverlapInv, happened \subseteq happened', UNCHANGED <<settings, cycle>>
    PROVE  CyclesInv' /\ OverlapInv'
  <1>1. UNCHANGED <<settings, using, pc, cur>>
    BY DEF cycle
  <1> QED
    BY <1>1, SameCycles DEF CyclesInv

\* The configuration of a running cycle and the endpoint it talks to.
LEMMA SettingsType ==
    ASSUME TypeOK, CyclesInv, NEW c \in Cycles, pc[c] # "idle"
    PROVE  /\ Settings(c) \in Configs /\ Settings(c).endpoint \in Endpoints
           /\ Settings(c).url \in URLs /\ Place(Settings(c)) \in Places
           /\ using[c] \in Slots
  <1>1. Settings(c) \in Configs
    BY DEF CyclesInv, Settings
  <1> QED
    BY <1>1, Basics DEF TypeOK

\* An update of one managed repository goes to the syncer of the cycle.
LEMMA ManageType ==
    ASSUME TypeOK, NEW c \in Cycles, NEW repo \in Repos, NEW id \in Nat, Manage(c, repo, id)
    PROVE  SyncersOK' /\ UNCHANGED <<settings, current>>
  <1>1. managed \in [Slots -> [Repos -> Nat]] /\ using[c] \in Slots
    BY DEF TypeOK, ManagedRepos
  <1>2. managed' = [managed EXCEPT ![using[c]][repo] = id] /\ UNCHANGED <<settings, current>>
    BY DEF Manage
  <1>3. managed' \in [Slots -> [Repos -> Nat]]
    BY <1>1, <1>2
  <1> QED
    BY <1>2, <1>3 DEF SyncersOK, ManagedRepos, TypeOK

\* A missing annotation is an empty one (renovatejob_controller.go:260-273).
LEMMA LoadType ==
    ASSUME NEW annot \in ManagedRepos \cup {NoAnnotation}
    PROVE  loadWebhookSyncState(annot) \in ManagedRepos
  BY Basics DEF loadWebhookSyncState

\* The end of a cycle clears what it knew, and keeps the syncers of the others.
LEMMA EndCycleType ==
    ASSUME TypeOK, CyclesInv, OverlapInv, NEW c \in Cycles,
           NEW repos \in [Slots -> ManagedRepos], EndCycle(c, repos), happened \subseteq happened'
    PROVE  CycleOK' /\ SyncersOK' /\ CyclesInv' /\ OverlapInv'
  <1>1. using' \in [Cycles -> Slots] /\ pc' \in [Cycles -> PCs]
    BY Basics DEF EndCycle, TypeOK, PCs
  <1>2. FoundOK'
    BY DEF EndCycle, TypeOK, FoundOK
  <1>3. todo' \in [Cycles -> SUBSET Repos] /\ cur' \in [Cycles -> Repos \cup {0}]
    BY DEF EndCycle, TypeOK
  <1>4. copy' \in [Cycles -> ManagedRepos]
    BY Basics DEF EndCycle, TypeOK
  <1>5. CycleOK'
    BY <1>1, <1>2, <1>3, <1>4 DEF CycleOK
  <1>6. SyncersOK'
    BY Basics DEF EndCycle, TypeOK, SyncersOK
  <1>7. ASSUME NEW d \in Cycles, pc'[d] # "idle"
        PROVE  /\ pc[d] # "idle" /\ settings'[using'[d]] = settings[using[d]]
               /\ pc'[d] = pc[d] /\ cur'[d] = cur[d]
    <2>1. d # c /\ pc'[d] = pc[d] /\ using'[d] = using[d] /\ cur'[d] = cur[d]
      BY <1>7 DEF EndCycle, TypeOK
    <2>2. using[d] \in {using[f] : f \in Running \ {c}} /\ using[d] \in Slots
      BY <1>7, <2>1 DEF Running, TypeOK
    <2> QED
      BY <1>7, <2>1, <2>2 DEF EndCycle
  <1>8. CyclesInv' /\ OverlapInv'
    BY <1>7, SameCycles DEF CyclesInv
  <1> QED
    BY <1>5, <1>6, <1>8

\* A new hook has a new id (client.go:155-172).
LEMMA PutHookType ==
    ASSUME TypeOK, CyclesInv, NEW c \in Cycles, pc[c] = "create", PutHook(c)
    PROVE  ForgejoOK'
  <1> DEFINE e == Settings(c).endpoint
  <1>1. e \in Endpoints /\ Settings(c).url \in URLs /\ cur[c] \in Repos
    BY SettingsType DEF CyclesInv
  <1>2. lastHook[e] \in Nat
    BY <1>1 DEF TypeOK
  <1>3. [at |-> e, repo |-> cur[c], id |-> NewId(c), url |-> Settings(c).url] \in Hook
    BY <1>1, <1>2 DEF Hook, NewId
  <1>4. hooks' \subseteq Hook
    BY <1>3 DEF PutHook, TypeOK
  <1>5. lastHook' \in [Endpoints -> Nat]
    <2>1. NewId(c) \in Nat
      BY <1>2 DEF NewId
    <2>2. lastHook' = [lastHook EXCEPT ![e] = NewId(c)]
      BY DEF PutHook
    <2> QED
      BY <2>1, <2>2 DEF TypeOK
  <1> QED
    BY <1>4, <1>5 DEF TypeOK, ForgejoOK, PutHook

\* A deleted hook leaves the others in place (client.go:174-186).
LEMMA TakeHookType ==
    ASSUME TypeOK, NEW c, NEW repo, TakeHook(c, repo)
    PROVE  ForgejoOK'
  BY DEF TypeOK, ForgejoOK, TakeHook

\* One repository is done (sync.go:83-95, 106-137).
LEMMA DoneType ==
    ASSUME TypeOK, NEW c \in Cycles, NEW repo, Done(c, repo)
    PROVE  todo' \in [Cycles -> SUBSET Repos]
  BY DEF TypeOK, Done

-----------------------------------------------------------------------------
(* The actions.                                                             *)

TypesNext == TypeOK' /\ CyclesInv' /\ OverlapInv'

\* The watch delivers.
LEMMA WatchTypes ==
    ASSUME TypeOK, CyclesInv, OverlapInv, Watch PROVE TypesNext
  <1>1. UNCHANGED <<forgejo, spec, stored, syncers, cycle, outside>> /\ cached' = stored
    BY DEF Watch
  <1>2. AnnotationOK'
    BY <1>1 DEF TypeOK, AnnotationOK
  <1>3. CyclesInv' /\ OverlapInv'
    BY <1>1, UntouchedCycles, HappenedGrows DEF syncers
  <1> QED
    BY <1>1, <1>2, <1>3, SameParts, TypeParts DEF TypesNext

\* Somebody edits the RenovateJob.
LEMMA EditTypes ==
    ASSUME TypeOK, CyclesInv, OverlapInv, EditConfig PROVE TypesNext
  <1>1. UNCHANGED <<forgejo, annotation, syncers, cycle>> /\ SpecOK'
    BY DEF EditConfig, SpecOK
  <1>2. OutsideOK' /\ happened \subseteq happened'
    BY EventType, HappenedGrows DEF EditConfig, Events
  <1>3. CyclesInv' /\ OverlapInv'
    BY <1>1, <1>2, UntouchedCycles DEF syncers
  <1> QED
    BY <1>1, <1>2, <1>3, SameParts, TypeParts DEF TypesNext

\* Somebody changes topics or permissions.
LEMMA ForgejoTypes ==
    ASSUME TypeOK, CyclesInv, OverlapInv, NEW r \in Repos,
           \/ \E p \in Places : ChangeTopic(p, r)
           \/ \E e \in Endpoints : ChangePermission(e, r)
    PROVE  TypesNext
  <1>1. ASSUME NEW set \in SUBSET Repos PROVE Toggle(set, r) \in SUBSET Repos
    BY DEF Toggle
  <1>2. ASSUME NEW p \in Places, ChangeTopic(p, r) PROVE TypesNext
    <2>1. UNCHANGED <<admins, hooks, lastHook, spec, annotation, syncers, cycle, events, happened>>
      BY <1>2 DEF ChangeTopic
    <2>2. topics' \in [Places -> SUBSET Repos]
      <3>1. topics[p] \in SUBSET Repos
        BY DEF TypeOK
      <3>2. topics' = [topics EXCEPT ![p] = Toggle(topics[p], r)]
        BY <1>2 DEF ChangeTopic
      <3> QED
        BY <1>1, <3>1, <3>2 DEF TypeOK
    <2>3. ForgejoOK'
      BY <2>1, <2>2 DEF TypeOK, ForgejoOK
    <2>4. OutsideOK'
      BY <1>2, <2>1, WebhookSyncAssumption DEF ChangeTopic, TypeOK, OutsideOK
    <2>5. CyclesInv' /\ OverlapInv'
      BY <2>1, UntouchedCycles DEF syncers
    <2> QED
      BY <2>1, <2>3, <2>4, <2>5, SameParts, TypeParts DEF TypesNext
  <1>3. ASSUME NEW e \in Endpoints, ChangePermission(e, r) PROVE TypesNext
    <2>1. UNCHANGED <<topics, hooks, lastHook, spec, annotation, syncers, cycle>>
      BY <1>3 DEF ChangePermission
    <2>2. admins' \in [Endpoints -> SUBSET Repos]
      <3>1. admins[e] \in SUBSET Repos
        BY DEF TypeOK
      <3>2. admins' = [admins EXCEPT ![e] = Toggle(admins[e], r)]
        BY <1>3 DEF ChangePermission
      <3> QED
        BY <1>1, <3>1, <3>2 DEF TypeOK
    <2>3. ForgejoOK'
      BY <2>1, <2>2 DEF TypeOK, ForgejoOK
    <2>4. OutsideOK' /\ happened \subseteq happened'
      BY <1>3, EventType, HappenedGrows DEF ChangePermission, Events
    <2>5. CyclesInv' /\ OverlapInv'
      BY <2>1, <2>4, UntouchedCycles DEF syncers
    <2> QED
      BY <2>1, <2>3, <2>4, <2>5, SameParts, TypeParts DEF TypesNext
  <1> QED
    BY <1>2, <1>3

\* The operator ends.
LEMMA RestartTypes ==
    ASSUME TypeOK, CyclesInv, OverlapInv, Restart PROVE TypesNext
  <1>1. OutsideOK' /\ happened \subseteq happened'
    BY EventType, HappenedGrows DEF Restart, Events
  <1>2. SyncersOK'
    BY Basics DEF Restart, SyncersOK
  <1>3. using' \in [Cycles -> Slots] /\ pc' \in [Cycles -> PCs] /\ copy' \in [Cycles -> ManagedRepos]
    BY Basics DEF Restart, PCs
  <1>4. /\ FoundOK'
        /\ todo' \in [Cycles -> SUBSET Repos] /\ cur' \in [Cycles -> Repos \cup {0}]
    BY DEF Restart, FoundOK
  <1>5. CycleOK'
    BY <1>3, <1>4 DEF CycleOK
  <1>6. AnnotationOK' /\ UNCHANGED <<forgejo, spec>>
    BY DEF Restart, AnnotationOK, TypeOK
  <1>7. \A c \in Cycles : pc'[c] = "idle"
    BY DEF Restart
  <1>8. CyclesInv' /\ OverlapInv'
    BY <1>1, <1>7, SameCycles
  <1> QED
    BY <1>1, <1>2, <1>5, <1>6, <1>8, SameParts, TypeParts DEF TypesNext

\* A place for the new syncer that no running cycle uses
\* (renovatejob_controller.go:156-240).
LEMMA PutSyncerTypes ==
    ASSUME TypeOK, CyclesInv, OverlapInv, NEW made \in Configs \cup {NoConfig},
           NEW repos \in ManagedRepos, PutSyncer(made, repos),
           UNCHANGED <<forgejo, spec, annotation, cycle, outside>>
    PROVE  TypesNext
  <1>1. PICK k \in Slots :
              /\ k \notin InUse
              /\ current' = k
              /\ settings' = [settings EXCEPT ![k] = made]
              /\ managed' = [managed EXCEPT ![k] = repos]
    BY DEF PutSyncer, TypeOK
  <1>2. SyncersOK'
    BY <1>1 DEF SyncersOK, TypeOK
  <1>3. UNCHANGED <<using, pc, cur>>
    BY DEF cycle
  <1>4. ASSUME NEW c \in Cycles, pc[c] # "idle" PROVE settings'[using'[c]] = settings[using[c]]
    <2>1. using[c] \in InUse /\ using[c] \in Slots
      BY <1>4 DEF InUse, Running, TypeOK
    <2> QED
      BY <1>1, <1>3, <2>1 DEF TypeOK
  <1>5. CyclesInv' /\ OverlapInv'
    BY <1>3, <1>4, SameCycles, HappenedGrows DEF CyclesInv
  <1> QED
    BY <1>2, <1>5, SameParts, TypeParts DEF TypesNext

\* The reconciler replaces the syncer, or drops it.
LEMMA EnsureTypes ==
    ASSUME TypeOK, CyclesInv, OverlapInv, ensureWebhookSyncer PROVE TypesNext
  <1>1. UNCHANGED <<forgejo, spec, annotation, cycle, outside>>
    BY DEF ensureWebhookSyncer
  <1>2. CASE PutSyncer(NoConfig, NothingManaged)
    BY <1>1, <1>2, Basics, PutSyncerTypes
  <1>3. CASE PutSyncer(config, IF settings[current] # NoConfig
                               THEN managed[current]
                               ELSE loadWebhookSyncState(cached))
    <2> DEFINE repos == IF settings[current] # NoConfig
                        THEN managed[current]
                        ELSE loadWebhookSyncState(cached)
    <2>1. repos \in ManagedRepos /\ config \in Configs
      BY LoadType DEF TypeOK
    <2>2. PutSyncer(config, repos)
      BY <1>3
    <2> HIDE DEF repos
    <2> QED
      BY <1>1, <2>1, <2>2, PutSyncerTypes
  <1> QED
    BY <1>2, <1>3 DEF ensureWebhookSyncer

\* A callback starts, alone or beside others (renovatejob_controller.go:133-134).
LEMMA StartTypes ==
    ASSUME TypeOK, CyclesInv, OverlapInv, NEW c \in Cycles, StartCycle(c) PROVE TypesNext
  <1>1. /\ UNCHANGED <<forgejo, spec, annotation, syncers, found, todo, cur, copy>>
        /\ pc[c] = "idle" /\ settings[current] # NoConfig
        /\ pc' = [pc EXCEPT ![c] = "search"]
        /\ using' = [using EXCEPT ![c] = current]
    BY DEF StartCycle
  <1>2. OutsideOK'
    BY SameParts, EventType DEF StartCycle, Events
  <1>3. using' \in [Cycles -> Slots] /\ pc' \in [Cycles -> PCs]
    BY <1>1 DEF TypeOK, PCs
  <1>4. CycleOK'
    BY <1>1, <1>3, SameParts DEF CycleOK, TypeOK
  <1>5. ASSUME NEW d \in Cycles PROVE /\ pc'[d] # "idle" => settings'[using'[d]] \in Configs
                                      /\ pc'[d] = "create" => cur'[d] \in Repos
    <2>1. settings' = settings /\ cur' = cur
      BY <1>1 DEF syncers
    <2>2. CASE d = c
      BY <1>1, <2>1, <2>2 DEF TypeOK
    <2>3. CASE d # c
      BY <1>1, <2>1, <2>3 DEF TypeOK, CyclesInv
    <2> QED
      BY <2>2, <2>3
  <1>6. CyclesInv'
    BY <1>5 DEF CyclesInv
  <1>7. OverlapInv'
    <2>1. CASE Running = {}
      BY <1>1, <2>1 DEF OverlapInv, Running, TypeOK
    <2>2. CASE Running # {}
      BY <2>2, HappenedGrows DEF StartCycle, OverlapInv
    <2> QED
      BY <2>1, <2>2
  <1> QED
    BY <1>1, <1>2, <1>4, <1>6, <1>7, SameParts, TypeParts DEF TypesNext

\* A step of a cycle that stays one keeps the syncers' configuration, and only
\* begins to create a hook on a repository.
LEMMA StepCycles ==
    ASSUME TypeOK, CyclesInv, OverlapInv, NEW c \in Cycles, NEW to, NEW repo,
           pc[c] # "idle", happened \subseteq happened', UNCHANGED <<settings, using>>,
           pc' = [pc EXCEPT ![c] = to], cur' = [cur EXCEPT ![c] = repo],
           to = "create" => repo \in Repos
    PROVE  CyclesInv' /\ OverlapInv'
  <1>1. \A d \in Cycles : d # c => pc'[d] = pc[d] /\ cur'[d] = cur[d]
    BY DEF TypeOK
  <1>2. pc'[c] = to /\ cur'[c] = repo
    BY DEF TypeOK
  <1>3. \A d \in Cycles : pc'[d] # "idle" => pc[d] # "idle"
    BY <1>1
  <1>4. \A d \in Cycles : pc'[d] = "create" => cur'[d] \in Repos
    BY <1>1, <1>2 DEF CyclesInv
  <1> QED
    BY <1>3, <1>4, SameCycles

\* A function that is left alone is one that keeps its value somewhere.
LEMMA SameStage ==
    ASSUME TypeOK, NEW c \in Cycles
    PROVE  /\ UNCHANGED pc => pc' = [pc EXCEPT ![c] = pc[c]]
           /\ UNCHANGED cur => cur' = [cur EXCEPT ![c] = cur[c]]
  BY DEF TypeOK

\* A page is a part of the repositories that carry the topic (client.go:88-123).
LEMMA SearchTypes ==
    ASSUME TypeOK, CyclesInv, OverlapInv, NEW c \in Cycles, SearchPage(c) PROVE TypesNext
  <1> DEFINE repos == PageOf(topics[Place(Settings(c))], page[c])
             eligible == adminRepos[c] \cup (repos \cap admins[Settings(c).endpoint])
  <1>1. UNCHANGED <<forgejo, spec, annotation, syncers, using, cur, copy, outside>> /\ pc[c] = "search"
    BY DEF SearchPage
  <1>2. repos \in SUBSET Repos
    BY <1>1, SettingsType DEF TypeOK, PageOf
  <1>3. eligible \in SUBSET Repos
    BY <1>2 DEF TypeOK
  <1>4. /\ topicRepos' = [topicRepos EXCEPT ![c] = topicRepos[c] \cup repos]
        /\ adminRepos' = [adminRepos EXCEPT ![c] = eligible]
        /\ \/ /\ pc' = [pc EXCEPT ![c] = "ensure"]
              /\ page' = [page EXCEPT ![c] = 1]
              /\ todo' = [todo EXCEPT ![c] = eligible]
           \/ /\ page' = [page EXCEPT ![c] = page[c] + 1]
              /\ UNCHANGED <<pc, todo>>
    BY DEF SearchPage
  <1> HIDE DEF repos, eligible
  <1>5. topicRepos' \in [Cycles -> SUBSET Repos] /\ adminRepos' \in [Cycles -> SUBSET Repos]
    BY <1>2, <1>3, <1>4 DEF TypeOK
  <1>6. page' \in [Cycles -> Nat \ {0}]
    BY <1>4 DEF TypeOK
  <1>7. todo' \in [Cycles -> SUBSET Repos] /\ pc' \in [Cycles -> PCs]
    BY <1>3, <1>4 DEF TypeOK, PCs
  <1>8. CycleOK'
    BY <1>1, <1>5, <1>6, <1>7 DEF CycleOK, FoundOK, TypeOK
  <1>9. PICK to \in {"search", "ensure"} : pc' = [pc EXCEPT ![c] = to]
    BY <1>1, <1>4, SameStage
  <1>10. UNCHANGED settings /\ happened \subseteq happened'
    BY <1>1, HappenedGrows DEF syncers
  <1>11. CyclesInv' /\ OverlapInv'
    BY <1>1, <1>9, <1>10, SameStage, StepCycles
  <1> QED
    BY <1>1, <1>8, <1>11, SameParts, TypeParts DEF TypesNext

\* The phases of a cycle follow each other (sync.go:97-104, 139-147).
LEMMA PhaseTypes ==
    ASSUME TypeOK, CyclesInv, OverlapInv, NEW c \in Cycles, BeginRemoval(c) \/ EndRemoval(c)
    PROVE  TypesNext
  <1>1. PICK to \in {"remove", "save"} : pc' = [pc EXCEPT ![c] = to]
    BY DEF BeginRemoval, EndRemoval
  <1>2. /\ UNCHANGED <<forgejo, spec, annotation, syncers, using, found, cur, outside>>
        /\ pc[c] # "idle"
        /\ copy' = [copy EXCEPT ![c] = managed[using[c]]]
    BY DEF BeginRemoval, EndRemoval
  <1>3. copy' \in [Cycles -> ManagedRepos] /\ pc' \in [Cycles -> PCs]
    BY <1>1, <1>2 DEF TypeOK, PCs
  <1>4. todo' \in [Cycles -> SUBSET Repos]
    BY DEF BeginRemoval, EndRemoval, TypeOK
  <1>5. CycleOK'
    BY <1>2, <1>3, <1>4, SameParts DEF CycleOK, TypeOK
  <1>6. UNCHANGED settings /\ happened \subseteq happened'
    BY <1>2, HappenedGrows DEF syncers
  <1>7. CyclesInv' /\ OverlapInv'
    BY <1>1, <1>2, <1>6, SameStage, StepCycles
  <1> QED
    BY <1>2, <1>5, <1>7, SameParts, TypeParts DEF TypesNext

\* ensureWebhook looks for a hook (sync.go:150-165).
LEMMA ListTypes ==
    ASSUME TypeOK, CyclesInv, OverlapInv, NEW c \in Cycles, NEW r \in Repos, ListHooks(c, r)
    PROVE  TypesNext
  <1> DEFINE matching == MatchingHooks(Settings(c).endpoint, r, Settings(c).url)
  <1>1. /\ UNCHANGED <<forgejo, spec, annotation, using, found, copy, outside>>
        /\ pc[c] = "ensure" /\ Done(c, r)
    BY DEF ListHooks
  <1>2. happened \subseteq happened' /\ todo' \in [Cycles -> SUBSET Repos]
    BY <1>1, HappenedGrows, DoneType
  <1>3. CASE \E h \in matching : Manage(c, r, h.id) /\ UNCHANGED <<pc, cur>>
    <2>1. PICK h \in matching : Manage(c, r, h.id) /\ UNCHANGED <<pc, cur>>
      BY <1>3
    <2>2. h.id \in Nat
      BY DEF MatchingHooks, HooksFor, TypeOK, Hook
    <2>3. SyncersOK' /\ UNCHANGED settings
      BY <2>1, <2>2, ManageType
    <2>4. CycleOK'
      BY <1>1, <1>2, <2>1, SameParts DEF CycleOK, TypeOK
    <2>5. CyclesInv' /\ OverlapInv'
      BY <1>1, <1>2, <2>1, <2>3, SameStage, StepCycles
    <2> QED
      BY <1>1, <2>3, <2>4, <2>5, SameParts, TypeParts DEF TypesNext
  <1>4. CASE /\ pc' = [pc EXCEPT ![c] = "create"]
             /\ cur' = [cur EXCEPT ![c] = r]
             /\ UNCHANGED syncers
    <2>1. pc' \in [Cycles -> PCs] /\ cur' \in [Cycles -> Repos \cup {0}]
      BY <1>4 DEF TypeOK, PCs
    <2>2. CycleOK'
      BY <1>1, <1>2, <2>1, SameParts DEF CycleOK, TypeOK
    <2>3. CyclesInv' /\ OverlapInv'
      BY <1>1, <1>2, <1>4, StepCycles DEF syncers
    <2> QED
      BY <1>1, <1>4, <2>2, <2>3, SameParts, TypeParts DEF TypesNext
  <1> QED
    BY <1>3, <1>4 DEF ListHooks

\* A step that finishes a repository without a hook (sync.go:91-94, 128-131).
LEMMA SkipTypes ==
    ASSUME TypeOK, CyclesInv, OverlapInv, NEW c \in Cycles, NEW r \in Repos,
           ListHooksFails(c, r) \/ DeleteHookFails(c, r)
    PROVE  TypesNext
  <1>1. UNCHANGED <<spec, annotation, syncers, using, pc, found, cur, copy>> /\ Done(c, r)
    BY DEF ListHooksFails, DeleteHookFails
  <1>2. ForgejoOK'
    BY SameParts, TakeHookType DEF ListHooksFails, DeleteHookFails
  <1>3. OutsideOK' /\ happened \subseteq happened'
    BY SameParts, EventType, HappenedGrows DEF ListHooksFails, DeleteHookFails, Events
  <1>4. CycleOK'
    BY <1>1, DoneType, SameParts DEF CycleOK, TypeOK
  <1>5. CyclesInv' /\ OverlapInv'
    BY <1>1, <1>3, SameCycles DEF CyclesInv, syncers
  <1> QED
    BY <1>1, <1>2, <1>3, <1>4, <1>5, SameParts, TypeParts DEF TypesNext

\* ensureWebhook creates a hook, or tries to (sync.go:167-191).
LEMMA CreateTypes ==
    ASSUME TypeOK, CyclesInv, OverlapInv, NEW c \in Cycles, CreateHook(c) \/ CreateHookFails(c)
    PROVE  TypesNext
  <1>1. pc[c] = "create" /\ cur[c] \in Repos /\ NextRepo(c) /\ UNCHANGED <<spec, annotation>>
    BY DEF CreateHook, CreateHookFails, CyclesInv
  <1>2. /\ pc' = [pc EXCEPT ![c] = "ensure"] /\ cur' = [cur EXCEPT ![c] = 0]
        /\ UNCHANGED <<using, found, todo, copy>>
    BY <1>1 DEF NextRepo
  <1>3. pc' \in [Cycles -> PCs] /\ cur' \in [Cycles -> Repos \cup {0}]
    BY <1>2 DEF TypeOK, PCs
  <1>4. CycleOK'
    BY <1>2, <1>3, SameParts DEF CycleOK, TypeOK
  <1>5. ForgejoOK'
    BY <1>1, PutHookType, SameParts DEF CreateHook, CreateHookFails
  <1>6. OutsideOK' /\ happened \subseteq happened'
    BY SameParts, EventType, HappenedGrows DEF CreateHook, CreateHookFails, Events
  <1>7. NewId(c) \in Nat
    BY <1>1, SettingsType DEF NewId, TypeOK
  <1>8. SyncersOK' /\ UNCHANGED settings
    <2>1. CASE Manage(c, cur[c], NewId(c))
      BY <1>1, <1>7, <2>1, ManageType
    <2>2. CASE UNCHANGED syncers
      BY <2>2, SameParts DEF syncers
    <2> QED
      BY <2>1, <2>2 DEF CreateHook, CreateHookFails
  <1>9. CyclesInv' /\ OverlapInv'
    BY <1>1, <1>2, <1>6, <1>8, StepCycles
  <1> QED
    BY <1>1, <1>4, <1>5, <1>6, <1>8, <1>9, SameParts, TypeParts DEF TypesNext

\* A repository is no longer managed (sync.go:111-120, 133-136).
LEMMA RemovalTypes ==
    ASSUME TypeOK, CyclesInv, OverlapInv, NEW c \in Cycles, NEW r \in Repos,
           GiveUpHook(c, r) \/ DeleteHook(c, r)
    PROVE  TypesNext
  <1>1. /\ UNCHANGED <<spec, annotation, using, pc, found, cur, copy, outside>>
        /\ Done(c, r) /\ Manage(c, r, NoHook)
    BY DEF GiveUpHook, DeleteHook
  <1>2. ForgejoOK'
    BY SameParts, TakeHookType DEF GiveUpHook, DeleteHook
  <1>3. SyncersOK' /\ UNCHANGED settings
    BY <1>1, Basics, ManageType
  <1>4. CycleOK'
    BY <1>1, DoneType, SameParts DEF CycleOK, TypeOK
  <1>5. CyclesInv' /\ OverlapInv'
    BY <1>1, <1>3, SameCycles, HappenedGrows DEF CyclesInv
  <1> QED
    BY <1>1, <1>2, <1>3, <1>4, <1>5, SameParts, TypeParts DEF TypesNext

\* A cycle ends (sync.go:66-68, renovatejob_controller.go:275-312).
LEMMA EndTypes ==
    ASSUME TypeOK, CyclesInv, OverlapInv, NEW c \in Cycles,
           \/ SearchFails(c) \/ saveWebhookSyncState(c)
           \/ GetRenovateJobFails(c) \/ SaveFails(c)
    PROVE  TypesNext
  <1>1. UNCHANGED <<forgejo, spec>> /\ pc[c] # "idle"
    BY DEF SearchFails, saveWebhookSyncState, GetRenovateJobFails, SaveFails
  <1>2. OutsideOK' /\ happened \subseteq happened'
    BY SameParts, EventType, HappenedGrows
       DEF SearchFails, saveWebhookSyncState, GetRenovateJobFails, SaveFails, Events
  <1>3. AnnotationOK'
    <2>1. copy[c] \in ManagedRepos
      BY DEF TypeOK
    <2> QED
      BY <2>1, SameParts
         DEF SearchFails, saveWebhookSyncState, GetRenovateJobFails, SaveFails, AnnotationOK, TypeOK
  <1>4. PICK repos : /\ EndCycle(c, repos)
                     /\ \/ repos = managed
                        \/ cached # NoAnnotation /\ repos = [managed EXCEPT ![using[c]] = cached]
    BY DEF SearchFails, saveWebhookSyncState, GetRenovateJobFails, SaveFails
  <1>5. repos \in [Slots -> ManagedRepos]
    BY <1>4 DEF TypeOK
  <1>6. CycleOK' /\ SyncersOK' /\ CyclesInv' /\ OverlapInv'
    BY <1>2, <1>4, <1>5, EndCycleType
  <1> QED
    BY <1>1, <1>2, <1>3, <1>6, SameParts, TypeParts DEF TypesNext

\* Every variable keeps its type, every cycle has a syncer that exists, although the
\* reconciler replaces and drops syncers while cycles run, and there is one cycle
\* at a time unless callbacks overlapped.
THEOREM SyncTypeCorrect == Spec => [](TypeOK /\ CyclesInv /\ OverlapInv)
  <1>1. Init => TypeOK /\ CyclesInv /\ OverlapInv
    <2> SUFFICES ASSUME Init PROVE TypeOK /\ CyclesInv /\ OverlapInv
      OBVIOUS
    <2> USE WebhookSyncAssumption
    <2>1. hooks \subseteq Hook
      <3> SUFFICES ASSUME NEW e \in Endpoints, NEW r \in Repos PROVE ForeignHook(e, r) \in Hook
        BY DEF Init
      <3>1. Base[e] + r \in Nat \ {0}
        BY DEF Repos
      <3> QED
        BY <3>1 DEF ForeignHook, Hook
    <2>2. ForgejoOK
      BY <2>1 DEF Init, ForgejoOK
    <2>3. SpecOK /\ AnnotationOK /\ OutsideOK
      BY DEF Init, SpecOK, AnnotationOK, OutsideOK
    <2>4. SyncersOK
      BY Basics DEF Init, SyncersOK
    <2>5. CycleOK
      BY Basics DEF Init, CycleOK, FoundOK, PCs
    <2>6. CyclesInv /\ OverlapInv
      BY DEF Init, CyclesInv, OverlapInv
    <2> QED
      BY <2>2, <2>3, <2>4, <2>5, <2>6, TypeParts
  <1>2. TypeOK /\ CyclesInv /\ OverlapInv /\ [Next]_vars => TypeOK' /\ CyclesInv' /\ OverlapInv'
    <2> SUFFICES ASSUME TypeOK, CyclesInv, OverlapInv, [Next]_vars PROVE TypesNext
      BY DEF TypesNext
    <2>1. CASE UNCHANGED vars
      <3>1. UNCHANGED <<forgejo, spec, annotation, syncers, cycle, outside>>
        BY <2>1 DEF vars
      <3>2. CyclesInv' /\ OverlapInv'
        BY <3>1, UntouchedCycles, HappenedGrows DEF syncers
      <3> QED
        BY <3>1, <3>2, SameParts, TypeParts DEF TypesNext
    <2>2. ASSUME NEW c \in Cycles, CycleStep(c) PROVE TypesNext
      BY <2>2, SearchTypes, ListTypes, SkipTypes, RemovalTypes, CreateTypes, PhaseTypes, EndTypes
         DEF CycleStep
    <2>3. CASE Next
      BY <2>2, <2>3, EnsureTypes, StartTypes, EndTypes, WatchTypes, ForgejoTypes, EditTypes,
         RestartTypes DEF Next
    <2> QED
      BY <2>1, <2>3
  <1> QED
    BY <1>1, <1>2, PTL DEF Spec

-----------------------------------------------------------------------------
(* The number of hooks.  What a cycle saw before it creates a hook counts  *)
(* like the hook: the cycles that are about to create one for a URL are    *)
(* added to the hooks there are.                                           *)

\* The cycles about to create a hook for this URL on this repository.
Creators(e, r, u) ==
    {c \in Cycles : /\ pc[c] = "create" /\ cur[c] = r
                    /\ Settings(c).endpoint = e /\ Settings(c).url = u}

\* As many hooks as there may be.
Limit == IF "overlap" \in happened THEN MaxCycles ELSE 1

Counted(e, r, u) == Cardinality(HooksFor(e, r, u)) + Cardinality(Creators(e, r, u)) <= Limit

\* The operator's hooks.
OwnHooks == {h \in hooks : h.url \in URLs}

CountInv ==
    /\ IsFiniteSet(OwnHooks)
    /\ \A e \in Endpoints : \A r \in Repos : \A u \in URLs : Counted(e, r, u)

\* What is counted is finite.
LEMMA CountTypes ==
    ASSUME IsFiniteSet(OwnHooks), NEW e, NEW r, NEW u \in URLs
    PROVE  /\ IsFiniteSet(HooksFor(e, r, u)) /\ Cardinality(HooksFor(e, r, u)) \in Nat
           /\ IsFiniteSet(Creators(e, r, u)) /\ Cardinality(Creators(e, r, u)) \in Nat
           /\ Cardinality(Creators(e, r, u)) <= MaxCycles
  <1>1. HooksFor(e, r, u) \in SUBSET OwnHooks /\ Creators(e, r, u) \in SUBSET (1 .. MaxCycles)
    BY DEF HooksFor, OwnHooks, Creators, Cycles
  <1>2. IsFiniteSet(1 .. MaxCycles) /\ Cardinality(1 .. MaxCycles) = MaxCycles
    BY Basics, FS_Interval
  <1>3. /\ IsFiniteSet(HooksFor(e, r, u)) /\ IsFiniteSet(Creators(e, r, u))
        /\ Cardinality(Creators(e, r, u)) <= MaxCycles
    BY <1>1, <1>2, FS_Subset
  <1> QED
    BY <1>3, FS_CardinalityType

\* The limit only grows.
LEMMA LimitGrows ==
    ASSUME happened \subseteq happened'
    PROVE  Limit \in Nat /\ Limit' \in Nat /\ Limit <= Limit'
  BY Basics DEF Limit

\* Where neither a hook nor a creator is added, the count holds.
LEMMA FewerCounted ==
    ASSUME CountInv, happened \subseteq happened',
           NEW e \in Endpoints, NEW r \in Repos, NEW u \in URLs,
           HooksFor(e, r, u)' \subseteq HooksFor(e, r, u),
           Creators(e, r, u)' \subseteq Creators(e, r, u)
    PROVE  Counted(e, r, u)'
  <1> DEFINE H == HooksFor(e, r, u)
             C == Creators(e, r, u)
  <1>1. IsFiniteSet(H) /\ IsFiniteSet(C) /\ Cardinality(H) \in Nat /\ Cardinality(C) \in Nat
    BY CountTypes DEF CountInv
  <1>2. Cardinality(H) + Cardinality(C) <= Limit
    BY DEF CountInv, Counted
  <1>3. Limit \in Nat /\ Limit' \in Nat /\ Limit <= Limit'
    BY LimitGrows
  <1>4. H' \in SUBSET H /\ C' \in SUBSET C
    OBVIOUS
  <1> HIDE DEF H, C
  <1>5. /\ IsFiniteSet(H') /\ IsFiniteSet(C')
        /\ Cardinality(H') <= Cardinality(H) /\ Cardinality(C') <= Cardinality(C)
    BY <1>1, <1>4, FS_Subset
  <1>6. Cardinality(H') \in Nat /\ Cardinality(C') \in Nat
    BY <1>5, FS_CardinalityType
  <1>7. Cardinality(H') + Cardinality(C') <= Limit'
    BY <1>1, <1>2, <1>3, <1>5, <1>6
  <1> QED
    BY <1>7 DEF H, C, Counted

\* A step that adds no hook, and after which nobody is about to create one who was
\* not before.
LEMMA FewerHooks ==
    ASSUME CountInv, hooks' \subseteq hooks, happened \subseteq happened',
           \A c \in Cycles : pc'[c] = "create" =>
               /\ pc[c] = "create" /\ cur'[c] = cur[c]
               /\ settings'[using'[c]] = settings[using[c]]
    PROVE  CountInv'
  <1>1. IsFiniteSet(OwnHooks')
    <2>1. OwnHooks' \in SUBSET OwnHooks /\ IsFiniteSet(OwnHooks)
      BY DEF CountInv, OwnHooks
    <2> QED
      BY <2>1, FS_Subset
  <1>2. ASSUME NEW e \in Endpoints, NEW r \in Repos, NEW u \in URLs PROVE Counted(e, r, u)'
    <2>1. HooksFor(e, r, u)' \subseteq HooksFor(e, r, u)
      BY DEF HooksFor
    <2>2. Creators(e, r, u)' \subseteq Creators(e, r, u)
      BY DEF Creators, Settings
    <2> QED
      BY <2>1, <2>2, FewerCounted
  <1> QED
    BY <1>1, <1>2 DEF CountInv

\* The cycle that creates the hook it saw missing is no longer about to
\* (sync.go:182-189).
LEMMA PutHookCounted ==
    ASSUME TypeOK, CyclesInv, CountInv, NEW c \in Cycles, pc[c] = "create", PutHook(c),
           pc' = [pc EXCEPT ![c] = "ensure"], cur' = [cur EXCEPT ![c] = 0],
           UNCHANGED <<settings, using>>, happened \subseteq happened'
    PROVE  CountInv'
  <1> DEFINE new == [at |-> Settings(c).endpoint, repo |-> cur[c],
                     id |-> NewId(c), url |-> Settings(c).url]
  <1>1. hooks' = hooks \cup {new}
    BY DEF PutHook
  <1>2. new.at = Settings(c).endpoint /\ new.repo = cur[c] /\ new.url = Settings(c).url
    OBVIOUS
  <1> HIDE DEF new
  <1>3. IsFiniteSet(OwnHooks) /\ IsFiniteSet(OwnHooks')
    <2>1. OwnHooks' \in SUBSET (OwnHooks \cup {new}) /\ IsFiniteSet(OwnHooks)
      BY <1>1 DEF CountInv, OwnHooks
    <2> QED
      BY <2>1, FS_AddElement, FS_Subset
  <1>4. /\ pc'[c] = "ensure"
        /\ \A d \in Cycles : d # c => pc'[d] = pc[d] /\ cur'[d] = cur[d]
    BY DEF TypeOK
  <1>5. ASSUME NEW e \in Endpoints, NEW r \in Repos, NEW u \in URLs PROVE Counted(e, r, u)'
    <2>1. Creators(e, r, u)' = Creators(e, r, u) \ {c}
      BY <1>4 DEF Creators, Settings
    <2>2. CASE c \in Creators(e, r, u)
      <3> DEFINE H == HooksFor(e, r, u)
                 C == Creators(e, r, u)
      <3>1. H' = H \cup {new}
        BY <1>1, <1>2, <2>2 DEF HooksFor, Creators
      <3>2. IsFiniteSet(H) /\ IsFiniteSet(C) /\ Cardinality(H) \in Nat /\ Cardinality(C) \in Nat
        BY <1>3, CountTypes
      <3>3. Cardinality(H) + Cardinality(C) <= Limit
        BY DEF CountInv, Counted
      <3>4. Limit \in Nat /\ Limit' \in Nat /\ Limit <= Limit'
        BY LimitGrows
      <3>5. C' = C \ {c} /\ c \in C
        BY <2>1, <2>2
      <3> HIDE DEF H, C
      <3>6. Cardinality(C') = Cardinality(C) - 1
        BY <3>2, <3>5, FS_RemoveElement
      <3>7. Cardinality(H') \in {Cardinality(H), Cardinality(H) + 1}
        BY <3>1, <3>2, FS_AddElement
      <3>8. Cardinality(H') + Cardinality(C') <= Limit'
        BY <3>2, <3>3, <3>4, <3>6, <3>7
      <3> QED
        BY <3>8 DEF H, C, Counted
    <2>3. CASE c \notin Creators(e, r, u)
      <3>1. HooksFor(e, r, u)' \subseteq HooksFor(e, r, u)
        BY <1>1, <1>2, <2>3 DEF HooksFor, Creators
      <3> QED
        BY <2>1, <3>1, FewerCounted
    <2> QED
      BY <2>2, <2>3
  <1> QED
    BY <1>3, <1>5 DEF CountInv

\* A cycle begins to create a hook only where there is none, so that all that count
\* are cycles (sync.go:157-165).
LEMMA SawNone ==
    ASSUME TypeOK, CyclesInv, OverlapInv, CountInv, NEW c \in Cycles, NEW repo \in Repos,
           pc[c] = "ensure", MatchingHooks(Settings(c).endpoint, repo, Settings(c).url) = {},
           pc' = [pc EXCEPT ![c] = "create"], cur' = [cur EXCEPT ![c] = repo],
           UNCHANGED <<hooks, settings, using, happened>>
    PROVE  CountInv'
  <1>1. IsFiniteSet(OwnHooks')
    BY DEF CountInv, OwnHooks
  <1>2. /\ pc'[c] = "create" /\ cur'[c] = repo
        /\ \A d \in Cycles : d # c => pc'[d] = pc[d] /\ cur'[d] = cur[d]
    BY DEF TypeOK
  <1>3. ASSUME NEW e \in Endpoints, NEW r \in Repos, NEW u \in URLs PROVE Counted(e, r, u)'
    <2>1. CASE Settings(c).endpoint = e /\ repo = r /\ Settings(c).url = u
      <3>1. HooksFor(e, r, u)' = {}
        BY <2>1 DEF MatchingHooks, HooksFor
      <3>2. Cardinality(HooksFor(e, r, u)') = 0
        BY <3>1, FS_EmptySet
      <3>3. Cardinality(Creators(e, r, u)') <= Limit'
        <4>1. CASE "overlap" \in happened
          <5>1. /\ Creators(e, r, u)' \in SUBSET (1 .. MaxCycles)
                /\ IsFiniteSet(1 .. MaxCycles) /\ Cardinality(1 .. MaxCycles) = MaxCycles
            BY Basics, FS_Interval DEF Creators, Cycles
          <5>2. Cardinality(Creators(e, r, u)') <= MaxCycles
            BY <5>1, FS_Subset
          <5> QED
            BY <4>1, <5>2 DEF Limit
        <4>2. CASE "overlap" \notin happened
          <5>1. Creators(e, r, u)' \subseteq {c}
            BY <1>2, <4>2 DEF Creators, OverlapInv
          <5>2. c \in Creators(e, r, u)'
            BY <1>2, <2>1 DEF Creators, Settings
          <5>3. Creators(e, r, u)' = {c}
            BY <5>1, <5>2
          <5>4. Cardinality({c}) = 1
            BY FS_Singleton
          <5> QED
            BY <4>2, <5>3, <5>4 DEF Limit
        <4> QED
          BY <4>1, <4>2
      <3>4. Cardinality(Creators(e, r, u)') \in Nat
        <4>1. /\ Creators(e, r, u)' \in SUBSET (1 .. MaxCycles)
              /\ IsFiniteSet(1 .. MaxCycles)
          BY Basics, FS_Interval DEF Creators, Cycles
        <4> QED
          BY <4>1, FS_Subset, FS_CardinalityType
      <3>5. Limit' \in Nat
        BY Basics DEF Limit
      <3>6. Cardinality(HooksFor(e, r, u)') + Cardinality(Creators(e, r, u)') <= Limit'
        BY <3>2, <3>3, <3>4, <3>5
      <3> QED
        BY <3>6 DEF Counted
    <2>2. CASE ~(Settings(c).endpoint = e /\ repo = r /\ Settings(c).url = u)
      <3>1. HooksFor(e, r, u)' \subseteq HooksFor(e, r, u)
        BY DEF HooksFor
      <3>2. Creators(e, r, u)' \subseteq Creators(e, r, u)
        BY <1>2, <2>2 DEF Creators, Settings
      <3> QED
        BY <3>1, <3>2, FewerCounted
    <2> QED
      BY <2>1, <2>2
  <1> QED
    BY <1>1, <1>3 DEF CountInv

\* The steps of ensureWebhook (sync.go:150-191).
LEMMA HookCounted ==
    ASSUME TypeOK, CyclesInv, OverlapInv, CountInv, NEW c \in Cycles,
           \/ \E r \in Repos : ListHooks(c, r)
           \/ CreateHook(c) \/ CreateHookFails(c)
    PROVE  CountInv'
  <1>1. ASSUME NEW r \in Repos, ListHooks(c, r) PROVE CountInv'
    <2>1. UNCHANGED <<hooks, using, happened>> /\ pc[c] = "ensure"
      BY <1>1 DEF ListHooks, forgejo, outside
    <2>2. CASE UNCHANGED <<pc, cur, settings>>
      BY <2>1, <2>2, FewerHooks
    <2>3. CASE /\ MatchingHooks(Settings(c).endpoint, r, Settings(c).url) = {}
               /\ pc' = [pc EXCEPT ![c] = "create"]
               /\ cur' = [cur EXCEPT ![c] = r]
               /\ UNCHANGED settings
      BY <2>1, <2>3, SawNone
    <2> QED
      BY <1>1, <2>2, <2>3 DEF ListHooks, Manage, syncers
  <1>2. CASE CreateHook(c) \/ CreateHookFails(c)
    <2>1. /\ pc[c] = "create" /\ UNCHANGED <<settings, using>>
          /\ pc' = [pc EXCEPT ![c] = "ensure"] /\ cur' = [cur EXCEPT ![c] = 0]
      BY <1>2 DEF CreateHook, CreateHookFails, NextRepo, Manage, syncers
    <2>2. happened \subseteq happened'
      BY <1>2, HappenedGrows DEF CreateHook, CreateHookFails
    <2>3. CASE PutHook(c)
      BY <2>1, <2>2, <2>3, PutHookCounted
    <2>4. CASE UNCHANGED hooks
      <3>1. \A d \in Cycles : pc'[d] = "create" => d # c /\ pc[d] = "create" /\ cur'[d] = cur[d]
        BY <2>1 DEF TypeOK
      <3> QED
        BY <2>1, <2>2, <2>4, <3>1, FewerHooks
    <2> QED
      BY <1>2, <2>3, <2>4 DEF CreateHook, CreateHookFails, forgejo
  <1> QED
    BY <1>1, <1>2

\* The other steps of a cycle, its start and its end.
LEMMA CycleCounted ==
    ASSUME TypeOK, CyclesInv, OverlapInv, CountInv, NEW c \in Cycles,
           \/ StartCycle(c) \/ SearchPage(c) \/ BeginRemoval(c) \/ EndRemoval(c)
           \/ \E r \in Repos : \/ ListHooksFails(c, r) \/ GiveUpHook(c, r)
                               \/ DeleteHook(c, r) \/ DeleteHookFails(c, r)
           \/ SearchFails(c) \/ saveWebhookSyncState(c) \/ GetRenovateJobFails(c) \/ SaveFails(c)
    PROVE  CountInv'
  <1>1. ASSUME NEW repos, EndCycle(c, repos), UNCHANGED forgejo, happened \subseteq happened'
        PROVE  CountInv'
    <2>1. ASSUME NEW d \in Cycles, pc'[d] = "create"
          PROVE  /\ pc[d] = "create" /\ cur'[d] = cur[d]
                 /\ settings'[using'[d]] = settings[using[d]]
      <3>1. d # c /\ pc'[d] = pc[d] /\ using'[d] = using[d] /\ cur'[d] = cur[d]
        BY <1>1, <2>1 DEF EndCycle, TypeOK
      <3>2. using[d] \in {using[f] : f \in Running \ {c}} /\ using[d] \in Slots
        BY <2>1, <3>1 DEF Running, TypeOK
      <3> QED
        BY <1>1, <2>1, <3>1, <3>2 DEF EndCycle
    <2> QED
      BY <1>1, <2>1, FewerHooks DEF forgejo
  <1>2. CASE SearchFails(c) \/ saveWebhookSyncState(c) \/ GetRenovateJobFails(c) \/ SaveFails(c)
    <2>1. UNCHANGED forgejo /\ happened \subseteq happened' /\ \E repos : EndCycle(c, repos)
      BY <1>2, HappenedGrows DEF SearchFails, saveWebhookSyncState, GetRenovateJobFails, SaveFails
    <2> QED
      BY <1>1, <2>1
  <1>3. CASE StartCycle(c)
    <2>1. /\ UNCHANGED <<hooks, settings, cur>> /\ pc' = [pc EXCEPT ![c] = "search"]
          /\ using' = [using EXCEPT ![c] = current]
      BY <1>3 DEF StartCycle, forgejo, syncers
    <2>2. happened \subseteq happened'
      BY <1>3, HappenedGrows DEF StartCycle
    <2>3. \A d \in Cycles : pc'[d] = "create" => d # c /\ pc[d] = "create" /\ using'[d] = using[d]
      BY <2>1 DEF TypeOK
    <2> QED
      BY <2>1, <2>2, <2>3, FewerHooks
  <1>4. CASE SearchPage(c) \/ BeginRemoval(c) \/ EndRemoval(c)
    <2>1. /\ UNCHANGED <<hooks, settings, cur, using, happened>>
          /\ \A d \in Cycles : pc'[d] = "create" => pc[d] = "create"
      BY <1>4 DEF SearchPage, BeginRemoval, EndRemoval, forgejo, syncers, outside, TypeOK
    <2> QED
      BY <2>1, FewerHooks
  <1>5. ASSUME NEW r \in Repos,
               \/ ListHooksFails(c, r) \/ GiveUpHook(c, r)
               \/ DeleteHook(c, r) \/ DeleteHookFails(c, r)
        PROVE  CountInv'
    <2>1. UNCHANGED <<settings, cur, using, pc>> /\ hooks' \subseteq hooks
      BY <1>5 DEF ListHooksFails, GiveUpHook, DeleteHook, DeleteHookFails, TakeHook, Manage,
                  forgejo, syncers
    <2>2. happened \subseteq happened'
      BY <1>5, HappenedGrows DEF ListHooksFails, GiveUpHook, DeleteHook, DeleteHookFails
    <2> QED
      BY <2>1, <2>2, FewerHooks
  <1> QED
    BY <1>2, <1>3, <1>4, <1>5

\* The reconciler, the watch, the users and the end of the operator.
LEMMA OutsideCounted ==
    ASSUME TypeOK, CyclesInv, OverlapInv, CountInv,
           \/ ensureWebhookSyncer \/ Watch \/ EditConfig \/ Restart
           \/ \E r \in Repos : \/ \E p \in Places : ChangeTopic(p, r)
                               \/ \E e \in Endpoints : ChangePermission(e, r)
    PROVE  CountInv'
  <1>1. hooks' = hooks
    BY DEF ensureWebhookSyncer, Watch, EditConfig, Restart, ChangeTopic, ChangePermission, forgejo
  <1>2. happened \subseteq happened'
    BY HappenedGrows
       DEF ensureWebhookSyncer, Watch, EditConfig, Restart, ChangeTopic, ChangePermission
  <1>3. CASE Restart
    <2>1. \A c \in Cycles : pc'[c] = "idle"
      BY <1>3 DEF Restart
    <2> QED
      BY <1>1, <1>2, <2>1, FewerHooks
  <1>4. CASE ensureWebhookSyncer
    <2>1. PICK k \in Slots : /\ k \notin InUse
                             /\ \E made : settings' = [settings EXCEPT ![k] = made]
      BY <1>4 DEF ensureWebhookSyncer, PutSyncer, TypeOK
    <2>2. UNCHANGED <<using, pc, cur>>
      BY <1>4 DEF ensureWebhookSyncer, cycle
    <2>3. ASSUME NEW c \in Cycles, pc[c] = "create" PROVE settings'[using'[c]] = settings[using[c]]
      <3>1. using[c] \in InUse /\ using[c] \in Slots
        BY <2>3 DEF InUse, Running, TypeOK
      <3> QED
        BY <2>1, <2>2, <3>1 DEF TypeOK
    <2> QED
      BY <1>1, <1>2, <2>2, <2>3, FewerHooks
  <1>5. CASE \/ Watch \/ EditConfig
             \/ \E r \in Repos : \/ \E p \in Places : ChangeTopic(p, r)
                                 \/ \E e \in Endpoints : ChangePermission(e, r)
    <2>1. UNCHANGED <<settings, using, pc, cur>>
      BY <1>5 DEF Watch, EditConfig, ChangeTopic, ChangePermission, syncers, cycle
    <2> QED
      BY <1>1, <1>2, <2>1, FewerHooks
  <1> QED
    BY <1>3, <1>4, <1>5

-----------------------------------------------------------------------------
(* Whose hooks are deleted.  That foreign hooks stay rests on every place  *)
(* where ids are remembered: the annotation, its copy in the cache, every  *)
(* syncer, and the copies of the running cycles.                           *)

\* The ids of hooks that were there before the operator.
Floor(e) == Base[e] + NumRepos

\* The ids of the operator's hooks are above those of the hooks that were there.
HookIds ==
    /\ \A h \in hooks : h.url \in URLs => h.id > Floor(h.at)
    /\ \A e \in Endpoints : lastHook[e] >= Floor(e)

\* Only ids of the operator's hooks at this Forgejo are remembered.
OwnIds(e, ids) == \A r \in Repos : ids[r] = NoHook \/ ids[r] > Floor(e)

RememberedIds(e) ==
    /\ stored # NoAnnotation => OwnIds(e, stored)
    /\ cached # NoAnnotation => OwnIds(e, cached)
    /\ \A k \in Slots : OwnIds(e, managed[k])
    /\ \A c \in Cycles : OwnIds(e, copy[c])

\* All syncers talk to this Forgejo.
SyncersAt(e) == \A k \in Slots : settings[k] # NoConfig => settings[k].endpoint = e

ForeignInPlace == \A e \in Endpoints : \A r \in Repos : ForeignHook(e, r) \in hooks

\* While the sync was not moved, the three hold for the configured Forgejo.
StayedInv ==
    "moved" \notin happened =>
        ForeignInPlace /\ SyncersAt(config.endpoint) /\ RememberedIds(config.endpoint)

OwnershipInv == HookIds /\ StayedInv

\* The ids are numbers.
LEMMA FloorType == \A e \in Endpoints : Floor(e) \in Nat
  BY WebhookSyncAssumption DEF Floor

\* Nothing is remembered at first.
LEMMA NothingIsOwn == \A e : OwnIds(e, NothingManaged)
  BY DEF OwnIds, NothingManaged

\* What is remembered and who talks to the Forgejo, place by place.
LEMMA StayedNext ==
    ASSUME NEW e, e = config'.endpoint, "moved" \notin happened' =>
               /\ ForeignInPlace'
               /\ \A k \in Slots : settings'[k] # NoConfig => settings'[k].endpoint = e
               /\ stored' # NoAnnotation => OwnIds(e, stored')
               /\ cached' # NoAnnotation => OwnIds(e, cached')
               /\ \A k \in Slots : OwnIds(e, managed'[k])
               /\ \A c \in Cycles : OwnIds(e, copy'[c])
    PROVE  StayedInv'
  BY DEF StayedInv, SyncersAt, RememberedIds, OwnIds

\* The same before a step.
LEMMA StayedNow ==
    ASSUME StayedInv, "moved" \notin happened
    PROVE  /\ ForeignInPlace
           /\ \A k \in Slots : settings[k] # NoConfig => settings[k].endpoint = config.endpoint
           /\ stored # NoAnnotation => OwnIds(config.endpoint, stored)
           /\ cached # NoAnnotation => OwnIds(config.endpoint, cached)
           /\ \A k \in Slots : OwnIds(config.endpoint, managed[k])
           /\ \A c \in Cycles : OwnIds(config.endpoint, copy[c])
  BY DEF StayedInv, SyncersAt, RememberedIds

\* Hooks that are left alone or taken away keep their ids.
LEMMA SameHookIds ==
    ASSUME HookIds, hooks' \subseteq hooks, UNCHANGED lastHook
    PROVE  HookIds'
  BY DEF HookIds, Floor

\* Hooks that are left alone stay.
LEMMA SameForeign ==
    ASSUME ForeignInPlace, hooks \subseteq hooks' PROVE ForeignInPlace'
  BY DEF ForeignInPlace, ForeignHook

\* A new hook gets an id above all others (client.go:155-172).
LEMMA PutHookIds ==
    ASSUME TypeOK, CyclesInv, HookIds, NEW c \in Cycles, pc[c] = "create", PutHook(c)
    PROVE  /\ HookIds' /\ hooks \subseteq hooks'
           /\ NewId(c) \in Nat /\ NewId(c) > Floor(Settings(c).endpoint)
  <1> DEFINE e == Settings(c).endpoint
             new == [at |-> e, repo |-> cur[c], id |-> NewId(c), url |-> Settings(c).url]
  <1>1. e \in Endpoints
    BY SettingsType
  <1>2. lastHook[e] \in Nat /\ lastHook[e] >= Floor(e) /\ Floor(e) \in Nat
    BY <1>1, FloorType DEF TypeOK, HookIds
  <1>3. NewId(c) = lastHook[e] + 1
    BY DEF NewId
  <1>4. NewId(c) \in Nat /\ NewId(c) > Floor(e) /\ NewId(c) >= Floor(e)
    BY <1>2, <1>3
  <1>5. hooks' = hooks \cup {new} /\ lastHook' = [lastHook EXCEPT ![e] = NewId(c)]
    BY DEF PutHook
  <1>6. new.at = e /\ new.id = NewId(c)
    OBVIOUS
  <1> HIDE DEF new, e
  <1>7. \A h \in hooks' : h.url \in URLs => h.id > Floor(h.at)
    BY <1>4, <1>5, <1>6 DEF HookIds
  <1>8. \A f \in Endpoints : lastHook'[f] >= Floor(f)
    BY <1>4, <1>5 DEF HookIds, TypeOK
  <1>9. HookIds'
    BY <1>7, <1>8 DEF HookIds, Floor
  <1> QED
    BY <1>4, <1>5, <1>9 DEF e

\* Remembering an id of the operator, or forgetting one (sync.go:160-163, 187-189).
LEMMA ManageIds ==
    ASSUME TypeOK, NEW e \in Endpoints, NEW c \in Cycles, NEW repo \in Repos, NEW id \in Nat,
           \A k \in Slots : OwnIds(e, managed[k]), id = NoHook \/ id > Floor(e),
           Manage(c, repo, id)
    PROVE  \A k \in Slots : OwnIds(e, managed'[k])
  <1>1. managed \in [Slots -> [Repos -> Nat]] /\ using[c] \in Slots
    BY DEF TypeOK, ManagedRepos
  <1>2. managed' = [managed EXCEPT ![using[c]][repo] = id]
    BY DEF Manage
  <1> SUFFICES ASSUME NEW k \in Slots, NEW r \in Repos
               PROVE  managed'[k][r] = NoHook \/ managed'[k][r] > Floor(e)
    BY DEF OwnIds
  <1>3. managed[k][r] = NoHook \/ managed[k][r] > Floor(e)
    BY DEF OwnIds
  <1>4. managed'[k][r] = IF k = using[c] /\ r = repo THEN id ELSE managed[k][r]
    BY <1>1, <1>2
  <1> QED
    BY <1>3, <1>4

\* A step that changes nothing but what one syncer manages, and adds a hook or none.
LEMMA ManageStays ==
    ASSUME TypeOK, StayedInv, NEW c \in Cycles, NEW repo \in Repos, NEW id \in Nat,
           hooks \subseteq hooks', UNCHANGED <<config, stored, cached, copy, happened>>,
           "moved" \notin happened => id = NoHook \/ id > Floor(config.endpoint),
           Manage(c, repo, id)
    PROVE  StayedInv'
  <1>1. config.endpoint \in Endpoints
    BY Basics DEF TypeOK
  <1>2. UNCHANGED settings
    BY DEF Manage
  <1>3. ASSUME "moved" \notin happened
        PROVE  ForeignInPlace' /\ \A k \in Slots : OwnIds(config.endpoint, managed'[k])
    BY <1>1, <1>3, StayedNow, SameForeign, ManageIds
  <1> QED
    BY <1>2, <1>3, StayedNow, StayedNext

\* A step that remembers nothing new.
LEMMA SameStays ==
    ASSUME StayedInv, hooks \subseteq hooks', happened \subseteq happened',
           UNCHANGED <<config, stored, cached, settings, managed, copy>>
    PROVE  StayedInv'
  <1>1. "moved" \notin happened' => "moved" \notin happened /\ ForeignInPlace'
    BY StayedNow, SameForeign
  <1> QED
    BY <1>1, StayedNow, StayedNext

\* The Forgejo of a running cycle is the configured one.
LEMMA CycleAt ==
    ASSUME TypeOK, CyclesInv, StayedInv, NEW c \in Cycles, pc[c] # "idle", "moved" \notin happened
    PROVE  Settings(c).endpoint = config.endpoint
  <1>1. settings[using[c]] \in Configs /\ using[c] \in Slots
    BY DEF CyclesInv, TypeOK
  <1>2. settings[using[c]] # NoConfig
    BY <1>1, WebhookSyncAssumption
  <1> QED
    BY <1>1, <1>2, StayedNow DEF Settings

\* A deletion takes a hook of the operator, or none (sync.go:128).
LEMMA TakeHookStays ==
    ASSUME TypeOK, CyclesInv, StayedInv, NEW c \in Cycles, NEW repo \in Repos, pc[c] # "idle",
           TakeHook(c, repo), "moved" \notin happened
    PROVE  ForeignInPlace'
  <1> DEFINE g == config.endpoint
  <1>1. /\ g \in Endpoints /\ Settings(c).endpoint = g /\ Floor(g) \in Nat
    BY Basics, CycleAt, FloorType DEF TypeOK
  <1>2. /\ copy[c][repo] \in Nat
        /\ copy[c][repo] = NoHook \/ copy[c][repo] > Floor(g)
    BY StayedNow DEF OwnIds, TypeOK, ManagedRepos
  <1>3. hooks' = hooks \ HookToDelete(c, repo)
    BY DEF TakeHook
  <1>4. ASSUME NEW e \in Endpoints, NEW r \in Repos PROVE ForeignHook(e, r) \in hooks'
    <2>1. ForeignHook(e, r) \in hooks
      BY StayedNow DEF ForeignInPlace
    <2>2. ForeignHook(e, r).at = e /\ ForeignHook(e, r).id = Base[e] + r
      BY DEF ForeignHook
    <2>3. Base[e] \in Nat /\ r \in Nat /\ 0 < r /\ r <= NumRepos /\ NumRepos \in Nat
      BY WebhookSyncAssumption DEF Repos
    <2>4. CASE e = g
      <3>1. Base[e] + r # copy[c][repo]
        BY <1>2, <2>3, <2>4 DEF NoHook, Floor
      <3> QED
        BY <1>3, <2>1, <2>2, <3>1 DEF HookToDelete
    <2>5. CASE e # g
      BY <1>1, <1>3, <2>1, <2>2, <2>5 DEF HookToDelete
    <2> QED
      BY <2>4, <2>5
  <1> QED
    BY <1>4 DEF ForeignInPlace, ForeignHook

\* The steps of ensureWebhook: only a hook with the URL of the sync is adopted
\* (sync.go:150-191).
LEMMA HookOwned ==
    ASSUME TypeOK, CyclesInv, OwnershipInv, NEW c \in Cycles,
           \/ \E r \in Repos : ListHooks(c, r) \/ ListHooksFails(c, r)
           \/ CreateHook(c) \/ CreateHookFails(c)
    PROVE  OwnershipInv'
  <1> USE DEF OwnershipInv
  <1>1. ASSUME NEW r \in Repos, ListHooks(c, r) PROVE OwnershipInv'
    <2> DEFINE matching == MatchingHooks(Settings(c).endpoint, r, Settings(c).url)
    <2>1. UNCHANGED <<hooks, lastHook, config, stored, cached, copy, happened>> /\ pc[c] = "ensure"
      BY <1>1 DEF ListHooks, forgejo, spec, annotation, outside
    <2>2. HookIds'
      BY <2>1, SameHookIds
    <2>3. CASE \E h \in matching : Manage(c, r, h.id)
      <3>1. PICK h \in matching : Manage(c, r, h.id)
        BY <2>3
      <3>2. h \in hooks /\ h.at = Settings(c).endpoint /\ h.url = Settings(c).url /\ h.id \in Nat
        BY DEF MatchingHooks, HooksFor, TypeOK, Hook
      <3>3. h.id > Floor(Settings(c).endpoint)
        BY <2>1, <3>2, SettingsType DEF HookIds
      <3>4. "moved" \notin happened => h.id > Floor(config.endpoint)
        BY <2>1, <3>3, CycleAt
      <3>5. StayedInv'
        BY <2>1, <3>1, <3>2, <3>4, ManageStays
      <3> QED
        BY <2>2, <3>5
    <2>4. CASE UNCHANGED syncers
      <3>1. StayedInv'
        BY <2>1, <2>4, SameStays DEF syncers
      <3> QED
        BY <2>2, <3>1
    <2> QED
      BY <1>1, <2>3, <2>4 DEF ListHooks
  <1>2. ASSUME NEW r \in Repos, ListHooksFails(c, r) PROVE OwnershipInv'
    <2>1. UNCHANGED <<hooks, lastHook, config, stored, cached, settings, managed, copy>>
      BY <1>2 DEF ListHooksFails, forgejo, spec, annotation, syncers
    <2>2. happened \subseteq happened'
      BY <1>2, HappenedGrows DEF ListHooksFails
    <2> QED
      BY <2>1, <2>2, SameHookIds, SameStays
  <1>3. CASE CreateHook(c)
    <2>1. /\ pc[c] = "create" /\ cur[c] \in Repos /\ PutHook(c)
          /\ UNCHANGED <<config, stored, cached, copy, happened>> /\ Manage(c, cur[c], NewId(c))
      BY <1>3 DEF CreateHook, NextRepo, spec, annotation, outside, CyclesInv
    <2>2. /\ HookIds' /\ hooks \subseteq hooks'
          /\ NewId(c) \in Nat /\ NewId(c) > Floor(Settings(c).endpoint)
      BY <2>1, PutHookIds
    <2>3. "moved" \notin happened => NewId(c) > Floor(config.endpoint)
      BY <2>1, <2>2, CycleAt
    <2>4. StayedInv'
      BY <2>1, <2>2, <2>3, ManageStays
    <2> QED
      BY <2>2, <2>4
  <1>4. CASE CreateHookFails(c)
    <2>1. pc[c] = "create" /\ UNCHANGED <<config, stored, cached, settings, managed, copy>>
      BY <1>4 DEF CreateHookFails, NextRepo, spec, annotation, syncers
    <2>2. PutHook(c) \/ UNCHANGED <<hooks, lastHook>>
      BY <1>4 DEF CreateHookFails, forgejo
    <2>3. happened \subseteq happened'
      BY <1>4, HappenedGrows DEF CreateHookFails
    <2>4. HookIds' /\ hooks \subseteq hooks'
      BY <2>1, <2>2, PutHookIds, SameHookIds
    <2> QED
      BY <2>1, <2>3, <2>4, SameStays
  <1> QED
    BY <1>1, <1>2, <1>3, <1>4

\* The removal deletes by an id of the copy, whether or not the answer of Forgejo
\* arrives (sync.go:97-137).
LEMMA RemovalOwned ==
    ASSUME TypeOK, CyclesInv, OwnershipInv, NEW c \in Cycles, NEW r \in Repos,
           GiveUpHook(c, r) \/ DeleteHook(c, r) \/ DeleteHookFails(c, r)
    PROVE  OwnershipInv'
  <1> USE DEF OwnershipInv
  <1>1. UNCHANGED <<config, stored, cached, copy, settings>> /\ pc[c] # "idle"
    BY DEF GiveUpHook, DeleteHook, DeleteHookFails, Manage, syncers, spec, annotation
  <1>2. TakeHook(c, r) \/ UNCHANGED <<hooks, lastHook>>
    BY DEF GiveUpHook, DeleteHook, DeleteHookFails, forgejo
  <1>3. HookIds'
    BY <1>2, SameHookIds DEF TakeHook
  <1>4. happened \subseteq happened'
    BY HappenedGrows DEF GiveUpHook, DeleteHook, DeleteHookFails
  <1>5. ASSUME "moved" \notin happened'
        PROVE  ForeignInPlace' /\ \A k \in Slots : OwnIds(config.endpoint, managed'[k])
    <2>1. "moved" \notin happened /\ config.endpoint \in Endpoints
      BY <1>4, <1>5, Basics DEF TypeOK
    <2>2. ForeignInPlace'
      BY <1>1, <1>2, <2>1, TakeHookStays, StayedNow, SameForeign
    <2>3. Manage(c, r, NoHook) \/ UNCHANGED managed
      BY DEF GiveUpHook, DeleteHook, DeleteHookFails, syncers
    <2>4. \A k \in Slots : OwnIds(config.endpoint, managed[k])
      BY <2>1, StayedNow
    <2>5. CASE Manage(c, r, NoHook)
      BY <2>1, <2>2, <2>4, <2>5, Basics, ManageIds
    <2>6. CASE UNCHANGED managed
      BY <2>2, <2>4, <2>6
    <2> QED
      BY <2>3, <2>5, <2>6
  <1>6. StayedInv'
    BY <1>1, <1>4, <1>5, StayedNow, StayedNext
  <1> QED
    BY <1>3, <1>6

\* The search, the start of a cycle, and the copies it takes of what is managed.
LEMMA PhaseOwned ==
    ASSUME TypeOK, CyclesInv, OwnershipInv, NEW c \in Cycles,
           StartCycle(c) \/ SearchPage(c) \/ BeginRemoval(c) \/ EndRemoval(c)
    PROVE  OwnershipInv'
  <1> USE DEF OwnershipInv
  <1>1. UNCHANGED <<hooks, lastHook, config, stored, cached, settings, managed>>
    BY DEF StartCycle, SearchPage, BeginRemoval, EndRemoval, forgejo, spec, annotation, syncers
  <1>2. HookIds' /\ happened \subseteq happened'
    BY <1>1, SameHookIds, HappenedGrows DEF StartCycle, SearchPage, BeginRemoval, EndRemoval
  <1>3. \A d \in Cycles : copy'[d] = copy[d] \/ copy'[d] = managed[using[c]]
    BY DEF StartCycle, SearchPage, BeginRemoval, EndRemoval, TypeOK
  <1>4. using[c] \in Slots
    BY DEF TypeOK
  <1>5. ASSUME "moved" \notin happened'
        PROVE  ForeignInPlace' /\ \A d \in Cycles : OwnIds(config.endpoint, copy'[d])
    BY <1>1, <1>2, <1>3, <1>4, <1>5, StayedNow, SameForeign
  <1>6. StayedInv'
    BY <1>1, <1>2, <1>5, StayedNow, StayedNext
  <1> QED
    BY <1>2, <1>6

\* A copy goes to the annotation; when the update fails, the syncer goes back to an
\* older annotation (renovatejob_controller.go:275-312).
LEMMA EndOwned ==
    ASSUME TypeOK, CyclesInv, OwnershipInv, NEW c \in Cycles,
           \/ SearchFails(c) \/ saveWebhookSyncState(c)
           \/ GetRenovateJobFails(c) \/ SaveFails(c)
    PROVE  OwnershipInv'
  <1> USE DEF OwnershipInv
  <1>1. UNCHANGED <<hooks, lastHook, config>>
    BY DEF SearchFails, saveWebhookSyncState, GetRenovateJobFails, SaveFails, forgejo, spec
  <1>2. HookIds' /\ happened \subseteq happened'
    BY <1>1, SameHookIds, HappenedGrows
       DEF SearchFails, saveWebhookSyncState, GetRenovateJobFails, SaveFails
  <1>3. stored' \in {stored, copy[c]} /\ cached' \in {cached, copy[c]}
    BY DEF SearchFails, saveWebhookSyncState, GetRenovateJobFails, SaveFails, annotation
  <1>4. PICK repos : /\ EndCycle(c, repos)
                     /\ \/ repos = managed
                        \/ cached # NoAnnotation /\ repos = [managed EXCEPT ![using[c]] = cached]
    BY DEF SearchFails, saveWebhookSyncState, GetRenovateJobFails, SaveFails
  <1>5. \A k \in Slots : repos[k] = managed[k] \/ (cached # NoAnnotation /\ repos[k] = cached)
    BY <1>4 DEF TypeOK
  <1>6. \A k \in Slots : managed'[k] = repos[k] \/ managed'[k] = NothingManaged
    BY <1>4 DEF EndCycle
  <1>7. \A k \in Slots : settings'[k] = settings[k] \/ settings'[k] = NoConfig
    BY <1>4 DEF EndCycle
  <1>8. \A d \in Cycles : copy'[d] = copy[d] \/ copy'[d] = NothingManaged
    BY <1>4 DEF EndCycle, TypeOK
  <1>9. ASSUME "moved" \notin happened'
        PROVE  /\ ForeignInPlace'
               /\ \A k \in Slots : settings'[k] # NoConfig => settings'[k].endpoint = config.endpoint
               /\ stored' # NoAnnotation => OwnIds(config.endpoint, stored')
               /\ cached' # NoAnnotation => OwnIds(config.endpoint, cached')
               /\ \A k \in Slots : OwnIds(config.endpoint, managed'[k])
               /\ \A d \in Cycles : OwnIds(config.endpoint, copy'[d])
    <2>1. "moved" \notin happened
      BY <1>2, <1>9
    <2>2. ForeignInPlace'
      BY <1>1, <2>1, StayedNow, SameForeign
    <2>3. \A k \in Slots : settings'[k] # NoConfig => settings'[k].endpoint = config.endpoint
      BY <1>7, <2>1, StayedNow
    <2>4. \A k \in Slots : OwnIds(config.endpoint, managed'[k])
      BY <1>5, <1>6, <2>1, StayedNow, NothingIsOwn
    <2>5. \A d \in Cycles : OwnIds(config.endpoint, copy'[d])
      BY <1>8, <2>1, StayedNow, NothingIsOwn
    <2>6. /\ stored' # NoAnnotation => OwnIds(config.endpoint, stored')
          /\ cached' # NoAnnotation => OwnIds(config.endpoint, cached')
      BY <1>3, <2>1, StayedNow
    <2> QED
      BY <2>2, <2>3, <2>4, <2>5, <2>6
  <1>10. StayedInv'
    BY <1>1, <1>9, StayedNext
  <1> QED
    BY <1>2, <1>10

\* The reconciler hands on what the old syncer or the annotation remembers
\* (renovatejob_controller.go:227-239).
LEMMA EnsureOwned ==
    ASSUME TypeOK, CyclesInv, OwnershipInv, ensureWebhookSyncer PROVE OwnershipInv'
  <1> USE DEF OwnershipInv
  <1>1. UNCHANGED <<hooks, lastHook, config, stored, cached, copy, happened>>
    BY DEF ensureWebhookSyncer, forgejo, spec, annotation, cycle, outside
  <1>2. HookIds'
    BY <1>1, SameHookIds
  <1>3. PICK k, made, repos :
             /\ k \in Slots
             /\ made = NoConfig \/ made = config
             /\ \/ repos = NothingManaged \/ repos = managed[current]
                \/ cached # NoAnnotation /\ repos = cached
             /\ settings' = [settings EXCEPT ![k] = made]
             /\ managed' = [managed EXCEPT ![k] = repos]
    <2>1. CASE PutSyncer(NoConfig, NothingManaged)
      BY <2>1 DEF PutSyncer
    <2>2. CASE PutSyncer(config, IF settings[current] # NoConfig
                                 THEN managed[current]
                                 ELSE loadWebhookSyncState(cached))
      <3> DEFINE ids == IF settings[current] # NoConfig
                        THEN managed[current]
                        ELSE loadWebhookSyncState(cached)
      <3>1. \/ ids = NothingManaged \/ ids = managed[current]
            \/ cached # NoAnnotation /\ ids = cached
        BY DEF loadWebhookSyncState
      <3>2. PutSyncer(config, ids)
        BY <2>2
      <3> HIDE DEF ids
      <3> QED
        BY <3>1, <3>2 DEF PutSyncer
    <2> QED
      BY <2>1, <2>2 DEF ensureWebhookSyncer
  <1>4. current \in Slots
    BY DEF TypeOK
  <1>5. ASSUME "moved" \notin happened
        PROVE  /\ ForeignInPlace'
               /\ \A j \in Slots : settings'[j] # NoConfig => settings'[j].endpoint = config.endpoint
               /\ \A j \in Slots : OwnIds(config.endpoint, managed'[j])
    <2>1. ForeignInPlace'
      BY <1>1, <1>5, StayedNow, SameForeign
    <2>2. OwnIds(config.endpoint, repos)
      BY <1>3, <1>4, <1>5, StayedNow, NothingIsOwn
    <2>3. \A j \in Slots : managed'[j] = managed[j] \/ managed'[j] = repos
      BY <1>3 DEF TypeOK
    <2>4. \A j \in Slots : settings'[j] = settings[j] \/ settings'[j] = made
      BY <1>3 DEF TypeOK
    <2>5. \A j \in Slots : OwnIds(config.endpoint, managed'[j])
      BY <1>5, <2>2, <2>3, StayedNow
    <2>6. \A j \in Slots : settings'[j] # NoConfig => settings'[j].endpoint = config.endpoint
      BY <1>3, <1>5, <2>4, StayedNow
    <2> QED
      BY <2>1, <2>5, <2>6
  <1>6. StayedInv'
    BY <1>1, <1>5, StayedNow, StayedNext
  <1> QED
    BY <1>2, <1>6

\* The watch, the users, and the end of the operator.
LEMMA OutsideOwned ==
    ASSUME TypeOK, CyclesInv, OwnershipInv,
           \/ Watch \/ EditConfig \/ Restart
           \/ \E r \in Repos : \/ \E p \in Places : ChangeTopic(p, r)
                               \/ \E e \in Endpoints : ChangePermission(e, r)
    PROVE  OwnershipInv'
  <1> USE DEF OwnershipInv
  <1>1. UNCHANGED <<hooks, lastHook, stored>>
    BY DEF Watch, EditConfig, Restart, ChangeTopic, ChangePermission, forgejo, annotation
  <1>2. HookIds'
    BY <1>1, SameHookIds
  <1>3. happened \subseteq happened'
    BY HappenedGrows DEF Watch, EditConfig, Restart, ChangeTopic, ChangePermission
  <1>4. "moved" \notin happened' => config'.endpoint = config.endpoint
    BY HappenedGrows DEF Watch, EditConfig, Restart, ChangeTopic, ChangePermission, spec
  <1>5. cached' \in {cached, stored}
    BY DEF Watch, EditConfig, Restart, ChangeTopic, ChangePermission, annotation
  <1>6. /\ \A k \in Slots : settings'[k] = settings[k] \/ settings'[k] = NoConfig
        /\ \A k \in Slots : managed'[k] = managed[k] \/ managed'[k] = NothingManaged
        /\ \A c \in Cycles : copy'[c] = copy[c] \/ copy'[c] = NothingManaged
    BY DEF Watch, EditConfig, Restart, ChangeTopic, ChangePermission, syncers, cycle
  <1>7. ASSUME "moved" \notin happened'
        PROVE  /\ ForeignInPlace' /\ config'.endpoint = config.endpoint
               /\ \A k \in Slots : settings'[k] # NoConfig => settings'[k].endpoint = config.endpoint
               /\ stored' # NoAnnotation => OwnIds(config.endpoint, stored')
               /\ cached' # NoAnnotation => OwnIds(config.endpoint, cached')
               /\ \A k \in Slots : OwnIds(config.endpoint, managed'[k])
               /\ \A d \in Cycles : OwnIds(config.endpoint, copy'[d])
    <2>1. "moved" \notin happened /\ config'.endpoint = config.endpoint
      BY <1>3, <1>4, <1>7
    <2>2. ForeignInPlace'
      BY <1>1, <2>1, StayedNow, SameForeign
    <2>3. \A k \in Slots : settings'[k] # NoConfig => settings'[k].endpoint = config.endpoint
      BY <1>6, <2>1, StayedNow
    <2>4. \A k \in Slots : OwnIds(config.endpoint, managed'[k])
      BY <1>6, <2>1, StayedNow, NothingIsOwn
    <2>5. \A d \in Cycles : OwnIds(config.endpoint, copy'[d])
      BY <1>6, <2>1, StayedNow, NothingIsOwn
    <2>6. /\ stored' # NoAnnotation => OwnIds(config.endpoint, stored')
          /\ cached' # NoAnnotation => OwnIds(config.endpoint, cached')
      BY <1>1, <1>5, <2>1, StayedNow
    <2> QED
      BY <2>1, <2>2, <2>3, <2>4, <2>5, <2>6
  <1>8. StayedInv'
    BY <1>7, StayedNext
  <1> QED
    BY <1>2, <1>8

\* The number of hooks and of creators stays within the limit, and the ids remembered
\* anywhere are the operator's own while the sync stays with its Forgejo, over
\* overlapping cycles, lost answers, failed updates, replaced syncers and restarts.
HooksInv == CountInv /\ OwnershipInv

THEOREM HooksAreKept == Spec => []HooksInv
  <1>1. Init => HooksInv
    <2> SUFFICES ASSUME Init PROVE HooksInv
      OBVIOUS
    <2> USE WebhookSyncAssumption
    <2>1. hooks = {ForeignHook(e, r) : e \in Endpoints, r \in Repos}
      BY DEF Init
    <2>2. \A h \in hooks : h.url = Foreign
      BY <2>1 DEF ForeignHook
    <2>3. ASSUME NEW e \in Endpoints, NEW r \in Repos, NEW u \in URLs
          PROVE  HooksFor(e, r, u) = {} /\ Creators(e, r, u) = {}
      BY <2>2 DEF HooksFor, Creators, Init
    <2>4. \A e \in Endpoints : \A r \in Repos : \A u \in URLs : Counted(e, r, u)
      <3>1. Cardinality({}) = 0 /\ 0 + 0 <= Limit
        BY FS_EmptySet, Basics DEF Limit
      <3>2. ASSUME NEW e \in Endpoints, NEW r \in Repos, NEW u \in URLs
            PROVE  Cardinality(HooksFor(e, r, u)) = 0 /\ Cardinality(Creators(e, r, u)) = 0
        BY <2>3, <3>1
      <3> QED
        BY <3>1, <3>2 DEF Counted
    <2>5. IsFiniteSet(OwnHooks)
      <3>1. OwnHooks = {}
        BY <2>2 DEF OwnHooks
      <3> QED
        BY <3>1, FS_EmptySet
    <2>6. HookIds
      BY <2>2 DEF HookIds, Init, Floor
    <2>7. StayedInv
      BY <2>1, NothingIsOwn DEF StayedInv, Init, ForeignInPlace, SyncersAt, RememberedIds
    <2> QED
      BY <2>4, <2>5, <2>6, <2>7 DEF HooksInv, CountInv, OwnershipInv
  <1>2. TypeOK /\ CyclesInv /\ OverlapInv /\ HooksInv /\ [Next]_vars => HooksInv'
    <2> SUFFICES ASSUME TypeOK, CyclesInv, OverlapInv, CountInv, OwnershipInv, [Next]_vars
                 PROVE  CountInv' /\ OwnershipInv'
      BY DEF HooksInv
    <2>1. CASE UNCHANGED vars
      <3>1. /\ UNCHANGED <<hooks, lastHook, config, stored, cached, settings, managed, copy>>
            /\ UNCHANGED <<pc, cur, using, happened>>
        BY <2>1 DEF vars, forgejo, spec, annotation, syncers, cycle, outside
      <3>2. CountInv'
        BY <3>1, FewerHooks
      <3>3. OwnershipInv'
        BY <3>1, SameHookIds, SameStays DEF OwnershipInv
      <3> QED
        BY <3>2, <3>3
    <2>2. ASSUME NEW c \in Cycles, CycleStep(c) PROVE CountInv' /\ OwnershipInv'
      BY <2>2, HookCounted, CycleCounted, HookOwned, RemovalOwned, PhaseOwned, EndOwned
         DEF CycleStep
    <2>3. CASE Next
      BY <2>2, <2>3, CycleCounted, OutsideCounted, PhaseOwned, EndOwned, EnsureOwned, OutsideOwned
         DEF Next
    <2> QED
      BY <2>1, <2>3
  <1> QED
    BY <1>1, <1>2, SyncTypeCorrect, PTL DEF Spec

\* A repository has at most one hook for a URL (sync.go:150-191), however creations
\* are interrupted, lost or repeated; if callbacks overlapped, at most as many as
\* may run at once.
THEOREM NoDuplicates == Spec => []NoDuplicateHooks
  <1>1. HooksInv => NoDuplicateHooks
    <2> SUFFICES ASSUME HooksInv, NEW e \in Endpoints, NEW r \in Repos, NEW u \in URLs
                 PROVE  Cardinality(HooksFor(e, r, u)) <= Limit
      BY DEF NoDuplicateHooks, Limit
    <2>1. Cardinality(HooksFor(e, r, u)) \in Nat /\ Cardinality(Creators(e, r, u)) \in Nat
      BY CountTypes DEF HooksInv, CountInv
    <2>2. Cardinality(HooksFor(e, r, u)) + Cardinality(Creators(e, r, u)) <= Limit
      BY DEF HooksInv, CountInv, Counted
    <2>3. Limit \in Nat
      BY Basics DEF Limit
    <2> QED
      BY <2>1, <2>2, <2>3
  <1> QED
    BY <1>1, HooksAreKept, PTL

\* The operator deletes no hook of somebody else (sync.go:97-137), unless the sync
\* was moved to another Forgejo.
THEOREM ForeignHooksStay == Spec => []ForeignHooksUntouched
  <1>1. HooksInv => ForeignHooksUntouched
    <2> SUFFICES ASSUME HooksInv, "moved" \notin happened, NEW e \in Endpoints, NEW r \in Repos
                 PROVE  HooksFor(e, r, Foreign) # {}
      BY DEF ForeignHooksUntouched
    <2>1. ForeignHook(e, r) \in hooks
      BY StayedNow DEF HooksInv, OwnershipInv, ForeignInPlace
    <2>2. /\ ForeignHook(e, r).at = e /\ ForeignHook(e, r).repo = r
          /\ ForeignHook(e, r).url = Foreign
      BY DEF ForeignHook
    <2> QED
      BY <2>1, <2>2 DEF HooksFor
  <1> QED
    BY <1>1, HooksAreKept, PTL
=============================================================================
