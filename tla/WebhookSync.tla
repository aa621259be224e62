---------------------------- MODULE WebhookSync ----------------------------
(***************************************************************************)
(* The synchronisation of Forgejo webhooks for one RenovateJob: the cycle  *)
(* of internal/forgejo/sync.go over the API of internal/forgejo/client.go, *)
(* the syncer the reconciler keeps for the RenovateJob, and the annotation *)
(* in which the operator remembers the hooks it manages                    *)
(* (controllers/renovatejob_controller.go).                                *)
(*                                                                         *)
(* Every call to Forgejo and to the API server is a step: while a cycle    *)
(* runs, the topics and permissions of repositories change, the sync is    *)
(* reconfigured or moved to another Forgejo, calls fail with or without    *)
(* having taken effect, and the operator ends.  Every cron callback runs   *)
(* in a goroutine of its own, so that a cycle may start while others still *)
(* run; they share the syncer, which locks its map but not its cycle.      *)
(*                                                                         *)
(* Repositories are numbered in the order in which Forgejo lists them, and *)
(* have the same names at every Forgejo.  The RenovateJob has annotations, *)
(* so that the map of annotations a load returns is the one in the         *)
(* informer cache (DeepCopyObject copies the struct only).                 *)
(***************************************************************************)
EXTENDS Integers, FiniteSets

CONSTANTS
    NumRepos,   \* how many repositories a Forgejo has
    Configs,    \* what the sync may be configured with: records with the fields
                \* endpoint, topic, url and whatever else is in the fingerprint
    Base,       \* the ids a Forgejo gave out before its first repository had a hook
    InitialTopics,  \* which repositories carry which topic at first
    PageLimit,  \* limit of one page of the search
    MaxCycles,  \* bound: how many callbacks run at once
    MaxTopics,  \* bound: how often a topic is added or removed
    MaxEvents   \* bound: how many other outside events happen

\* "admin": somebody changes a permission; "edit", "moved": the configuration, in
\* the latter case to another Forgejo; "call": a call fails; "lost": a call takes
\* effect but its answer is lost; "save": the annotation is not written;
\* "overlap": a callback starts while another one runs; "restart", "crash": the
\* operator ends between two cycles, within a cycle.
Events == {"admin", "edit", "moved", "call", "lost", "save", "overlap", "restart", "crash"}

Repos == 1 .. NumRepos
Cycles == 1 .. MaxCycles
Endpoints == {c.endpoint : c \in Configs}
URLs == {c.url : c \in Configs}

\* A topic of one Forgejo.
Place(c) == <<c.endpoint, c.topic>>
Places == {Place(c) : c \in Configs}

Foreign == "foreign"  \* the URL of a hook that is none of the operator's business
NoConfig == [url |-> "none"]  \* of a syncer that does not exist

ASSUME WebhookSyncAssumption ==
    /\ NumRepos \in Nat \ {0}
    /\ Base \in [Endpoints -> Nat]
    /\ InitialTopics \subseteq [Places -> SUBSET Repos]
    /\ PageLimit \in Nat \ {0}
    /\ MaxCycles \in Nat \ {0}
    /\ MaxTopics \in Nat
    /\ MaxEvents \in Nat
    /\ Foreign \notin URLs
    /\ NoConfig \notin Configs

\* Syncer objects: the one the reconciler keeps and those that cycles which started
\* before still work with.
Slots == 0 .. MaxCycles

VARIABLES
    topics,     \* the repositories that carry a topic
    admins,     \* those the sync user administrates at each Forgejo
    hooks,      \* the hooks in place
    lastHook,   \* the highest hook id each Forgejo gave out
    config,     \* the configuration in the RenovateJob
    enabled,    \* whether it enables the sync
    stored,     \* the annotation at the API server
    cached,     \* the annotation in the informer cache
    settings,   \* of each syncer object: the configuration it was made from
    managed,    \* of each syncer object: managedRepos
    current,    \* webhookSyncers[name]
    using,      \* the syncer object of each running cycle
    pc,         \* where each cycle is
    page,       \* the page of the search it is at
    topicRepos, adminRepos,  \* what its search has found
    todo,       \* the repositories it has still to ensure or to clean
    cur,        \* the repository it is creating a hook for
    copy,       \* the copy of managedRepos it removes by, then the one it saves
    changes,    \* the changes of topics so far
    events,     \* the other outside events so far
    happened    \* what they were

forgejo == <<topics, admins, hooks, lastHook>>
spec == <<config, enabled>>
annotation == <<stored, cached>>
syncers == <<settings, managed, current>>
found == <<page, topicRepos, adminRepos>>
cycle == <<using, pc, found, todo, cur, copy>>
outside == <<changes, events, happened>>
vars == <<forgejo, spec, annotation, syncers, cycle, outside>>

NoHook == 0
NothingManaged == [r \in Repos |-> NoHook]
NoAnnotation == <<>>

Hook == [at : Endpoints, repo : Repos, id : Nat \ {0}, url : URLs \cup {Foreign}]
ManagedRepos == [Repos -> Nat]

PCs == {"idle", "search", "ensure", "create", "remove", "save"}

TypeOK ==
    /\ topics \in [Places -> SUBSET Repos]
    /\ admins \in [Endpoints -> SUBSET Repos]
    /\ hooks \subseteq Hook
    /\ lastHook \in [Endpoints -> Nat]
    /\ config \in Configs
    /\ enabled \in BOOLEAN
    /\ stored \in ManagedRepos \cup {NoAnnotation}
    /\ cached \in ManagedRepos \cup {NoAnnotation}
    /\ settings \in [Slots -> Configs \cup {NoConfig}]
    /\ managed \in [Slots -> ManagedRepos]
    /\ current \in Slots
    /\ using \in [Cycles -> Slots]
    /\ pc \in [Cycles -> PCs]
    /\ page \in [Cycles -> Nat \ {0}]
    /\ topicRepos \in [Cycles -> SUBSET Repos]
    /\ adminRepos \in [Cycles -> SUBSET Repos]
    /\ todo \in [Cycles -> SUBSET Repos]
    /\ cur \in [Cycles -> Repos \cup {0}]
    /\ copy \in [Cycles -> ManagedRepos]
    /\ changes \in 0 .. MaxTopics
    /\ events \in 0 .. MaxEvents
    /\ happened \subseteq Events

ForeignHook(e, r) == [at |-> e, repo |-> r, id |-> Base[e] + r, url |-> Foreign]

\* Somebody else has put a hook on each repository.
Init ==
    /\ topics \in InitialTopics
    /\ admins = [e \in Endpoints |-> Repos]
    /\ hooks = {ForeignHook(e, r) : e \in Endpoints, r \in Repos}
    /\ lastHook = [e \in Endpoints |-> Base[e] + NumRepos]
    /\ config \in Configs
    /\ enabled = TRUE
    /\ stored = NoAnnotation
    /\ cached = NoAnnotation
    /\ settings = [k \in Slots |-> NoConfig]
    /\ managed = [k \in Slots |-> NothingManaged]
    /\ current = 0
    /\ using = [c \in Cycles |-> 0]
    /\ pc = [c \in Cycles |-> "idle"]
    /\ page = [c \in Cycles |-> 1]
    /\ topicRepos = [c \in Cycles |-> {}]
    /\ adminRepos = [c \in Cycles |-> {}]
    /\ todo = [c \in Cycles |-> {}]
    /\ cur = [c \in Cycles |-> 0]
    /\ copy = [c \in Cycles |-> NothingManaged]
    /\ changes = 0
    /\ events = 0
    /\ happened = {}

Event(kind) ==
    /\ events < MaxEvents
    /\ events' = events + 1
    /\ happened' = happened \cup {kind}
    /\ UNCHANGED changes

Running == {c \in Cycles : pc[c] # "idle"}

-----------------------------------------------------------------------------
(* The reconciler: at least once a minute, also while cycles run.           *)

\* Defect: an annotation is not looked at.
ForgetState(annot) == NothingManaged

\* Defect: a missing annotation is handed on.
LoadAsIs(annot) == annot

\* An annotation that is missing counts as empty.
loadWebhookSyncState(annot) == IF annot = NoAnnotation THEN NothingManaged ELSE annot

InUse == {using[c] : c \in Running}

\* A new object takes the place of the old one, which the cycles that use it keep.
PutSyncer(made, repos) ==
    \E k \in Slots :
        /\ IF current \in InUse
           THEN k \notin InUse /\ \A j \in Slots : j < k => j \in InUse
           ELSE k = current
        /\ current' = k
        /\ settings' = [settings EXCEPT ![k] = made]
        /\ managed' = [managed EXCEPT ![k] = repos]

\* A new syncer takes over what the old one manages, or what the annotation says
\* if there is no old one, whichever Forgejo the ids come from.
ensureWebhookSyncer ==
    /\ \/ /\ ~enabled
          /\ settings[current] # NoConfig
          /\ PutSyncer(NoConfig, NothingManaged)
       \/ /\ enabled
          /\ settings[current] # config
          /\ PutSyncer(config, IF settings[current] # NoConfig
                               THEN managed[current]
                               ELSE loadWebhookSyncState(cached))
    /\ UNCHANGED <<forgejo, spec, annotation, cycle, outside>>

\* The configuration of the syncer of a cycle, and an update of what it manages.
Settings(c) == settings[using[c]]

Manage(c, repo, id) ==
    /\ managed' = [managed EXCEPT ![using[c]][repo] = id]
    /\ UNCHANGED <<settings, current>>

\* What a cycle knew is gone when it ends, and with it a syncer that nobody uses
\* any more; the others manage what repos says.
EndCycle(c, repos) ==
    LET kept == {current} \cup {using[d] : d \in Running \ {c}} IN
    /\ pc' = [pc EXCEPT ![c] = "idle"]
    /\ using' = [using EXCEPT ![c] = 0]
    /\ page' = [page EXCEPT ![c] = 1]
    /\ topicRepos' = [topicRepos EXCEPT ![c] = {}]
    /\ adminRepos' = [adminRepos EXCEPT ![c] = {}]
    /\ todo' = [todo EXCEPT ![c] = {}]
    /\ cur' = [cur EXCEPT ![c] = 0]
    /\ copy' = [copy EXCEPT ![c] = NothingManaged]
    /\ settings' = [k \in Slots |-> IF k \in kept THEN settings[k] ELSE NoConfig]
    /\ managed' = [k \in Slots |-> IF k \in kept THEN repos[k] ELSE NothingManaged]
    /\ UNCHANGED current

-----------------------------------------------------------------------------
(* RunOnce, at the end of the cron callback.                                *)

\* The callback takes the syncer there is.  Nothing keeps it from starting while
\* an earlier one still runs.
StartCycle(c) ==
    /\ pc[c] = "idle"
    /\ \A d \in Cycles : d < c => pc[d] # "idle"
    /\ settings[current] # NoConfig
    /\ pc' = [pc EXCEPT ![c] = "search"]
    /\ using' = [using EXCEPT ![c] = current]
    /\ IF Running = {} THEN UNCHANGED outside ELSE Event("overlap")
    /\ UNCHANGED <<forgejo, spec, annotation, syncers, found, todo, cur, copy>>

\* One page of the repositories that carry the topic now.
Position(tagged, repo) == Cardinality({r \in tagged : r <= repo})

PageOf(tagged, n) ==
    {r \in tagged : /\ (n - 1) * PageLimit < Position(tagged, r)
                    /\ Position(tagged, r) <= n * PageLimit}

\* Defect: the search ends with the first page.
FirstPageOnly(repos) == TRUE

\* A page that is not full ends the search.
LastPage(repos) == Cardinality(repos) < PageLimit

SearchPage(c) ==
    /\ pc[c] = "search"
    /\ LET repos == PageOf(topics[Place(Settings(c))], page[c])
           eligible == adminRepos[c] \cup (repos \cap admins[Settings(c).endpoint])
       IN
       /\ topicRepos' = [topicRepos EXCEPT ![c] = @ \cup repos]
       /\ adminRepos' = [adminRepos EXCEPT ![c] = eligible]
       /\ IF LastPage(repos)
          THEN /\ pc' = [pc EXCEPT ![c] = "ensure"]
               /\ page' = [page EXCEPT ![c] = 1]
               /\ todo' = [todo EXCEPT ![c] = eligible]
          ELSE /\ page' = [page EXCEPT ![c] = @ + 1]
               /\ UNCHANGED <<pc, todo>>
    /\ UNCHANGED <<forgejo, spec, annotation, syncers, using, cur, copy, outside>>

\* Any page that fails ends the cycle, and nothing is saved.
SearchFails(c) ==
    /\ pc[c] = "search"
    /\ Event("call")
    /\ EndCycle(c, managed)
    /\ UNCHANGED <<forgejo, spec, annotation>>

-----------------------------------------------------------------------------
(* ensureWebhook, for each repository the search found with permission.     *)

HooksFor(e, repo, url) == {h \in hooks : h.at = e /\ h.repo = repo /\ h.url = url}

\* Defect: whatever hook is there is taken for the operator's.
AnyHook(e, repo, url) == {h \in hooks : h.at = e /\ h.repo = repo}

\* Defect: the hooks in place are not compared with the URL.
NoneMatches(e, repo, url) == {}

MatchingHooks(e, repo, url) == HooksFor(e, repo, url)

Done(c, repo) == todo' = [todo EXCEPT ![c] = @ \ {repo}]

Administrated(c, repo) == repo \in admins[Settings(c).endpoint]

\* A hook with the URL is adopted; without one the next call creates it.
ListHooks(c, repo) ==
    /\ pc[c] = "ensure"
    /\ repo \in todo[c]
    /\ Administrated(c, repo)
    /\ Done(c, repo)
    /\ LET matching == MatchingHooks(Settings(c).endpoint, repo, Settings(c).url) IN
       \/ /\ \E h \in matching : Manage(c, repo, h.id)
          /\ UNCHANGED <<pc, cur>>
       \/ /\ matching = {}
          /\ pc' = [pc EXCEPT ![c] = "create"]
          /\ cur' = [cur EXCEPT ![c] = repo]
          /\ UNCHANGED syncers
    /\ UNCHANGED <<forgejo, spec, annotation, using, found, copy, outside>>

\* The call fails or the permission is gone: the repository is skipped.
ListHooksFails(c, repo) ==
    /\ pc[c] = "ensure"
    /\ repo \in todo[c]
    /\ \/ ~Administrated(c, repo) /\ UNCHANGED outside
       \/ Event("call")
    /\ Done(c, repo)
    /\ UNCHANGED <<forgejo, spec, annotation, syncers, using, pc, found, cur, copy>>

NewId(c) == lastHook[Settings(c).endpoint] + 1

PutHook(c) ==
    /\ hooks' = hooks \cup {[at |-> Settings(c).endpoint, repo |-> cur[c],
                             id |-> NewId(c), url |-> Settings(c).url]}
    /\ lastHook' = [lastHook EXCEPT ![Settings(c).endpoint] = NewId(c)]
    /\ UNCHANGED <<topics, admins>>

NextRepo(c) ==
    /\ pc' = [pc EXCEPT ![c] = "ensure"]
    /\ cur' = [cur EXCEPT ![c] = 0]
    /\ UNCHANGED <<using, found, todo, copy>>

CreateHook(c) ==
    /\ pc[c] = "create"
    /\ Administrated(c, cur[c])
    /\ PutHook(c)
    /\ Manage(c, cur[c], NewId(c))
    /\ NextRepo(c)
    /\ UNCHANGED <<spec, annotation, outside>>

\* An error leaves the repository unmanaged, whether the hook exists or not.
CreateHookFails(c) ==
    /\ pc[c] = "create"
    /\ \/ /\ ~Administrated(c, cur[c])
          /\ UNCHANGED <<forgejo, outside>>
       \/ /\ Event("call")
          /\ UNCHANGED forgejo
       \/ /\ Administrated(c, cur[c])
          /\ Event("lost")
          /\ PutHook(c)
    /\ NextRepo(c)
    /\ UNCHANGED <<spec, annotation, syncers>>

-----------------------------------------------------------------------------
(* The removal of hooks from managed repositories the search did not find.  *)

\* The repositories and the ids are fixed before the first removal.
BeginRemoval(c) ==
    /\ pc[c] = "ensure"
    /\ todo[c] = {}
    /\ pc' = [pc EXCEPT ![c] = "remove"]
    /\ copy' = [copy EXCEPT ![c] = managed[using[c]]]
    /\ todo' = [todo EXCEPT ![c] = {r \in Repos \ adminRepos[c] : managed[using[c]][r] # NoHook}]
    /\ UNCHANGED <<forgejo, spec, annotation, syncers, using, found, cur, outside>>

\* The repository still has the topic, but the user no longer administrates it:
\* the hook is left to be removed by hand.
GiveUpHook(c, repo) ==
    /\ pc[c] = "remove"
    /\ repo \in todo[c] \cap topicRepos[c]
    /\ Done(c, repo)
    /\ Manage(c, repo, NoHook)
    /\ UNCHANGED <<forgejo, spec, annotation, using, pc, found, cur, copy, outside>>

\* The hook with the id the cycle remembers, at the Forgejo its syncer talks to.
HookToDelete(c, repo) ==
    {h \in hooks : h.at = Settings(c).endpoint /\ h.repo = repo /\ h.id = copy[c][repo]}

TakeHook(c, repo) ==
    /\ hooks' = hooks \ HookToDelete(c, repo)
    /\ UNCHANGED <<topics, admins, lastHook>>

Deletable(c, repo) == Administrated(c, repo) /\ HookToDelete(c, repo) # {}

DeleteHook(c, repo) ==
    /\ pc[c] = "remove"
    /\ repo \in todo[c] \ topicRepos[c]
    /\ Deletable(c, repo)
    /\ TakeHook(c, repo)
    /\ Done(c, repo)
    /\ Manage(c, repo, NoHook)
    /\ UNCHANGED <<spec, annotation, using, pc, found, cur, copy, outside>>

\* An error, also that the hook does not exist, leaves the repository managed.
DeleteHookFails(c, repo) ==
    /\ pc[c] = "remove"
    /\ repo \in todo[c] \ topicRepos[c]
    /\ \/ /\ ~Deletable(c, repo)
          /\ UNCHANGED <<forgejo, outside>>
       \/ /\ Event("call")
          /\ UNCHANGED forgejo
       \/ /\ Deletable(c, repo)
          /\ Event("lost")
          /\ TakeHook(c, repo)
    /\ Done(c, repo)
    /\ UNCHANGED <<spec, annotation, syncers, using, pc, found, cur, copy>>

\* What is saved is a copy, too.
EndRemoval(c) ==
    /\ pc[c] = "remove"
    /\ todo[c] = {}
    /\ pc' = [pc EXCEPT ![c] = "save"]
    /\ copy' = [copy EXCEPT ![c] = managed[using[c]]]
    /\ UNCHANGED <<forgejo, spec, annotation, syncers, using, found, todo, cur, outside>>

-----------------------------------------------------------------------------
(* saveWebhookSyncState.                                                    *)

\* The RenovateJob comes from the cache; what it shows is not written again.
saveWebhookSyncState(c) ==
    /\ pc[c] = "save"
    /\ cached' = copy[c]
    /\ stored' = IF cached = copy[c] THEN stored ELSE copy[c]
    /\ EndCycle(c, managed)
    /\ UNCHANGED <<forgejo, spec, outside>>

\* The RenovateJob cannot be read: nothing is saved, nothing rolled back.
GetRenovateJobFails(c) ==
    /\ pc[c] = "save"
    /\ Event("save")
    /\ EndCycle(c, managed)
    /\ UNCHANGED <<forgejo, spec, annotation>>

\* The update fails, without a retry, or is applied and its answer lost.  The new
\* value is in the cache, and the syncer goes back to what the cache showed, if
\* it showed anything.
SaveFails(c) ==
    /\ pc[c] = "save"
    /\ cached # copy[c]
    /\ Event("save")
    /\ stored' \in {stored, copy[c]}
    /\ cached' = copy[c]
    /\ EndCycle(c, IF cached # NoAnnotation
                   THEN [managed EXCEPT ![using[c]] = cached]
                   ELSE managed)
    /\ UNCHANGED <<forgejo, spec>>

\* An event of the watch replaces the object in the cache.
Watch ==
    /\ cached # stored
    /\ cached' = stored
    /\ UNCHANGED <<forgejo, spec, stored, syncers, cycle, outside>>

-----------------------------------------------------------------------------
(* The users of Forgejo and of the cluster, and the end of the operator.    *)

Toggle(set, r) == IF r \in set THEN set \ {r} ELSE set \cup {r}

ChangeTopic(p, repo) ==
    /\ changes < MaxTopics
    /\ changes' = changes + 1
    /\ topics' = [topics EXCEPT ![p] = Toggle(@, repo)]
    /\ UNCHANGED <<admins, hooks, lastHook, spec, annotation, syncers, cycle, events, happened>>

ChangePermission(e, repo) ==
    /\ Event("admin")
    /\ admins' = [admins EXCEPT ![e] = Toggle(@, repo)]
    /\ UNCHANGED <<topics, hooks, lastHook, spec, annotation, syncers, cycle>>

\* Any field of the fingerprint changes, or the sync is switched on or off.
EditConfig ==
    /\ config' \in Configs
    /\ enabled' \in BOOLEAN
    /\ spec' # spec
    /\ Event(IF config'.endpoint # config.endpoint THEN "moved" ELSE "edit")
    /\ UNCHANGED <<forgejo, annotation, syncers, cycle>>

\* Syncers and cycles are lost; a new process reads the annotation.
Restart ==
    /\ Event(IF Running = {} THEN "restart" ELSE "crash")
    /\ settings' = [k \in Slots |-> NoConfig]
    /\ managed' = [k \in Slots |-> NothingManaged]
    /\ current' = 0
    /\ using' = [c \in Cycles |-> 0]
    /\ pc' = [c \in Cycles |-> "idle"]
    /\ page' = [c \in Cycles |-> 1]
    /\ topicRepos' = [c \in Cycles |-> {}]
    /\ adminRepos' = [c \in Cycles |-> {}]
    /\ todo' = [c \in Cycles |-> {}]
    /\ cur' = [c \in Cycles |-> 0]
    /\ copy' = [c \in Cycles |-> NothingManaged]
    /\ cached' = stored
    /\ UNCHANGED <<forgejo, spec, stored>>

CycleStep(c) ==
    \/ SearchPage(c)
    \/ \E r \in Repos : \/ ListHooks(c, r)
                        \/ ListHooksFails(c, r)
                        \/ GiveUpHook(c, r)
                        \/ DeleteHook(c, r)
                        \/ DeleteHookFails(c, r)
    \/ CreateHook(c) \/ CreateHookFails(c)
    \/ BeginRemoval(c) \/ EndRemoval(c)
    \/ saveWebhookSyncState(c)

Next ==
    \/ ensureWebhookSyncer
    \/ \E c \in Cycles : \/ StartCycle(c)
                         \/ CycleStep(c)
                         \/ SearchFails(c)
                         \/ GetRenovateJobFails(c)
                         \/ SaveFails(c)
    \/ Watch
    \/ \E r \in Repos : \/ \E p \in Places : ChangeTopic(p, r)
                        \/ \E e \in Endpoints : ChangePermission(e, r)
    \/ EditConfig
    \/ Restart

Spec == Init /\ [][Next]_vars

\* The reconciler runs, the schedule starts a cycle again and again once the
\* earlier ones are over, each cycle goes on, and the watch delivers.
Fairness ==
    /\ WF_vars(ensureWebhookSyncer)
    /\ WF_vars(Running = {} /\ StartCycle(1))
    /\ \A c \in Cycles : WF_vars(CycleStep(c))
    /\ WF_vars(Watch)

FairSpec == Spec /\ Fairness

-----------------------------------------------------------------------------
(* Properties.                                                              *)

\* However often a creation is interrupted, lost or repeated, however the sync is
\* reconfigured and whatever is remembered, a repository has one hook for a URL:
\* the next cycle recognises a hook it does not remember (sync.go:157-165).  Only
\* cycles that overlap may each create one after all of them saw none, so that
\* there are never more than callbacks run at once (sync.go:150-191).
NoDuplicateHooks ==
    \A e \in Endpoints : \A r \in Repos : \A u \in URLs :
        Cardinality(HooksFor(e, r, u)) <= IF "overlap" \in happened THEN MaxCycles ELSE 1

\* As long as the sync stays with one Forgejo, only the operator's own hooks are
\* deleted: the id it remembers for a repository never comes to mean a hook of
\* somebody else, neither through adoption nor through an old annotation nor
\* through a cycle that overlaps (sync.go:128, 158-163).  After a move ids of one
\* Forgejo are used at the other (renovatejob_controller.go:227-237).
ForeignHooksUntouched ==
    "moved" \notin happened =>
        \A e \in Endpoints : \A r \in Repos : HooksFor(e, r, Foreign) # {}

\* In the end every repository with topic and permission at the configured Forgejo
\* has the hook, whatever failed or overlapped on the way and whatever was removed
\* because a page of the search shifted under the cycle (sync.go:82-95,
\* client.go:88-123).
HooksConverge ==
    <>[](enabled => \A r \in topics[Place(config)] \cap admins[config.endpoint] :
                        HooksFor(config.endpoint, r, config.url) # {})

\* Nothing has happened that may make the operator forget a hook: no permission
\* or configuration was changed, no creation or save got lost, no cycle was cut
\* short, and no two of them created a hook each.
Remembering ==
    happened \cap {"admin", "edit", "moved", "lost", "save", "overlap", "crash"} = {}

\* Then no hook of the operator stays on a repository that lost its topic,
\* although calls fail, topics change during a cycle and the operator restarts
\* between cycles (sync.go:97-137, renovatejob_controller.go:227-239, 260-273).
OptedOutReposCleanedUp ==
    <>[](Remembering => \A r \in Repos \ topics[Place(config)] :
                            \A u \in URLs : HooksFor(config.endpoint, r, u) = {})
=============================================================================
