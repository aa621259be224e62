------------------------- MODULE WebhookServerProofs -------------------------
(***************************************************************************)
(* Theorems about WebhookServer, for every set of texts, keys, secrets and *)
(* configurations, and every number of requests under way.                 *)
(***************************************************************************)
EXTENDS WebhookServer, FiniteSetTheorems, WellFoundedInduction, TLAPS

-----------------------------------------------------------------------------
(* The table of projects.                                                   *)

\* A project has a priority only while it is scheduled.
Table == {table \in [Projects -> ProjectEntry] :
             \A p \in Projects : table[p].priority > 0 => table[p].status = "scheduled"}

\* The writes of the webhook and of the executor.
Writes == {ByWebhook} \cup {[status |-> s, priority |-> 0] : s \in {"running", "completed", "failed"}}

\* The transition rules keep an entry well formed (projectStatus.go:11-70).
LEMMA TransitionType ==
    ASSUME NEW entry \in ProjectEntry, entry.priority > 0 => entry.status = "scheduled",
           NEW desired \in Writes
    PROVE  /\ GetUpdateStatusForProject(entry, desired) \in ProjectEntry
           /\ GetUpdateStatusForProject(entry, desired).priority > 0 =>
                 GetUpdateStatusForProject(entry, desired).status = "scheduled"
  BY DEF GetUpdateStatusForProject, validateProjectStatusScheduled, validateProjectStatusRunning,
         validateProjectStatusCompleted, validateProjectStatusFailed, HigherOf, ProjectEntry,
         Statuses, JobStatuses, Priorities, Writes, ByWebhook

\* UpdateProjectStatus keeps the table well formed (renovateJobManager.go:184-214).
LEMMA UpdateType ==
    ASSUME NEW table \in Table, NEW p, NEW desired \in Writes
    PROVE  UpdateProjectStatus(table, p, desired) \in Table
  <1> DEFINE new == IF table[p].status = "absent"
                    THEN [status |-> desired.status, priority |-> desired.priority]
                    ELSE GetUpdateStatusForProject(table[p], desired)
  <1>1. UpdateProjectStatus(table, p, desired) = [table EXCEPT ![p] = new]
    BY DEF UpdateProjectStatus
  <1>2. CASE p \in Projects
    <2>1. new \in ProjectEntry /\ (new.priority > 0 => new.status = "scheduled")
      <3>1. CASE table[p].status = "absent"
        BY <3>1 DEF Writes, ByWebhook, ProjectEntry, Statuses, JobStatuses, Priorities
      <3>2. CASE table[p].status # "absent"
        BY <1>2, <3>2, TransitionType DEF Table
      <3> QED
        BY <3>1, <3>2
    <2> HIDE DEF new
    <2> QED
      BY <1>1, <1>2, <2>1 DEF Table
  <1>3. CASE p \notin Projects
    <2> HIDE DEF new
    <2>1. [table EXCEPT ![p] = new] = table
      BY <1>3 DEF Table
    <2> QED
      BY <1>1, <2>1
  <1> QED
    BY <1>2, <1>3

-----------------------------------------------------------------------------
(* The requests under way.                                                  *)

RequestsOK ==
    /\ \A r \in requests : r \in Request
    /\ \A r, s \in requests : r.id = s.id => r = s

\* A new request gets an id that no other has.
LEMMA LeastFreeId ==
    ASSUME MaxRequests \in Nat, FreeIds # {}
    PROVE  (CHOOSE i \in FreeIds : \A j \in FreeIds : i <= j) \in FreeIds
  <1>1. FreeIds \subseteq Nat
    BY DEF FreeIds
  <1> DEFINE less == {ss \in Nat \X Nat : ss[1] < ss[2]}
  <1>2. IsWellFoundedOn(less, Nat)
    BY NatLessThanWellFounded DEF OpToRel
  <1>3. \A x, y \in Nat : y < x => <<y, x>> \in less
    OBVIOUS
  <1> HIDE DEF less
  <1>4. \E x \in FreeIds : \A y \in FreeIds : ~(<<y, x>> \in less)
    BY <1>1, <1>2, WFMin
  <1>5. PICK x \in FreeIds : \A y \in FreeIds : ~(<<y, x>> \in less)
    BY <1>4
  <1>6. ASSUME NEW y \in FreeIds PROVE x <= y
    <2>1. x \in Nat /\ y \in Nat
      BY <1>1
    <2>2. ~(y < x)
      BY <1>3, <1>5, <2>1
    <2> QED
      BY <2>1, <2>2
  <1> QED
    BY <1>6

\* What becomes of the fields of a request that goes on.
LEMMA GoesFields ==
    ASSUME NEW r \in Request, NEW place \in Stages \cup Codes
    PROVE  /\ [r EXCEPT !.at = place] \in Request
           /\ [r EXCEPT !.at = place].at = place
           /\ [r EXCEPT !.at = place].id = r.id
           /\ [r EXCEPT !.at = place].payload = r.payload
           /\ [r EXCEPT !.at = place].credential = r.credential
           /\ [r EXCEPT !.at = place].counted = r.counted
           /\ [r EXCEPT !.at = place].facts = r.facts
  BY DEF Request

\* A request that goes on to another stage leaves the requests well formed.
LEMMA GoesType ==
    ASSUME RequestsOK, NEW r \in requests, NEW place \in Stages \cup Codes, Goes(r, place)
    PROVE  RequestsOK'
  <1> DEFINE new == [r EXCEPT !.at = place]
  <1>1. new \in Request /\ new.id = r.id
    BY GoesFields DEF RequestsOK
  <1>2. requests' = (requests \ {r}) \cup {new}
    BY DEF Goes
  <1> HIDE DEF new
  <1> QED
    BY <1>1, <1>2 DEF RequestsOK

\* The check a header calls for, and where authMiddleware sends its request.
LEMMA StageRange ==
    ASSUME NEW r \in Request
    PROVE  LET h == r.credential.header IN
           /\ h \in Headers
           /\ CheckOf(h) \in {"token", "signature", "unauthorized"}
           /\ CheckOf(h) = "token" <=> h = "token"
           /\ CheckOf(h) = "signature" <=> h \in {"signature", "bare"}
           /\ \A m : NextStage(m, h) \in {"handling", "token", "signature", "unauthorized"}
  <1> DEFINE h == r.credential.header
  <1>1. h \in Headers
    BY WebhookServerAssumption DEF Request
  <1> HIDE DEF h
  <1>2. /\ CheckOf(h) \in {"token", "signature", "unauthorized"}
        /\ CheckOf(h) = "token" <=> h = "token"
        /\ CheckOf(h) = "signature" <=> h \in {"signature", "bare"}
    BY <1>1 DEF CheckOf, Headers
  <1>3. \A m : NextStage(m, h) \in {"handling", "token", "signature", "unauthorized"}
    BY <1>2 DEF NextStage
  <1> QED
    BY <1>1, <1>2, <1>3 DEF h

\* The facts about a moment are facts.
LEMMA FactsType ==
    ASSUME NEW m, NEW tokens, NEW credential
    PROVE  FactsNow(m, tokens, credential) \in SUBSET Facts
  BY DEF FactsNow, Facts

\* Counting for or against a project keeps the type of the credit.
LEMMA CreditType ==
    ASSUME NEW c \in [Projects -> Int], NEW p
    PROVE  /\ [c EXCEPT ![p] = @ + 1] \in [Projects -> Int]
           /\ [c EXCEPT ![p] = @ - 1] \in [Projects -> Int]
  <1>1. CASE p \in Projects
    BY <1>1
  <1>2. CASE p \notin Projects
    BY <1>2
  <1> QED
    BY <1>1, <1>2

\* A request that is sent leaves the requests and the credit well formed.
LEMMA SendType ==
    ASSUME TypeOK, NEW payload \in Payload, NEW counted \in BOOLEAN, Send(payload, counted)
    PROVE  RequestsOK' /\ credit' \in [Projects -> Int]
  <1> DEFINE new == [id         |-> CHOOSE i \in FreeIds : \A j \in FreeIds : i <= j,
                     payload    |-> payload,
                     credential |-> sender,
                     at         |-> "sent",
                     counted    |-> counted,
                     facts      |-> FactsNow(mode, secret, sender)]
  <1>1. requests' = requests \cup {new}
    BY DEF Send
  <1>2. new.id \in FreeIds
    BY LeastFreeId, WebhookServerAssumption DEF Send
  <1>3. new \in Request
    <2>1. new.id \in 1 .. MaxRequests
      BY <1>2 DEF FreeIds
    <2>2. FactsNow(mode, secret, sender) \in SUBSET Facts
      BY FactsType
    <2> QED
      BY <2>1, <2>2 DEF Request, TypeOK, Stages
  <1>4. credit' \in [Projects -> Int]
    BY CreditType DEF Send, TypeOK
  <1> HIDE DEF new
  <1> QED
    BY <1>1, <1>2, <1>3, <1>4 DEF TypeOK, RequestsOK, FreeIds

\* What a change of the configuration makes of a request.
Seen(r, m, tokens) ==
    IF r.at \in Codes THEN r
    ELSE [r EXCEPT !.facts = @ \cup FactsNow(m, tokens, r.credential)
                                \cup (IF m # mode THEN {"switched"} ELSE {})]

\* It leaves everything but the facts alone.
LEMMA SeenFields ==
    ASSUME NEW r \in Request, NEW m, NEW tokens
    PROVE  /\ Seen(r, m, tokens) \in Request
           /\ Seen(r, m, tokens).id = r.id
           /\ Seen(r, m, tokens).at = r.at
           /\ Seen(r, m, tokens).payload = r.payload
           /\ Seen(r, m, tokens).credential = r.credential
           /\ Seen(r, m, tokens).counted = r.counted
           /\ r.facts \subseteq Seen(r, m, tokens).facts
           /\ r.at \notin Codes =>
                 /\ FactsNow(m, tokens, r.credential) \subseteq Seen(r, m, tokens).facts
                 /\ m # mode => "switched" \in Seen(r, m, tokens).facts
  <1> DEFINE facts == r.facts \cup FactsNow(m, tokens, r.credential)
                              \cup (IF m # mode THEN {"switched"} ELSE {})
  <1>1. facts \in SUBSET Facts
    BY FactsType DEF Request, Facts
  <1>2. Seen(r, m, tokens) = IF r.at \in Codes THEN r ELSE [r EXCEPT !.facts = facts]
    BY DEF Seen
  <1>3. /\ r.facts \subseteq facts
        /\ FactsNow(m, tokens, r.credential) \subseteq facts
        /\ m # mode => "switched" \in facts
    OBVIOUS
  <1> HIDE DEF facts
  <1> QED
    BY <1>1, <1>2, <1>3 DEF Request

\* A change of the configuration leaves the requests well formed.
LEMMA ConfigureType ==
    ASSUME RequestsOK, NEW m, NEW tokens, NEW credential, Configure(m, tokens, credential)
    PROVE  /\ RequestsOK'
           /\ requests' = {Seen(r, m, tokens) : r \in requests}
  <1>1. requests' = {Seen(r, m, tokens) : r \in requests}
    BY DEF Configure, Seen
  <1> QED
    BY <1>1, SeenFields DEF RequestsOK

\* A request that is sent again leaves the requests and the credit well formed.
LEMMA RedeliverType ==
    ASSUME TypeOK, NEW r \in requests, Redeliver(r)
    PROVE  RequestsOK' /\ credit' \in [Projects -> Int]
  <1> DEFINE new == [r EXCEPT !.at = "sent", !.credential = sender,
                              !.facts = FactsNow(mode, secret, sender)]
  <1>1. requests' = (requests \ {r}) \cup {new}
    BY DEF Redeliver
  <1>2. new \in Request /\ new.id = r.id
    <2>1. FactsNow(mode, secret, sender) \in SUBSET Facts
      BY FactsType
    <2> QED
      BY <2>1 DEF TypeOK, Request, Stages
  <1>3. credit' \in [Projects -> Int]
    BY CreditType DEF Redeliver, TypeOK
  <1> HIDE DEF new
  <1> QED
    BY <1>1, <1>2, <1>3 DEF TypeOK, RequestsOK

\* What the edits of people and of Renovate make of a description is one.
LEMMA EditedBodies ==
    ASSUME body \in [Texts -> Body], NEW t \in Texts
    PROVE  /\ \A item \in Items : [body[t] EXCEPT !.ticked = @ \cup {item}] \in Body
           /\ \A items : [body[t] EXCEPT !.ticked = @ \ items] \in Body
           /\ [empty |-> FALSE, marker |-> FALSE, ticked |-> t.boxes \cup t.notes] \in Body
  <1>1. t.boxes \cup t.notes \subseteq Items
    BY DEF Items
  <1>2. body[t] \in Body
    OBVIOUS
  <1> QED
    BY <1>1, <1>2 DEF Body

\* The payload of an edit is one (github.go:21-80, gitlab.go:21-60, forgejo.go:21-67).
LEMMA PayloadType ==
    ASSUME TypeOK, NEW t \in Texts, NEW kind \in {"edited", "retitled", "closed", "reopened"},
           NEW after \in Body
    PROVE  /\ PayloadOf(t, kind, after) \in Payload
           /\ MayStartRun(t, kind, after) \in BOOLEAN
  <1>0. TickedBy(t, after) \subseteq Boxes
    BY DEF TickedBy, Boxes
  <1>1. t.kind \in {"pull_request", "issue"} /\ t.project \in Projects
    BY WebhookServerAssumption DEF Projects
  <1>2. ActionOf(kind) \in Actions
    BY DEF ActionOf, Actions
  <1>3. CurrentOf(kind, after) \in Body
    BY DEF CurrentOf, NoBody, Body
  <1>4. PayloadOf(t, kind, after) \in Payload
    BY <1>0, <1>1, <1>2, <1>3 DEF PayloadOf, Payload, TypeOK
  <1>5. MayStartRun(t, kind, after) \in BOOLEAN
    BY DEF MayStartRun, AsksForRun, LeavesTick
  <1> QED
    BY <1>4, <1>5

-----------------------------------------------------------------------------
(* Type correctness.                                                        *)

\* TypeOK, one variable at a time.
LEMMA TypeParts ==
    TypeOK <=> /\ platform \in Platforms
               /\ body \in [Texts -> Body]
               /\ mode \in Modes /\ secret \in Secrets \cup {Missing} /\ sender \in Credentials
               /\ projects \in Table
               /\ due \in [Projects -> SUBSET Boxes]
               /\ RequestsOK
               /\ edits \in 0 .. MaxEdits /\ events \in 0 .. MaxEvents
               /\ credit \in [Projects -> Int]
               /\ excused \subseteq Boxes
  BY DEF TypeOK, Table, RequestsOK

\* An edit changes the description of one text and sends a request about it.
LEMMA EditType ==
    ASSUME TypeOK, NEW t \in Texts, NEW kind \in {"edited", "retitled", "closed", "reopened"},
           NEW after \in Body, Edit(t, kind, after), excused' \subseteq Boxes
    PROVE  TypeOK'
  <1>1. RequestsOK' /\ credit' \in [Projects -> Int]
    BY PayloadType, SendType DEF Edit, SendEdit
  <1>2. body' \in [Texts -> Body]
    BY DEF Edit, TypeOK
  <1>3. edits' \in 0 .. MaxEdits
    BY WebhookServerAssumption DEF Edit, TypeOK
  <1>4. UNCHANGED <<platform, mode, secret, sender, projects, due, events>>
    BY DEF Edit, admin
  <1> QED
    BY <1>1, <1>2, <1>3, <1>4 DEF TypeOK, RequestsOK

\* Every variable keeps its type.
THEOREM WebhookTypeCorrect == Spec => []TypeOK
  <1> USE WebhookServerAssumption
  <1>1. Init => TypeOK
    <2> SUFFICES ASSUME Init PROVE TypeOK
      OBVIOUS
    <2>1. platform \in Platforms /\ mode \in Modes
      BY DEF Init
    <2>2. secret \in Secrets \cup {Missing}
      BY DEF Init
    <2>3. sender \in Credentials
      BY DEF Init
    <2>4. body \in [Texts -> Body]
      <3>1. \A t \in Texts : \A ticked : Written(t, ticked) \in Body
        BY DEF Written, Body, Items
      <3> QED
        BY <3>1 DEF Init
    <2>5. projects \in Table
      BY DEF Init, Table, NotListed, ProjectEntry, Statuses, Priorities
    <2>6. due \in [Projects -> SUBSET Boxes]
      BY DEF Init
    <2>7. RequestsOK
      BY DEF Init, RequestsOK
    <2>8. edits \in 0 .. MaxEdits /\ events \in 0 .. MaxEvents
      BY DEF Init
    <2>9. credit \in [Projects -> Int] /\ excused \subseteq Boxes
      BY DEF Init
    <2> QED
      BY <2>1, <2>2, <2>3, <2>4, <2>5, <2>6, <2>7, <2>8, <2>9, TypeParts
  <1>2. TypeOK /\ [Next]_vars => TypeOK'
    <2> SUFFICES ASSUME TypeOK, [Next]_vars PROVE TypeOK'
      OBVIOUS
    <2>0. /\ RequestsOK /\ projects \in Table
          /\ \A r \in requests : r \in Request /\ r.payload.about \subseteq Boxes
      BY TypeParts DEF RequestsOK, Request, Payload
    <2>1. ASSUME NEW t \in Texts, NEW item \in Items, Tick(t, item) \/ Untick(t, item)
          PROVE  TypeOK'
      <3>1. /\ [body[t] EXCEPT !.ticked = @ \cup {item}] \in Body
            /\ [body[t] EXCEPT !.ticked = @ \ {item}] \in Body
        BY EditedBodies DEF TypeOK
      <3>2. excused' \subseteq Boxes
        BY <2>1 DEF Tick, Untick, TypeOK
      <3> QED
        BY <2>1, <3>1, <3>2, EditType DEF Tick, Untick
    <2>2. ASSUME NEW t \in Texts, Rewrite(t) PROVE TypeOK'
      <3>1. [empty |-> FALSE, marker |-> FALSE, ticked |-> t.boxes \cup t.notes] \in Body
        BY EditedBodies DEF TypeOK
      <3>2. excused' \subseteq Boxes
        BY <2>2 DEF Rewrite, TypeOK
      <3> QED
        BY <2>2, <3>1, <3>2, EditType DEF Rewrite
    <2>3. ASSUME NEW t \in Texts, Serve(t) PROVE TypeOK'
      <3>1. t.project \in Projects
        BY DEF Projects
      <3>2. due' \in [Projects -> SUBSET Boxes]
        BY <2>3, <3>1 DEF Serve, TypeOK
      <3>3. UNCHANGED <<platform, mode, secret, sender, projects, edits, events, excused>>
        BY <2>3 DEF Serve, admin
      <3>4. body' \in [Texts -> Body] /\ RequestsOK' /\ credit' \in [Projects -> Int]
        <4> DEFINE after == [body[t] EXCEPT !.ticked = @ \ DueIn(t)]
        <4>1. after \in Body
          BY EditedBodies DEF TypeOK
        <4>2. \/ body' = [body EXCEPT ![t] = after] /\ SendEdit(t, "edited", after)
              \/ UNCHANGED <<body, requests, credit>>
          BY <2>3 DEF Serve
        <4> HIDE DEF after
        <4>3. CASE body' = [body EXCEPT ![t] = after] /\ SendEdit(t, "edited", after)
          <5>1. body' \in [Texts -> Body]
            BY <4>1, <4>3 DEF TypeOK
          <5> QED
            BY <4>1, <4>3, <5>1, PayloadType, SendType DEF SendEdit
        <4>4. CASE UNCHANGED <<body, requests, credit>>
          BY <2>0, <4>4 DEF TypeOK, RequestsOK
        <4> QED
          BY <4>2, <4>3, <4>4
      <3> QED
        BY <3>2, <3>3, <3>4 DEF TypeOK, RequestsOK
    <2>20. ASSUME NEW t \in Texts, Refresh(t) PROVE TypeOK'
      <3>1. body[t] \in Body
        BY DEF TypeOK
      <3>2. RequestsOK' /\ credit' \in [Projects -> Int]
        BY <2>20, <3>1, PayloadType, SendType DEF Refresh, SendEdit
      <3>3. events' \in 0 .. MaxEvents
        BY <2>20 DEF Refresh, TypeOK
      <3>4. UNCHANGED <<platform, body, edits, mode, secret, sender, projects, due, excused>>
        BY <2>20 DEF Refresh, people, admin
      <3> QED
        BY <3>2, <3>3, <3>4 DEF TypeOK, RequestsOK
    <2>4. ASSUME NEW t \in Texts, NEW kind \in {"retitled", "closed", "reopened"},
                 EditOther(t, kind)
          PROVE  TypeOK'
      <3>1. body[t] \in Body /\ excused' \subseteq Boxes
        BY <2>4 DEF EditOther, TypeOK
      <3> QED
        BY <2>4, <3>1, EditType DEF EditOther
    <2>5. ASSUME NEW payload \in Junk \cup {CallSchedule(p) : p \in Projects \cup {NoProject}},
                 SendPlain(payload)
          PROVE  TypeOK'
      <3>1. payload \in Payload
        <4>1. "edited" \in Actions /\ "none" \in Actions /\ NoBody \in Body
          BY DEF Actions, NoBody, Body
        <4>2. platform \in Platforms
          BY DEF TypeOK
        <4>3. CASE payload \in Junk
          <5>1. PICK e \in {"other", "none"}, p \in Projects :
                   payload = [endpoint |-> platform, decodes |-> e # "none", action |-> "edited",
                              event |-> e, current |-> NoBody, project |-> p, about |-> {}]
            BY <4>3 DEF Junk
          <5>2. (e # "none") \in BOOLEAN
            OBVIOUS
          <5> QED
            BY <4>1, <4>2, <5>1, <5>2 DEF Payload
        <4>4. ASSUME NEW p \in Projects \cup {NoProject} PROVE CallSchedule(p) \in Payload
          BY <4>1 DEF CallSchedule, Payload
        <4> QED
          BY <4>3, <4>4
      <3>2. RequestsOK' /\ credit' \in [Projects -> Int]
        BY <2>5, <3>1, SendType DEF SendPlain
      <3>3. edits' \in 0 .. MaxEdits
        BY <2>5 DEF SendPlain, TypeOK
      <3>4. UNCHANGED <<platform, body, mode, secret, sender, projects, due, events, excused>>
        BY <2>5 DEF SendPlain, admin
      <3> QED
        BY <3>2, <3>3, <3>4 DEF TypeOK, RequestsOK
    <2>6. ASSUME NEW r \in requests, authMiddleware(r) PROVE TypeOK'
      <3>1. NextStage(mode, r.credential.header) \in Stages \cup Codes
        BY <2>0, StageRange DEF Stages, Codes
      <3>2. RequestsOK'
        BY <2>0, <2>6, <3>1, GoesType DEF authMiddleware
      <3>3. excused' \subseteq Boxes
        BY <2>0, <2>6 DEF authMiddleware, Excuse, TypeOK
      <3>4. UNCHANGED <<platform, body, edits, mode, secret, sender, projects, due, events, credit>>
        BY <2>6 DEF authMiddleware, people, admin
      <3> QED
        BY <3>2, <3>3, <3>4 DEF TypeOK, RequestsOK
    <2>7. ASSUME NEW r \in requests, Validate(r) PROVE TypeOK'
      <3>1. Goes(r, "handling") \/ Goes(r, "unauthorized")
        BY <2>7 DEF Validate
      <3>2. RequestsOK'
        BY <2>0, <3>1, GoesType DEF Stages, Codes
      <3>3. excused' \subseteq Boxes
        <4>1. UNCHANGED excused \/ Excuse(r)
          BY <2>7 DEF Validate
        <4> QED
          BY <2>0, <4>1 DEF Excuse, TypeOK
      <3>4. UNCHANGED <<platform, body, edits, mode, secret, sender, projects, due, events, credit>>
        BY <2>7 DEF Validate, people, admin
      <3> QED
        BY <3>2, <3>3, <3>4 DEF TypeOK, RequestsOK
    <2>8. ASSUME NEW r \in requests, Filtered(r) PROVE TypeOK'
      <3>1. Goes(r, "bad") \/ Goes(r, "ignored")
        BY <2>8 DEF Filtered
      <3>2. RequestsOK'
        BY <2>0, <3>1, GoesType DEF Codes
      <3>3. UNCHANGED <<platform, body, edits, mode, secret, sender, projects, due, events, credit,
                        excused>>
        BY <2>8 DEF Filtered, people, admin
      <3> QED
        BY <3>2, <3>3 DEF TypeOK, RequestsOK
    <2>9. ASSUME NEW r \in requests, ScheduleProject(r) PROVE TypeOK'
      <3>1. projects' \in Table
        BY <2>0, <2>9, UpdateType DEF ScheduleProject, Writes
      <3>2. RequestsOK'
        BY <2>0, <2>9, GoesType DEF ScheduleProject, Codes
      <3>3. excused' \subseteq Boxes
        BY <2>0, <2>9 DEF ScheduleProject, Excuse, TypeOK
      <3>4. UNCHANGED <<platform, body, edits, mode, secret, sender, due, events, credit>>
        BY <2>9 DEF ScheduleProject, people, admin
      <3> QED
        BY <3>1, <3>2, <3>3, <3>4 DEF TypeOK, RequestsOK, Table
    <2>10. ASSUME NEW r \in requests, ScheduleFails(r) PROVE TypeOK'
      <3>1. projects' \in Table
        BY <2>0, <2>10, UpdateType DEF ScheduleFails, Writes
      <3>2. RequestsOK'
        BY <2>0, <2>10, GoesType DEF ScheduleFails, Codes
      <3>3. excused' \subseteq Boxes
        BY <2>0, <2>10 DEF ScheduleFails, Excuse, TypeOK
      <3>4. events' \in 0 .. MaxEvents
        BY <2>10 DEF ScheduleFails, TypeOK
      <3>5. UNCHANGED <<platform, body, edits, mode, secret, sender, due, credit>>
        BY <2>10 DEF ScheduleFails, people, admin
      <3> QED
        BY <3>1, <3>2, <3>3, <3>4, <3>5 DEF TypeOK, RequestsOK, Table
    <2>11. ASSUME NEW r \in requests, Lose(r) \/ Answered(r) PROVE TypeOK'
      <3>1. RequestsOK' /\ excused' \subseteq Boxes
        BY <2>0, <2>11 DEF Lose, Answered, Excuse, RequestsOK, TypeOK
      <3>2. events' \in 0 .. MaxEvents
        BY <2>11 DEF Lose, Answered, TypeOK
      <3>3. UNCHANGED <<platform, body, edits, mode, secret, sender, projects, due, credit>>
        BY <2>11 DEF Lose, Answered, people, admin
      <3> QED
        BY <3>1, <3>2, <3>3 DEF TypeOK, RequestsOK
    <2>12. ASSUME NEW r \in requests, Redeliver(r) PROVE TypeOK'
      <3>1. RequestsOK' /\ credit' \in [Projects -> Int]
        BY <2>12, RedeliverType
      <3>2. events' \in 0 .. MaxEvents
        BY <2>12 DEF Redeliver, TypeOK
      <3>3. UNCHANGED <<platform, body, edits, mode, secret, sender, projects, due, excused>>
        BY <2>12 DEF Redeliver, people, admin
      <3> QED
        BY <3>1, <3>2, <3>3 DEF TypeOK, RequestsOK
    <2>13. ASSUME NEW m \in Modes, NEW tokens \in Secrets \cup {Missing},
                  NEW credential \in Credentials, Configure(m, tokens, credential),
                  projects' \in Table, due' \in [Projects -> SUBSET Boxes],
                  excused' \subseteq Boxes
           PROVE  TypeOK'
      <3>1. RequestsOK'
        BY <2>0, <2>13, ConfigureType
      <3>2. mode' = m /\ secret' = tokens /\ sender' = credential
        BY <2>13 DEF Configure
      <3>3. events' \in 0 .. MaxEvents
        BY <2>13 DEF Configure, TypeOK
      <3>4. UNCHANGED <<platform, body, edits, credit>>
        BY <2>13 DEF Configure, people
      <3> QED
        BY <2>13, <3>1, <3>2, <3>3, <3>4 DEF TypeOK, RequestsOK, Table
    <2>14. CASE EditJob
      <3>1. UNCHANGED <<projects, due, excused>>
        BY <2>14 DEF EditJob
      <3>2. projects' \in Table /\ due' \in [Projects -> SUBSET Boxes] /\ excused' \subseteq Boxes
        BY <2>0, <3>1 DEF TypeOK
      <3>3. mode \in Modes /\ secret \in Secrets \cup {Missing} /\ sender \in Credentials
        BY DEF TypeOK
      <3> QED
        BY <2>13, <2>14, <3>2, <3>3 DEF EditJob
    <2>15. CASE DeleteJob
      <3>1. projects' \in Table /\ due' \in [Projects -> SUBSET Boxes] /\ excused' \subseteq Boxes
        BY <2>15 DEF DeleteJob, Table, NotListed, ProjectEntry, Statuses, Priorities
      <3>2. secret \in Secrets \cup {Missing} /\ sender \in Credentials /\ "gone" \in Modes
        BY DEF TypeOK, Modes
      <3> QED
        BY <2>13, <2>15, <3>1, <3>2 DEF DeleteJob
    <2>16. ASSUME NEW p \in Projects, StartRun(p) PROVE TypeOK'
      <3>1. projects' \in Table
        BY <2>0, <2>16, UpdateType DEF StartRun, Writes
      <3>2. credit' \in [Projects -> Int]
        BY <2>16, CreditType DEF StartRun, TypeOK
      <3>3. due' \in [Projects -> SUBSET Boxes]
        BY <2>16 DEF StartRun, TypeOK
      <3>4. UNCHANGED <<platform, body, edits, mode, secret, sender, requests, events, excused>>
        BY <2>16 DEF StartRun, people, admin
      <3> QED
        BY <3>1, <3>2, <3>3, <3>4 DEF TypeOK, Table
    <2>17. ASSUME NEW p \in Projects, FinishRun(p) PROVE TypeOK'
      <3>1. projects' \in Table
        BY <2>0, <2>17, UpdateType DEF FinishRun, Writes
      <3>2. UNCHANGED <<platform, body, edits, mode, secret, sender, due, requests, events, credit,
                        excused>>
        BY <2>17 DEF FinishRun, people, admin
      <3> QED
        BY <3>1, <3>2 DEF TypeOK, Table
    <2>18. ASSUME NEW p \in Projects, FailRun(p) PROVE TypeOK'
      <3>1. projects' \in Table
        BY <2>0, <2>18, UpdateType DEF FailRun, Writes
      <3>2. due' \in [Projects -> SUBSET Boxes] /\ excused' \subseteq Boxes
        BY <2>18 DEF FailRun, TypeOK
      <3>3. events' \in 0 .. MaxEvents
        BY <2>18 DEF FailRun, TypeOK
      <3>4. UNCHANGED <<platform, body, edits, mode, secret, sender, requests, credit>>
        BY <2>18 DEF FailRun, people, admin
      <3> QED
        BY <3>1, <3>2, <3>3, <3>4 DEF TypeOK, Table
    <2>19. CASE UNCHANGED vars
      BY <2>19 DEF vars, TypeOK
    <2> QED
      BY <2>1, <2>2, <2>3, <2>4, <2>5, <2>6, <2>7, <2>8, <2>9, <2>10, <2>11, <2>12, <2>14,
         <2>15, <2>16, <2>17, <2>18, <2>19, <2>20 DEF Next, Serving
  <1> QED
    BY <1>1, <1>2, PTL DEF Spec

-----------------------------------------------------------------------------
(* The checks of a request.  AcceptedWasAllowed and AllowedIsNotRefused are *)
(* not inductive: a request is let through on what the server reads now,   *)
(* so the facts of a request under way must cover the present, and at the  *)
(* second read it is under way for a reason that is still among them.      *)

\* The facts of a request under way hold what is so now.
KnowsPresent(r) ==
    r.at \notin Codes => FactsNow(mode, secret, r.credential) \subseteq r.facts

\* A request that waits for its second check came with that credential, when
\* the webhook was enabled and needed it, which it still does unless spec.webhook
\* was changed since.
WaitsForCheck(r) ==
    r.at \in {"token", "signature"} =>
        /\ r.at = CheckOf(r.credential.header)
        /\ "enabled" \in r.facts
        /\ mode = "authenticated" \/ "switched" \in r.facts

PassedChecks(r) ==
    r.at \in {"handling", "accepted"} =>
        /\ "enabled" \in r.facts
        /\ "allowed" \in r.facts \/ "switched" \in r.facts

FailedChecks(r) ==
    r.at = "unauthorized" => "not allowed" \in r.facts \/ "switched" \in r.facts

StageOf(r) == KnowsPresent(r) /\ WaitsForCheck(r) /\ PassedChecks(r) /\ FailedChecks(r)

StageInv == \A r \in requests : StageOf(r)

\* What is said of a request depends on the configuration only.
LEMMA SameStage ==
    ASSUME NEW r, StageOf(r), UNCHANGED <<mode, secret>>
    PROVE  StageOf(r)'
  BY DEF StageOf, KnowsPresent, WaitsForCheck, PassedChecks, FailedChecks, FactsNow, Enabled, Allowed

\* A request that was just sent.
LEMMA SentStage ==
    ASSUME NEW r, r.at = "sent", r.facts = FactsNow(mode, secret, r.credential),
           UNCHANGED <<mode, secret>>
    PROVE  StageOf(r)'
  <1>1. StageOf(r)
    BY DEF StageOf, KnowsPresent, WaitsForCheck, PassedChecks, FailedChecks
  <1> QED
    BY <1>1, SameStage

\* authMiddleware sends a request where its facts allow it to go (server.go:103-158).
LEMMA MiddlewareStage ==
    ASSUME NEW r \in Request, StageOf(r), r.at = "sent", mode \in Modes
    PROVE  StageOf([r EXCEPT !.at = NextStage(mode, r.credential.header)])
  <1> DEFINE place == NextStage(mode, r.credential.header)
             new == [r EXCEPT !.at = place]
  <1>0. /\ r.credential.header \in Headers
        /\ CheckOf(r.credential.header) = "token" <=> r.credential.header = "token"
        /\ CheckOf(r.credential.header) = "signature" <=>
              r.credential.header \in {"signature", "bare"}
        /\ CheckOf(r.credential.header) # "handling"
    BY StageRange
  <1>1. place \in {"handling", "token", "signature", "unauthorized"}
    BY StageRange
  <1>2. new.at = place /\ new.credential = r.credential /\ new.facts = r.facts
    BY <1>1, GoesFields DEF Stages, Codes
  <1>3. FactsNow(mode, secret, r.credential) \subseteq r.facts
    BY DEF StageOf, KnowsPresent, Codes
  <1>4. /\ Enabled(mode) => "enabled" \in r.facts
        /\ Allowed(mode, secret, r.credential) => "allowed" \in r.facts
        /\ ~Allowed(mode, secret, r.credential) => "not allowed" \in r.facts
    BY <1>3 DEF FactsNow
  <1>5. place = "handling" => mode = "open"
    BY <1>0 DEF NextStage
  <1>6. place \in {"token", "signature"} =>
           mode = "authenticated" /\ place = CheckOf(r.credential.header)
    BY <1>0 DEF NextStage, Modes
  <1>7. place = "unauthorized" => ~Allowed(mode, secret, r.credential)
    BY <1>0 DEF NextStage, Allowed, Modes
  <1> HIDE DEF place, new
  <1>8. KnowsPresent(new)
    BY <1>2, <1>3 DEF KnowsPresent
  <1>9. WaitsForCheck(new)
    BY <1>2, <1>4, <1>6 DEF WaitsForCheck, Enabled
  <1>10. PassedChecks(new)
    BY <1>1, <1>2, <1>4, <1>5 DEF PassedChecks, Enabled, Allowed
  <1>11. FailedChecks(new)
    BY <1>2, <1>4, <1>7 DEF FailedChecks
  <1>12. StageOf(new)
    BY <1>8, <1>9, <1>10, <1>11 DEF StageOf
  <1> QED
    BY <1>12 DEF new, place

\* The second check lets a request through, or refuses it, for a reason that is
\* among its facts (renovateJobManager.go:356-430).
LEMMA ValidateStage ==
    ASSUME NEW r \in Request, StageOf(r), r.at \in {"token", "signature"}
    PROVE  LET valid == IF r.at = "token" THEN IsWebhookTokenValid(r.credential)
                        ELSE IsWebhookSignatureValid(r.credential)
           IN  StageOf([r EXCEPT !.at = IF valid THEN "handling" ELSE "unauthorized"])
  <1> DEFINE valid == IF r.at = "token" THEN IsWebhookTokenValid(r.credential)
                      ELSE IsWebhookSignatureValid(r.credential)
             place == IF valid THEN "handling" ELSE "unauthorized"
             new == [r EXCEPT !.at = place]
  <1>1. new.at = place /\ new.credential = r.credential /\ new.facts = r.facts
    BY GoesFields DEF Stages, Codes
  <1>2. /\ r.at = CheckOf(r.credential.header)
        /\ "enabled" \in r.facts
        /\ mode = "authenticated" \/ "switched" \in r.facts
    BY DEF StageOf, WaitsForCheck
  <1>3. FactsNow(mode, secret, r.credential) \subseteq r.facts
    BY DEF StageOf, KnowsPresent, Codes
  <1>4. /\ Allowed(mode, secret, r.credential) => "allowed" \in r.facts
        /\ ~Allowed(mode, secret, r.credential) => "not allowed" \in r.facts
    BY <1>3 DEF FactsNow
  <1>5. mode = "authenticated" => (valid <=> Allowed(mode, secret, r.credential))
    <2>1. /\ r.at = "token" <=> r.credential.header = "token"
          /\ r.at = "signature" <=> r.credential.header \in {"signature", "bare"}
      BY <1>2, StageRange
    <2> QED
      BY <2>1 DEF Allowed, IsWebhookTokenValid, IsWebhookSignatureValid, getRenovateJobTokens
  <1> HIDE DEF valid
  <1>6. (valid => place = "handling") /\ (~valid => place = "unauthorized")
    OBVIOUS
  <1> HIDE DEF place, new
  <1>7. KnowsPresent(new)
    BY <1>1, <1>3 DEF KnowsPresent
  <1>8. WaitsForCheck(new)
    BY <1>1, <1>6 DEF WaitsForCheck
  <1>9. PassedChecks(new)
    BY <1>1, <1>2, <1>4, <1>5, <1>6 DEF PassedChecks
  <1>10. FailedChecks(new)
    BY <1>1, <1>2, <1>4, <1>5, <1>6 DEF FailedChecks
  <1>11. StageOf(new)
    BY <1>7, <1>8, <1>9, <1>10 DEF StageOf
  <1> QED
    BY <1>11 DEF new, place, valid

\* The handler answers a request it was given.
LEMMA HandlerStage ==
    ASSUME NEW r \in Request, StageOf(r), r.at = "handling",
           NEW place \in {"bad", "ignored", "accepted", "error"}
    PROVE  StageOf([r EXCEPT !.at = place])
  <1> DEFINE new == [r EXCEPT !.at = place]
  <1>1. new.at = place /\ new.credential = r.credential /\ new.facts = r.facts
    BY GoesFields DEF Codes
  <1> HIDE DEF new
  <1>2. StageOf(new)
    BY <1>1 DEF StageOf, KnowsPresent, WaitsForCheck, PassedChecks, FailedChecks, Codes
  <1> QED
    BY <1>2 DEF new

\* A request that goes on leaves the others alone.
LEMMA GoesStage ==
    ASSUME StageInv, NEW r \in requests, NEW place, Goes(r, place),
           StageOf([r EXCEPT !.at = place]), UNCHANGED <<mode, secret>>
    PROVE  StageInv'
  <1> DEFINE new == [r EXCEPT !.at = place]
  <1>1. requests' = (requests \ {r}) \cup {new}
    BY DEF Goes
  <1>2. StageOf(new)
    OBVIOUS
  <1> HIDE DEF new
  <1>3. \A s \in requests' : StageOf(s)
    BY <1>1, <1>2 DEF StageInv
  <1> SUFFICES ASSUME NEW s \in requests' PROVE StageOf(s)'
    BY DEF StageInv
  <1> QED
    BY <1>3, SameStage

\* A change of the configuration is recorded by every request it concerns.
LEMMA SeenStage ==
    ASSUME NEW r \in Request, StageOf(r), NEW m, NEW tokens, mode' = m, secret' = tokens,
           NEW s, s = Seen(r, m, tokens)
    PROVE  StageOf(s)'
  <1>1. s.at = r.at /\ s.credential = r.credential /\ r.facts \subseteq s.facts
    BY SeenFields
  <1>2. r.at \notin Codes => FactsNow(m, tokens, r.credential) \subseteq s.facts
    BY SeenFields
  <1>3. r.at \notin Codes /\ m # mode => "switched" \in s.facts
    BY SeenFields
  <1>4. KnowsPresent(s)'
    <2>1. s.at \notin Codes => FactsNow(mode', secret', s.credential) \subseteq s.facts
      BY <1>1, <1>2
    <2> QED
      BY <2>1 DEF KnowsPresent, FactsNow, Enabled, Allowed
  <1>5. WaitsForCheck(s)'
    <2> SUFFICES ASSUME s.at \in {"token", "signature"}
                 PROVE  /\ s.at = CheckOf(s.credential.header)
                        /\ "enabled" \in s.facts
                        /\ m = "authenticated" \/ "switched" \in s.facts
      BY DEF WaitsForCheck
    <2>1. s.at \notin Codes
      BY DEF Codes
    <2>2. /\ r.at = CheckOf(r.credential.header)
          /\ "enabled" \in r.facts
          /\ mode = "authenticated" \/ "switched" \in r.facts
      BY <1>1 DEF StageOf, WaitsForCheck
    <2> QED
      BY <1>1, <1>3, <2>1, <2>2
  <1>6. PassedChecks(s)' /\ FailedChecks(s)'
    BY <1>1 DEF StageOf, PassedChecks, FailedChecks
  <1> QED
    BY <1>4, <1>5, <1>6 DEF StageOf

\* A request that is sent knows the present and has passed nothing.
LEMMA SendStage ==
    ASSUME StageInv, NEW payload, NEW counted, Send(payload, counted), UNCHANGED <<mode, secret>>
    PROVE  StageInv'
  <1> SUFFICES ASSUME NEW s \in requests' PROVE StageOf(s)'
    BY DEF StageInv
  <1>1. CASE s \in requests
    BY <1>1, SameStage DEF StageInv
  <1>2. CASE s \notin requests
    <2>1. s.at = "sent" /\ s.credential = sender /\ s.facts = FactsNow(mode, secret, sender)
      BY <1>2 DEF Send
    <2> QED
      BY <2>1, SentStage
  <1> QED
    BY <1>1, <1>2

\* At every stage the facts of a request say why it got there.
THEOREM StagesAreJustified == Spec => []StageInv
  <1>1. Init => StageInv
    BY DEF Init, StageInv
  <1>2. TypeOK /\ StageInv /\ [Next]_vars => StageInv'
    <2> SUFFICES ASSUME TypeOK, StageInv, [Next]_vars PROVE StageInv'
      OBVIOUS
    <2>0. mode \in Modes /\ \A r \in requests : r \in Request /\ StageOf(r)
      BY DEF TypeOK, StageInv
    <2>1. ASSUME NEW t, NEW kind, NEW after, Edit(t, kind, after) PROVE StageInv'
      BY <2>1, SendStage DEF Edit, SendEdit, admin
    <2>2. ASSUME NEW t \in Texts, Rewrite(t) PROVE StageInv'
      BY <2>1, <2>2 DEF Rewrite
    <2>18. ASSUME NEW t \in Texts, NEW item, Tick(t, item) \/ Untick(t, item) PROVE StageInv'
      BY <2>1, <2>18 DEF Tick, Untick
    <2>19. ASSUME NEW t \in Texts, Refresh(t) PROVE StageInv'
      BY <2>19, SendStage DEF Refresh, SendEdit, admin
    <2>3. ASSUME NEW t \in Texts, NEW kind, EditOther(t, kind) PROVE StageInv'
      BY <2>1, <2>3 DEF EditOther
    <2>4. ASSUME NEW t \in Texts, Serve(t) PROVE StageInv'
      <3>1. UNCHANGED <<mode, secret>>
        BY <2>4 DEF Serve, admin
      <3>2. CASE UNCHANGED requests
        BY <2>0, <3>1, <3>2, SameStage DEF StageInv
      <3>3. ASSUME NEW after, SendEdit(t, "edited", after) PROVE StageInv'
        BY <3>1, <3>3, SendStage DEF SendEdit
      <3> QED
        BY <2>4, <3>2, <3>3 DEF Serve
    <2>5. ASSUME NEW payload, SendPlain(payload) PROVE StageInv'
      BY <2>5, SendStage DEF SendPlain, admin
    <2>6. ASSUME NEW r \in requests, authMiddleware(r) PROVE StageInv'
      <3>1. StageOf([r EXCEPT !.at = NextStage(mode, r.credential.header)])
        BY <2>0, <2>6, MiddlewareStage DEF authMiddleware
      <3> QED
        BY <2>6, <3>1, GoesStage DEF authMiddleware, admin
    <2>7. ASSUME NEW r \in requests, Validate(r) PROVE StageInv'
      <3> DEFINE valid == IF r.at = "token" THEN IsWebhookTokenValid(r.credential)
                          ELSE IsWebhookSignatureValid(r.credential)
                 place == IF valid THEN "handling" ELSE "unauthorized"
      <3>1. StageOf([r EXCEPT !.at = place])
        BY <2>0, <2>7, ValidateStage DEF Validate
      <3>2. Goes(r, place) /\ UNCHANGED <<mode, secret>>
        BY <2>7 DEF Validate, admin
      <3> HIDE DEF place
      <3> QED
        BY <3>1, <3>2, GoesStage
    <2>8. ASSUME NEW r \in requests, NEW place \in {"bad", "ignored", "accepted", "error"},
                 r.at = "handling", Goes(r, place), UNCHANGED <<mode, secret>>
          PROVE  StageInv'
      BY <2>0, <2>8, HandlerStage, GoesStage
    <2>9. ASSUME NEW r \in requests, Filtered(r) PROVE StageInv'
      BY <2>8, <2>9 DEF Filtered, admin
    <2>10. ASSUME NEW r \in requests, ScheduleProject(r) \/ ScheduleFails(r) PROVE StageInv'
      BY <2>8, <2>10 DEF ScheduleProject, ScheduleFails, Passes, admin
    <2>11. ASSUME NEW r \in requests, Lose(r) \/ Answered(r) PROVE StageInv'
      BY <2>0, <2>11, SameStage DEF Lose, Answered, StageInv, admin
    <2>12. ASSUME NEW r \in requests, Redeliver(r) PROVE StageInv'
      <3> DEFINE new == [r EXCEPT !.at = "sent", !.credential = sender,
                                  !.facts = FactsNow(mode, secret, sender)]
      <3>1. requests' = (requests \ {r}) \cup {new} /\ UNCHANGED <<mode, secret>>
        BY <2>12 DEF Redeliver, admin
      <3>2. new.at = "sent" /\ new.credential = sender
            /\ new.facts = FactsNow(mode, secret, sender)
        BY <2>0 DEF Request
      <3> HIDE DEF new
      <3> SUFFICES ASSUME NEW s \in requests' PROVE StageOf(s)'
        BY DEF StageInv
      <3>3. CASE s \in requests
        BY <2>0, <3>1, <3>3, SameStage
      <3>4. CASE s = new
        BY <3>1, <3>2, <3>4, SentStage
      <3> QED
        BY <3>1, <3>3, <3>4
    <2>13. ASSUME NEW m, NEW tokens, NEW credential, Configure(m, tokens, credential)
           PROVE  StageInv'
      <3> SUFFICES ASSUME NEW s \in requests' PROVE StageOf(s)'
        BY DEF StageInv
      <3>1. requests' = {Seen(r, m, tokens) : r \in requests}
        BY <2>13, ConfigureType, TypeParts
      <3>2. PICK r \in requests : s = Seen(r, m, tokens)
        BY <3>1
      <3>3. mode' = m /\ secret' = tokens
        BY <2>13 DEF Configure
      <3> QED
        BY <2>0, <3>2, <3>3, SeenStage
    <2>14. CASE EditJob \/ DeleteJob
      BY <2>13, <2>14 DEF EditJob, DeleteJob
    <2>15. CASE UNCHANGED <<requests, mode, secret>>
      BY <2>0, <2>15, SameStage DEF StageInv
    <2>16. ASSUME NEW p \in Projects, StartRun(p) \/ FinishRun(p) \/ FailRun(p)
           PROVE  UNCHANGED <<requests, mode, secret>>
      BY <2>16 DEF StartRun, FinishRun, FailRun, admin
    <2>17. UNCHANGED vars => UNCHANGED <<requests, mode, secret>>
      BY DEF vars
    <2> QED
      BY <2>2, <2>3, <2>4, <2>5, <2>6, <2>7, <2>9, <2>10, <2>11, <2>12, <2>14, <2>15, <2>16,
         <2>17, <2>18, <2>19 DEF Next, Serving
  <1> QED
    BY <1>1, <1>2, WebhookTypeCorrect, PTL DEF Spec

\* A request that passed authMiddleware did so on a webhook that was enabled
\* while the request was under way, with a credential that was good then unless
\* spec.webhook was changed meanwhile (server.go:103-158).
THEOREM AcceptedAreAllowed == Spec => []AcceptedWasAllowed
  <1>1. StageInv => AcceptedWasAllowed
    BY DEF StageInv, StageOf, PassedChecks, AcceptedWasAllowed
  <1> QED
    BY <1>1, StagesAreJustified, PTL

\* A request that was allowed all the time it was under way is not refused,
\* unless spec.webhook was changed meanwhile (renovateJobManager.go:356-430).
THEOREM AllowedAreNotRefused == Spec => []AllowedIsNotRefused
  <1>1. StageInv => AllowedIsNotRefused
    BY DEF StageInv, StageOf, FailedChecks, AllowedIsNotRefused
  <1> QED
    BY <1>1, StagesAreJustified, PTL

-----------------------------------------------------------------------------
(* The credit of a project.  RunsAreAskedFor is not inductive either: a    *)
(* request under way will schedule the project it is counted for, so the   *)
(* credit must cover these requests as well.                               *)

\* Only a counted request passes the filters.
PassesIfCounted(r) ==
    /\ r.counted => r.payload.project \in Projects
    /\ ~IsBad(r.payload) /\ (r.payload.endpoint = "schedule" \/ IsValidEvent(r.payload)) => r.counted

\* The requests for a run of the project that are under way.
Pending(p) ==
    {i \in 1 .. MaxRequests :
        \E r \in requests : /\ r.id = i
                             /\ r.at \notin Codes
                             /\ r.counted
                             /\ r.payload.project = p}

Due(p) == IF projects[p].status = "scheduled" THEN 1 ELSE 0

CreditInv ==
    /\ \A r \in requests : PassesIfCounted(r)
    /\ \A p \in Projects : credit[p] >= Due(p) + Cardinality(Pending(p))

\* How the number of requests under way changes.
LEMMA Counting ==
    ASSUME NEW S \in SUBSET (1 .. MaxRequests), NEW T \in SUBSET (1 .. MaxRequests)
    PROVE  /\ Cardinality(S) \in Nat /\ Cardinality(T) \in Nat
           /\ T \subseteq S => Cardinality(T) <= Cardinality(S)
           /\ \A x : T \subseteq S \cup {x} => Cardinality(T) <= Cardinality(S) + 1
           /\ \A x \in S : T \subseteq S \ {x} => Cardinality(T) <= Cardinality(S) - 1
  <1>1. IsFiniteSet(1 .. MaxRequests)
    BY FS_Interval, WebhookServerAssumption
  <1>2. IsFiniteSet(S) /\ IsFiniteSet(T)
    BY <1>1, FS_Subset
  <1>3. Cardinality(S) \in Nat /\ Cardinality(T) \in Nat
    BY <1>2, FS_CardinalityType
  <1>4. T \subseteq S => Cardinality(T) <= Cardinality(S)
    BY <1>2, FS_Subset
  <1>5. ASSUME NEW x, T \subseteq S \cup {x} PROVE Cardinality(T) <= Cardinality(S) + 1
    <2>1. IsFiniteSet(S \cup {x}) /\ Cardinality(S \cup {x}) <= Cardinality(S) + 1
      <3>1. /\ IsFiniteSet(S \cup {x})
            /\ Cardinality(S \cup {x}) = IF x \in S THEN Cardinality(S) ELSE Cardinality(S) + 1
        BY <1>2, FS_AddElement
      <3> QED
        BY <1>3, <3>1
    <2>2. Cardinality(S \cup {x}) \in Nat
      BY <2>1, FS_CardinalityType
    <2>3. Cardinality(T) <= Cardinality(S \cup {x})
      BY <1>5, <2>1, FS_Subset
    <2> QED
      BY <1>3, <2>1, <2>2, <2>3
  <1>6. ASSUME NEW x \in S, T \subseteq S \ {x} PROVE Cardinality(T) <= Cardinality(S) - 1
    <2>1. IsFiniteSet(S \ {x}) /\ Cardinality(S \ {x}) = Cardinality(S) - 1
      BY <1>2, FS_RemoveElement
    <2>2. Cardinality(T) <= Cardinality(S \ {x})
      BY <1>6, <2>1, FS_Subset
    <2> QED
      BY <2>1, <2>2
  <1> QED
    BY <1>3, <1>4, <1>5, <1>6

\* The requests under way are counted by ids.
LEMMA PendingType ==
    ASSUME NEW p
    PROVE  Pending(p) \in SUBSET (1 .. MaxRequests) /\ Pending(p)' \in SUBSET (1 .. MaxRequests)
  BY DEF Pending

\* Every payload the filters let through is counted for its project: the edit left
\* something ticked in a text of Renovate, and changed more than the title on
\* GitLab, or on Forgejo closed or reopened a pull request of Renovate (github.go:82-112, gitlab.go:87-105, forgejo.go:114-153).
LEMMA EditsAreCounted ==
    ASSUME TypeOK, NEW t \in Texts, NEW kind \in {"edited", "retitled", "closed", "reopened"},
           NEW after \in Body
    PROVE  /\ PayloadOf(t, kind, after).endpoint # "schedule"
           /\ PayloadOf(t, kind, after).project \in Projects
           /\ IsValidEvent(PayloadOf(t, kind, after)) => MayStartRun(t, kind, after)
  <1> DEFINE m == PayloadOf(t, kind, after)
  <1>1. /\ m.endpoint = platform /\ m.action = ActionOf(kind) /\ m.event = t.kind
        /\ m.current = CurrentOf(kind, after) /\ m.project = t.project
    BY DEF PayloadOf
  <1>2. platform \in Platforms /\ t.project \in Projects
    BY DEF TypeOK, Projects
  <1>3. /\ kind \in {"edited", "retitled"} \/ kind \in {"closed", "reopened"}
        /\ kind \in {"closed", "reopened"} => ActionOf(kind) = kind
        /\ kind \in {"edited", "retitled"} => ActionOf(kind) \in {"edited", "update"}
    BY DEF ActionOf
  <1>4. /\ platform # "gitlab" => CurrentOf(kind, after) = after
        /\ platform = "gitlab" /\ kind = "edited" => CurrentOf(kind, after) = after
        /\ platform = "gitlab" /\ kind # "edited" => ~CurrentOf(kind, after).marker
    BY DEF CurrentOf, NoBody
  <1> HIDE DEF m
  <1> USE DEF IsValidEvent, verifyRenovateDescriptionChange, isRenovateContent,
              hasCheckboxBeenChecked, MayStartRun, AsksForRun, LeavesTick
  <1>5. ASSUME platform = "github", IsValidEvent(m) PROVE MayStartRun(t, kind, after)
    <2>1. m.action = "edited" /\ m.current.marker /\ m.current.ticked # {}
      BY <1>1, <1>5 DEF isValidGitHubEvent
    <2> QED
      BY <1>1, <1>3, <1>4, <1>5, <2>1
  <1>6. ASSUME platform = "gitlab", IsValidEvent(m) PROVE MayStartRun(t, kind, after)
    <2>1. m.current.marker /\ m.current.ticked # {}
      BY <1>1, <1>6 DEF isValidGitLabEvent
    <2> QED
      BY <1>1, <1>4, <1>6, <2>1
  <1>7. ASSUME platform = "forgejo", IsValidEvent(m) PROVE MayStartRun(t, kind, after)
    <2>1. /\ m.current.marker
          /\ \/ m.event = "pull_request" /\ m.action \in {"closed", "reopened"}
             \/ m.action = "edited" /\ m.current.ticked # {}
      BY <1>1, <1>7 DEF isValidForgejoEvent
    <2> QED
      BY <1>1, <1>3, <1>4, <1>7, <2>1
  <1>8. m.endpoint # "schedule" /\ m.project \in Projects
    BY <1>1, <1>2 DEF Platforms
  <1>9. IsValidEvent(m) => MayStartRun(t, kind, after)
    BY <1>2, <1>5, <1>6, <1>7 DEF Platforms
  <1> QED
    BY <1>8, <1>9 DEF m

\* So does a call of the schedule endpoint that names a project; an event of
\* another kind is not let through (server.go:64-101).
LEMMA CallsAreCounted ==
    ASSUME TypeOK,
           NEW payload \in Junk \cup {CallSchedule(p) : p \in Projects \cup {NoProject}}
    PROVE  LET counted == payload.endpoint = "schedule" /\ payload.project # NoProject IN
           /\ counted => payload.project \in Projects
           /\ ~IsBad(payload) /\ (payload.endpoint = "schedule" \/ IsValidEvent(payload)) => counted
  <1>1. CASE payload \in Junk
    <2>1. payload.event \in {"other", "none"} /\ payload.endpoint = platform
          /\ payload.endpoint # "schedule"
      BY <1>1 DEF Junk, TypeOK, Platforms
    <2>2. ~IsValidEvent(payload)
      BY <2>1 DEF IsValidEvent, isValidGitHubEvent, isValidGitLabEvent, isValidForgejoEvent
    <2> QED
      BY <2>1, <2>2
  <1>2. ASSUME NEW p \in Projects \cup {NoProject}, payload = CallSchedule(p)
        PROVE  /\ payload.endpoint = "schedule" /\ payload.project \in Projects \cup {NoProject}
               /\ payload.project = NoProject => IsBad(payload)
    BY <1>2 DEF CallSchedule, IsBad
  <1> QED
    BY <1>1, <1>2

\* A request that keeps its payload keeps what its filter says of it.
LEMMA SameCounted ==
    ASSUME NEW r, NEW s, PassesIfCounted(r), s.payload = r.payload, s.counted = r.counted
    PROVE  PassesIfCounted(s)
  BY DEF PassesIfCounted

\* The credit of a project covers its requests as long as there are not more of
\* them, and the project is not scheduled anew.
LEMMA CreditKept ==
    ASSUME CreditInv, TypeOK, UNCHANGED <<projects, credit>>,
           \A s \in requests' : PassesIfCounted(s),
           \A p \in Projects : Pending(p)' \subseteq Pending(p)
    PROVE  CreditInv'
  <1>1. ASSUME NEW p \in Projects PROVE credit'[p] >= Due(p)' + Cardinality(Pending(p)')
    <2>1. credit[p] >= Due(p) + Cardinality(Pending(p)) /\ credit[p] \in Int
      BY DEF CreditInv, TypeOK
    <2>2. Due(p)' = Due(p) /\ Due(p) \in Nat
      BY DEF Due
    <2>3. Cardinality(Pending(p)') <= Cardinality(Pending(p))
          /\ Cardinality(Pending(p)') \in Nat /\ Cardinality(Pending(p)) \in Nat
      BY PendingType, Counting
    <2> QED
      BY <2>1, <2>2, <2>3
  <1> QED
    BY <1>1 DEF CreditInv

\* A request that moves on, or is answered, is not counted anew.
LEMMA GoesCredit ==
    ASSUME TypeOK, CreditInv, NEW r \in requests, r.at \notin Codes,
           NEW place \in Stages \cup Codes, Goes(r, place)
    PROVE  /\ \A s \in requests' : PassesIfCounted(s)
           /\ \A p \in Projects : Pending(p)' \subseteq Pending(p)
           /\ place \in Codes => \A p : r.id \notin Pending(p)'
           /\ r.counted => r.id \in Pending(r.payload.project)
  <1> DEFINE new == [r EXCEPT !.at = place]
  <1>1. /\ new.id = r.id /\ new.at = place /\ new.payload = r.payload /\ new.counted = r.counted
    BY GoesFields DEF TypeOK
  <1>2. requests' = (requests \ {r}) \cup {new}
    BY DEF Goes
  <1> HIDE DEF new
  <1>3. ASSUME NEW s \in requests' PROVE PassesIfCounted(s)
    BY <1>1, <1>2, SameCounted DEF CreditInv
  <1>4. ASSUME NEW p PROVE Pending(p)' \subseteq Pending(p)
    BY <1>1, <1>2 DEF Pending
  <1>5. ASSUME place \in Codes, NEW p PROVE r.id \notin Pending(p)'
    BY <1>1, <1>2, <1>5 DEF Pending, TypeOK
  <1>6. r.counted => r.id \in Pending(r.payload.project)
    BY DEF Pending, TypeOK, Request
  <1> QED
    BY <1>3, <1>4, <1>5, <1>6

\* A request that is sent, or sent again, is counted before it can do anything.
LEMMA CreditAdded ==
    ASSUME CreditInv, TypeOK, UNCHANGED projects,
           NEW new, new.counted \in BOOLEAN, PassesIfCounted(new),
           \A s \in requests' : s \in requests \/ s = new,
           credit' = IF new.counted THEN [credit EXCEPT ![new.payload.project] = @ + 1] ELSE credit
    PROVE  CreditInv'
  <1>1. ASSUME NEW p \in Projects PROVE credit'[p] >= Due(p)' + Cardinality(Pending(p)')
    <2>1. credit[p] >= Due(p) + Cardinality(Pending(p)) /\ credit[p] \in Int
      BY DEF CreditInv, TypeOK
    <2>2. Due(p)' = Due(p) /\ Due(p) \in Nat
      BY DEF Due
    <2>3. Cardinality(Pending(p)') \in Nat /\ Cardinality(Pending(p)) \in Nat
      BY PendingType, Counting
    <2>4. CASE new.counted /\ new.payload.project = p
      <3>1. credit'[p] = credit[p] + 1
        BY <2>4 DEF TypeOK
      <3>2. Pending(p)' \subseteq Pending(p) \cup {new.id}
        BY DEF Pending
      <3>3. Cardinality(Pending(p)') <= Cardinality(Pending(p)) + 1
        BY <3>2, PendingType, Counting
      <3> QED
        BY <2>1, <2>2, <2>3, <3>1, <3>3
    <2>5. CASE ~(new.counted /\ new.payload.project = p)
      <3>1. credit'[p] = credit[p]
        BY <2>5 DEF TypeOK
      <3>2. Pending(p)' \subseteq Pending(p)
        BY <2>5 DEF Pending
      <3>3. Cardinality(Pending(p)') <= Cardinality(Pending(p))
        BY <3>2, PendingType, Counting
      <3> QED
        BY <2>1, <2>2, <2>3, <3>1, <3>3
    <2> QED
      BY <2>4, <2>5
  <1>2. \A s \in requests' : PassesIfCounted(s)
    BY DEF CreditInv
  <1> QED
    BY <1>1, <1>2 DEF CreditInv

\* The write of a request spends what the request was counted for, whether it
\* takes effect or not.
LEMMA CreditSpent ==
    ASSUME TypeOK, CreditInv, NEW r \in requests, Passes(r), NEW place \in Codes, Goes(r, place),
           UNCHANGED credit,
           projects' \in {projects, UpdateProjectStatus(projects, r.payload.project, ByWebhook)}
    PROVE  CreditInv'
  <1> DEFINE q == r.payload.project
  <1>1. r.at \notin Codes /\ r.counted /\ q \in Projects
    BY DEF Passes, Codes, CreditInv, PassesIfCounted
  <1>2. /\ \A s \in requests' : PassesIfCounted(s)
        /\ \A p \in Projects : Pending(p)' \subseteq Pending(p)
        /\ r.id \notin Pending(q)'
        /\ r.id \in Pending(q)
    BY <1>1, GoesCredit
  <1>3. \A p \in Projects : p # q => projects'[p] = projects[p]
    BY DEF UpdateProjectStatus, TypeOK
  <1> HIDE DEF q
  <1>4. ASSUME NEW p \in Projects PROVE credit'[p] >= Due(p)' + Cardinality(Pending(p)')
    <2>1. credit[p] >= Due(p) + Cardinality(Pending(p)) /\ credit[p] \in Int
      BY DEF CreditInv, TypeOK
    <2>2. Due(p) \in 0 .. 1 /\ Due(p)' \in 0 .. 1
      BY DEF Due
    <2>3. Cardinality(Pending(p)') \in Nat /\ Cardinality(Pending(p)) \in Nat
      BY PendingType, Counting
    <2>4. CASE p = q
      <3>1. Pending(p)' \subseteq Pending(p) \ {r.id} /\ r.id \in Pending(p)
        BY <1>2, <2>4
      <3>2. Cardinality(Pending(p)') <= Cardinality(Pending(p)) - 1
        BY <3>1, PendingType, Counting
      <3> QED
        BY <2>1, <2>2, <2>3, <3>2
    <2>5. CASE p # q
      <3>1. Due(p)' = Due(p)
        BY <1>3, <2>5 DEF Due
      <3>2. Cardinality(Pending(p)') <= Cardinality(Pending(p))
        BY <1>2, PendingType, Counting
      <3> QED
        BY <2>1, <2>2, <2>3, <3>1, <3>2
    <2> QED
      BY <2>4, <2>5
  <1> QED
    BY <1>2, <1>4 DEF CreditInv

\* A run uses up one request; a project that is not scheduled needs none.
LEMMA CreditOfRuns ==
    ASSUME TypeOK, CreditInv, UNCHANGED requests, NEW q \in Projects,
           \/ StartRun(q) \/ FinishRun(q) \/ FailRun(q)
    PROVE  CreditInv'
  <1>1. ASSUME NEW p \in Projects PROVE Pending(p)' = Pending(p)
    BY DEF Pending
  <1>2. ASSUME NEW p \in Projects, p # q PROVE projects'[p] = projects[p] /\ credit'[p] = credit[p]
    BY <1>2 DEF StartRun, FinishRun, FailRun, UpdateProjectStatus, TypeOK
  <1>3. CASE StartRun(q)
    <2>1. projects[q].status = "scheduled" /\ projects'[q].status = "running"
      BY <1>3 DEF StartRun, UpdateProjectStatus, GetUpdateStatusForProject,
                  validateProjectStatusRunning, TypeOK
    <2>2. credit'[q] = credit[q] - 1
      BY <1>3 DEF StartRun, TypeOK
    <2>3. Due(q) = 1 /\ Due(q)' = 0
      BY <2>1 DEF Due
    <2> QED
      BY <1>1, <1>2, <2>2, <2>3, PendingType, Counting DEF CreditInv, Due, TypeOK
  <1>4. CASE FinishRun(q) \/ FailRun(q)
    <2>1. projects[q].status = "running" /\ projects'[q].status \in {"completed", "failed"}
      BY <1>4 DEF FinishRun, FailRun, UpdateProjectStatus, GetUpdateStatusForProject,
                  validateProjectStatusCompleted, validateProjectStatusFailed, TypeOK
    <2>2. credit' = credit
      BY <1>4 DEF FinishRun, FailRun
    <2>3. Due(q) = 0 /\ Due(q)' = 0
      BY <2>1 DEF Due
    <2> QED
      BY <1>1, <1>2, <2>2, <2>3 DEF CreditInv, Due
  <1> QED
    BY <1>3, <1>4

\* A request that is sent with the right to a run is counted.
LEMMA SendCredit ==
    ASSUME TypeOK, CreditInv, NEW payload, NEW counted \in BOOLEAN, Send(payload, counted),
           UNCHANGED projects, counted => payload.project \in Projects,
           ~IsBad(payload) /\ (payload.endpoint = "schedule" \/ IsValidEvent(payload)) => counted
    PROVE  CreditInv'
  <1> DEFINE new == [id         |-> CHOOSE i \in FreeIds : \A j \in FreeIds : i <= j,
                     payload    |-> payload,
                     credential |-> sender,
                     at         |-> "sent",
                     counted    |-> counted,
                     facts      |-> FactsNow(mode, secret, sender)]
  <1>1. requests' = requests \cup {new}
    BY DEF Send
  <1>2. new.payload = payload /\ new.counted = counted
    OBVIOUS
  <1> HIDE DEF new
  <1>3. PassesIfCounted(new)
    BY <1>2 DEF PassesIfCounted
  <1>4. credit' = IF new.counted THEN [credit EXCEPT ![new.payload.project] = @ + 1] ELSE credit
    BY <1>2 DEF Send
  <1>5. \A s \in requests' : s \in requests \/ s = new
    BY <1>1
  <1> QED
    BY <1>2, <1>3, <1>4, <1>5, CreditAdded

\* The credit of a project covers its next run and all requests for one that are
\* under way.
THEOREM CreditCovers == Spec => []CreditInv
  <1>1. Init => CreditInv
    <2> SUFFICES ASSUME Init PROVE CreditInv
      OBVIOUS
    <2>1. requests = {} /\ \A p \in Projects : credit[p] = 0 /\ Due(p) = 0
      BY DEF Init, Due, NotListed
    <2>2. ASSUME NEW p \in Projects PROVE Pending(p) = {}
      BY <2>1 DEF Pending
    <2> QED
      BY <2>1, <2>2, FS_EmptySet DEF CreditInv
  <1>2. TypeOK /\ CreditInv /\ [Next]_vars => CreditInv'
    <2> SUFFICES ASSUME TypeOK, CreditInv, [Next]_vars PROVE CreditInv'
      OBVIOUS
    <2>0. \A r \in requests : r \in Request /\ PassesIfCounted(r)
      BY DEF TypeOK, CreditInv
    <2>1. ASSUME NEW t \in Texts, NEW kind \in {"edited", "retitled", "closed", "reopened"},
                 NEW after \in Body, SendEdit(t, kind, after), UNCHANGED projects
          PROVE  CreditInv'
      <3>1. MayStartRun(t, kind, after) \in BOOLEAN
        BY PayloadType
      <3> QED
        BY <2>1, <3>1, EditsAreCounted, SendCredit DEF SendEdit
    <2>2. ASSUME NEW t \in Texts, NEW item \in Items, Tick(t, item) \/ Untick(t, item)
          PROVE  CreditInv'
      <3>1. /\ [body[t] EXCEPT !.ticked = @ \cup {item}] \in Body
            /\ [body[t] EXCEPT !.ticked = @ \ {item}] \in Body
        BY EditedBodies DEF TypeOK
      <3> QED
        BY <2>1, <2>2, <3>1 DEF Tick, Untick, Edit
    <2>20. ASSUME NEW t \in Texts, Refresh(t) PROVE CreditInv'
      <3>1. body[t] \in Body
        BY DEF TypeOK
      <3> QED
        BY <2>1, <2>20, <3>1 DEF Refresh
    <2>3. ASSUME NEW t \in Texts, Rewrite(t) PROVE CreditInv'
      <3>1. [empty |-> FALSE, marker |-> FALSE, ticked |-> t.boxes \cup t.notes] \in Body
        BY EditedBodies DEF TypeOK
      <3> QED
        BY <2>1, <2>3, <3>1 DEF Rewrite, Edit
    <2>4. ASSUME NEW t \in Texts, NEW kind \in {"retitled", "closed", "reopened"},
                 EditOther(t, kind)
          PROVE  CreditInv'
      <3>1. body[t] \in Body
        BY DEF TypeOK
      <3> QED
        BY <2>1, <2>4, <3>1 DEF EditOther, Edit
    <2>5. CASE UNCHANGED <<requests, projects, credit>>
      <3>1. \A p \in Projects : Pending(p)' \subseteq Pending(p)
        BY <2>5 DEF Pending
      <3> QED
        BY <2>0, <2>5, <3>1, CreditKept
    <2>6. ASSUME NEW t \in Texts, Serve(t) PROVE CreditInv'
      <3> DEFINE after == [body[t] EXCEPT !.ticked = @ \ DueIn(t)]
      <3>1. after \in Body
        BY EditedBodies DEF TypeOK
      <3>2. \/ SendEdit(t, "edited", after) /\ UNCHANGED projects
            \/ UNCHANGED <<requests, projects, credit>>
        BY <2>6 DEF Serve
      <3> HIDE DEF after
      <3> QED
        BY <2>1, <2>5, <3>1, <3>2
    <2>7. ASSUME NEW payload \in Junk \cup {CallSchedule(p) : p \in Projects \cup {NoProject}},
                 SendPlain(payload)
          PROVE  CreditInv'
      <3> DEFINE counted == payload.endpoint = "schedule" /\ payload.project # NoProject
      <3>1. /\ counted \in BOOLEAN
            /\ counted => payload.project \in Projects
            /\ ~IsBad(payload) /\ (payload.endpoint = "schedule" \/ IsValidEvent(payload)) => counted
        BY CallsAreCounted
      <3>2. Send(payload, counted) /\ UNCHANGED projects
        BY <2>7 DEF SendPlain
      <3> HIDE DEF counted
      <3> QED
        BY <3>1, <3>2, SendCredit
    <2>8. ASSUME NEW r \in requests, r.at \notin Codes, NEW place \in Stages \cup Codes,
                 Goes(r, place), UNCHANGED <<projects, credit>>
          PROVE  CreditInv'
      BY <2>8, GoesCredit, CreditKept
    <2>9. ASSUME NEW r \in requests, authMiddleware(r) PROVE CreditInv'
      <3>1. NextStage(mode, r.credential.header) \in Stages \cup Codes
        BY <2>0, StageRange DEF Stages, Codes
      <3>2. r.at \notin Codes
        BY <2>9 DEF authMiddleware, Codes
      <3> QED
        BY <2>8, <2>9, <3>1, <3>2 DEF authMiddleware
    <2>10. ASSUME NEW r \in requests, Validate(r) PROVE CreditInv'
      <3>1. Goes(r, "handling") \/ Goes(r, "unauthorized")
        BY <2>10 DEF Validate
      <3>2. r.at \notin Codes /\ UNCHANGED <<projects, credit>>
        BY <2>10 DEF Validate, Codes
      <3> QED
        BY <2>8, <3>1, <3>2 DEF Stages, Codes
    <2>11. ASSUME NEW r \in requests, Filtered(r) PROVE CreditInv'
      <3>1. r.at \notin Codes /\ UNCHANGED <<projects, credit>>
        BY <2>11 DEF Filtered, Codes
      <3> QED
        BY <2>8, <2>11, <3>1 DEF Filtered, Codes
    <2>12. ASSUME NEW r \in requests, ScheduleProject(r) \/ ScheduleFails(r) PROVE CreditInv'
      <3>1. /\ Passes(r) /\ UNCHANGED credit /\ (Goes(r, "accepted") \/ Goes(r, "error"))
            /\ projects' \in {projects, UpdateProjectStatus(projects, r.payload.project, ByWebhook)}
        BY <2>12 DEF ScheduleProject, ScheduleFails
      <3> QED
        BY <3>1, CreditSpent DEF Codes
    <2>13. ASSUME NEW r \in requests, Lose(r) \/ Answered(r) PROVE CreditInv'
      <3>1. requests' \subseteq requests /\ UNCHANGED <<projects, credit>>
        BY <2>13 DEF Lose, Answered
      <3>2. \A p \in Projects : Pending(p)' \subseteq Pending(p)
        BY <3>1 DEF Pending
      <3> QED
        BY <2>0, <3>1, <3>2, CreditKept
    <2>14. ASSUME NEW r \in requests, Redeliver(r) PROVE CreditInv'
      <3> DEFINE new == [r EXCEPT !.at = "sent", !.credential = sender,
                                  !.facts = FactsNow(mode, secret, sender)]
      <3>1. requests' = (requests \ {r}) \cup {new} /\ UNCHANGED projects
        BY <2>14 DEF Redeliver
      <3>2. new.payload = r.payload /\ new.counted = r.counted /\ new.counted \in BOOLEAN
        BY <2>0 DEF Request
      <3>3. credit' = IF r.counted THEN [credit EXCEPT ![r.payload.project] = @ + 1] ELSE credit
        BY <2>14 DEF Redeliver
      <3> HIDE DEF new
      <3>4. PassesIfCounted(new)
        BY <2>0, <3>2, SameCounted
      <3>5. credit' = IF new.counted THEN [credit EXCEPT ![new.payload.project] = @ + 1] ELSE credit
        BY <3>2, <3>3
      <3>6. \A s \in requests' : s \in requests \/ s = new
        BY <3>1
      <3> QED
        BY <3>1, <3>2, <3>4, <3>5, <3>6, CreditAdded
    <2>15. ASSUME NEW m, NEW tokens, NEW credential, Configure(m, tokens, credential)
           PROVE  /\ \A s \in requests' : PassesIfCounted(s)
                  /\ \A p \in Projects : Pending(p)' \subseteq Pending(p)
                  /\ UNCHANGED credit
      <3>1. requests' = {Seen(r, m, tokens) : r \in requests}
        BY <2>15, ConfigureType, TypeParts
      <3>2. ASSUME NEW s \in requests'
            PROVE  \E r \in requests : /\ s.id = r.id /\ s.at = r.at
                                         /\ s.payload = r.payload /\ s.counted = r.counted
        BY <2>0, <3>1, SeenFields
      <3>3. \A s \in requests' : PassesIfCounted(s)
        BY <2>0, <3>2, SameCounted
      <3>4. \A p \in Projects : Pending(p)' \subseteq Pending(p)
        BY <3>2 DEF Pending
      <3> QED
        BY <2>15, <3>3, <3>4 DEF Configure
    <2>16. CASE EditJob
      BY <2>15, <2>16, CreditKept DEF EditJob
    <2>17. CASE DeleteJob
      <3>1. /\ \A s \in requests' : PassesIfCounted(s)
            /\ \A p \in Projects : Pending(p)' \subseteq Pending(p)
            /\ UNCHANGED credit
        BY <2>15, <2>17 DEF DeleteJob
      <3>2. ASSUME NEW p \in Projects PROVE credit'[p] >= Due(p)' + Cardinality(Pending(p)')
        <4>1. credit[p] >= Due(p) + Cardinality(Pending(p)) /\ credit[p] \in Int
          BY DEF CreditInv, TypeOK
        <4>2. Due(p) \in 0 .. 1 /\ Due(p)' = 0
          BY <2>17 DEF DeleteJob, Due, NotListed
        <4>3. Cardinality(Pending(p)') <= Cardinality(Pending(p))
              /\ Cardinality(Pending(p)') \in Nat /\ Cardinality(Pending(p)) \in Nat
          BY <3>1, PendingType, Counting
        <4> QED
          BY <3>1, <4>1, <4>2, <4>3
      <3> QED
        BY <3>1, <3>2 DEF CreditInv
    <2>18. ASSUME NEW p \in Projects, StartRun(p) \/ FinishRun(p) \/ FailRun(p) PROVE CreditInv'
      <3>1. UNCHANGED requests
        BY <2>18 DEF StartRun, FinishRun, FailRun
      <3> QED
        BY <2>18, <3>1, CreditOfRuns
    <2>19. CASE UNCHANGED vars
      BY <2>5, <2>19 DEF vars
    <2> QED
      BY <2>2, <2>3, <2>4, <2>6, <2>7, <2>9, <2>10, <2>11, <2>12, <2>13, <2>14, <2>16, <2>17,
         <2>18, <2>19, <2>20 DEF Next, Serving
  <1> QED
    BY <1>1, <1>2, WebhookTypeCorrect, PTL DEF Spec

\* A project is not run more often than there were edits, calls and repetitions
\* that account for a run, however many requests race, are repeated or fail: an
\* edit that leaves nothing ticked in a text, one of Renovate included, starts none
\* (github.go:82-112, gitlab.go:87-105, forgejo.go:114-153).
THEOREM RunsWereAskedFor == Spec => []RunsAreAskedFor
  <1>1. TypeOK /\ CreditInv => RunsAreAskedFor
    <2> SUFFICES ASSUME TypeOK, CreditInv, NEW p \in Projects
                 PROVE  credit[p] >= Due(p)
      BY DEF RunsAreAskedFor, Due
    <2>1. credit[p] >= Due(p) + Cardinality(Pending(p)) /\ credit[p] \in Int /\ Due(p) \in 0 .. 1
      BY DEF CreditInv, TypeOK, Due
    <2>2. Cardinality(Pending(p)) \in Nat
      BY PendingType, Counting
    <2> QED
      BY <2>1, <2>2
  <1> QED
    BY <1>1, WebhookTypeCorrect, CreditCovers, PTL
=============================================================================
