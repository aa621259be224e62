---------------------------- MODULE WebhookServer ----------------------------
(***************************************************************************)
(* The webhook server: webhook/server.go with the handlers of github.go,   *)
(* gitlab.go, forgejo.go and renovateCheckbox.go, and the checks of tokens *)
(* and signatures in internal/crdManager/renovateJobManager.go.            *)
(*                                                                         *)
(* People tick boxes in the pull requests and dashboards Renovate writes;  *)
(* the git platform sends a request for every edit, also for the ones that *)
(* Renovate makes itself.  Requests are handled concurrently, are lost or  *)
(* sent again, and each reads the RenovateJob and its secret more than     *)
(* once, while administrators change both.  The executor that runs the     *)
(* scheduled projects is here only what the webhooks see of it (Executor   *)
(* models it), and a write of the status table is one step.                *)
(***************************************************************************)
EXTENDS RenovateJobManager, FiniteSets

CONSTANTS
    Texts,        \* the pull requests and dashboards of Renovate: [project, kind, boxes, notes]
    Setups,       \* to begin with: [platform, mode, secret, sender, ticked]
    Keys,         \* tokens, and the keys of signatures
    Trimmed,      \* each key without the space around it
    Secrets,      \* the lists of tokens the secret may be changed to
    Credentials,  \* what the sender may send: [header, key]
    MaxRequests,  \* bound: the requests under way at the same time
    MaxEdits,     \* bound: the edits and calls people make
    MaxEvents     \* bound: the changes of the configuration, failures, losses and
                  \* repetitions, and the edits of Renovate that take no tick back

\* An Authorization or X-Gitlab-Token header, a signature that begins with
\* "sha256=" (X-Hub-Signature-256), one that does not (X-Forgejo-Signature alone),
\* or no header.  A malformed header is one whose key is in no secret.
Headers == {"token", "signature", "bare", "none"}
Platforms == {"github", "gitlab", "forgejo"}

\* The RenovateJob as the server sees it: gone, without webhook, with one that
\* needs no authentication, with one that does, and with one that would but is
\* not enabled.
Modes == {"gone", "disabled", "open", "authenticated", "paused"}
Missing == {}  \* the tokens when the secret, or its key, does not exist

Projects == {t.project : t \in Texts}

\* The list items of a text that can be ticked: the boxes Renovate reads, and the
\* others, such as the ones of a release note it quotes.
Items == UNION {t.boxes \cup t.notes : t \in Texts}
Boxes == UNION {{t} \X t.boxes : t \in Texts}
ASSUME WebhookServerAssumption ==
    /\ \A t \in Texts : t.kind \in {"pull_request", "issue"}
    /\ Trimmed \in [Keys -> Keys]
    /\ Secrets \subseteq SUBSET Keys
    /\ Credentials \subseteq [header : Headers, key : Keys]
    /\ Setups \subseteq [platform : Platforms, mode : Modes,
                          secret : Secrets \cup {Missing}, sender : Credentials,
                          ticked : SUBSET Items]
    /\ {MaxRequests, MaxEdits, MaxEvents} \subseteq Nat

NoProject == "no project"

VARIABLES
    platform,  \* the git platform of the RenovateJob
    body,      \* the description of each text
    mode,      \* spec.webhook of the RenovateJob
    secret,    \* the tokens in the secret
    sender,    \* the credential the platform sends
    projects,  \* status.projects
    due,       \* the ticked boxes the run of each project has still to serve
    requests,  \* the requests under way
    edits, events,  \* what has been used up of the bounds
    credit,    \* history: the counted requests for each project minus its runs
    excused    \* history: the boxes whose tick was dropped for a known reason

people == <<platform, body, edits>>
admin == <<mode, secret, sender>>
vars == <<platform, body, mode, secret, sender, projects, due, requests,
          edits, events, credit, excused>>

\* A description: whether it has one of Renovate's markers, and its ticked items.
Body == [empty : BOOLEAN, marker : BOOLEAN, ticked : SUBSET Items]
NoBody == [empty |-> TRUE, marker |-> FALSE, ticked |-> {}]

\* The actions a payload names; a call of the schedule endpoint names none.
Actions == {"edited", "update", "closed", "reopened", "none"}

\* What a request carries.  "event" is the object or the event the platform
\* names, "current" the description in the payload; "about" is history, the boxes
\* the edit ticked.
Payload ==
    [endpoint : Platforms \cup {"schedule"}, decodes : BOOLEAN, action : Actions,
     event : {"pull_request", "issue", "other", "none"}, current : Body,
     project : Projects \cup {NoProject}, about : SUBSET Boxes]

Stages == {"sent", "token", "signature", "handling"}
Codes == {"accepted", "ignored", "unauthorized", "bad", "error"}

\* History: "counted" whether the request may start a run, "facts" what has held
\* at some moment since it was sent.
Facts == {"enabled", "allowed", "not allowed", "switched"}
Request == [id : 1 .. MaxRequests, payload : Payload, credential : Credentials,
            at : Stages \cup Codes, counted : BOOLEAN, facts : SUBSET Facts]

TypeOK ==
    /\ platform \in Platforms
    /\ body \in [Texts -> Body]
    /\ mode \in Modes
    /\ secret \in Secrets \cup {Missing}
    /\ sender \in Credentials
    /\ projects \in [Projects -> ProjectEntry]
    /\ \A p \in Projects : projects[p].priority > 0 => projects[p].status = "scheduled"
    /\ due \in [Projects -> SUBSET Boxes]
    /\ \A r \in requests : r \in Request
    /\ \A r, s \in requests : r.id = s.id => r = s
    /\ edits \in 0 .. MaxEdits
    /\ events \in 0 .. MaxEvents
    /\ credit \in [Projects -> Int]
    /\ excused \subseteq Boxes

----------------------------------------------------------------------------
(* What the documentation says: when a webhook may be used, and which      *)
(* requests ask for a run; and what the filters let through besides.       *)

Enabled(m) == m \in {"open", "authenticated"}

\* A signature counts in the form the server compares, with "sha256=".
Allowed(m, tokens, credential) ==
    \/ m = "open"
    \/ /\ m = "authenticated"
       /\ \/ credential.header = "token" /\ Trimmed[credential.key] \in tokens
          \/ credential.header = "signature" /\ credential.key \in tokens

FactsNow(m, tokens, credential) ==
    (IF Enabled(m) THEN {"enabled"} ELSE {})
        \cup {IF Allowed(m, tokens, credential) THEN "allowed" ELSE "not allowed"}

Ticked(t, b) == body[t].marker /\ b \in body[t].ticked

\* The boxes of Renovate an edit of a text ticks.
TickedBy(t, after) == {t} \X (t.boxes \cap (after.ticked \ body[t].ticked))

\* An edit that ticks a box in a text of Renovate asks for a run; on Forgejo so
\* does closing or reopening its pull request.
AsksForRun(t, kind, after) ==
    /\ after.marker
    /\ \/ kind = "edited" /\ TickedBy(t, after) # {}
       \/ kind \in {"closed", "reopened"} /\ platform = "forgejo" /\ t.kind = "pull_request"

\* What else starts a run, and the documentation does not say or denies: an edit,
\* of people or of Renovate itself, that leaves anything ticked in a text of
\* Renovate, and on GitHub and Forgejo a change of its title.  The filters look
\* for any ticked item, and at the text as it is, not at what was changed.
LeavesTick(kind, after) ==
    /\ kind = "edited" \/ (kind = "retitled" /\ platform # "gitlab")
    /\ after.marker
    /\ after.ticked # {}

MayStartRun(t, kind, after) == AsksForRun(t, kind, after) \/ LeavesTick(kind, after)

----------------------------------------------------------------------------
(* renovateCheckbox.go and the filters of the three platforms.             *)

isRenovateContent(b) == ~b.empty /\ b.marker

hasCheckboxBeenChecked(b) == ~b.empty /\ b.ticked # {}

\* Defect: the box is not looked at.
AnyRenovateEdit(b) == isRenovateContent(b)

verifyRenovateDescriptionChange(b) == isRenovateContent(b) /\ hasCheckboxBeenChecked(b)

\* Defect: dashboards are forgotten.
OnlyPullRequests(m) ==
    /\ m.action = "edited"
    /\ m.event = "pull_request"
    /\ verifyRenovateDescriptionChange(m.current)

isValidGitHubEvent(m) ==
    /\ m.action = "edited"
    /\ m.event \in {"pull_request", "issue"}
    /\ ~m.current.empty
    /\ verifyRenovateDescriptionChange(m.current)

\* The description is in the payload only if it was changed.
isValidGitLabEvent(m) ==
    /\ m.event \in {"pull_request", "issue"}
    /\ m.action = "update"
    /\ verifyRenovateDescriptionChange(m.current)

isValidForgejoEvent(m) ==
    \/ /\ m.event = "issue"
       /\ m.action = "edited"
       /\ verifyRenovateDescriptionChange(m.current)
    \/ /\ m.event = "pull_request"
       /\ isRenovateContent(m.current)
       /\ \/ m.action \in {"closed", "reopened"}
          \/ m.action = "edited" /\ hasCheckboxBeenChecked(m.current)

IsValidEvent(m) ==
    \/ m.endpoint = "github" /\ isValidGitHubEvent(m)
    \/ m.endpoint = "gitlab" /\ isValidGitLabEvent(m)
    \/ m.endpoint = "forgejo" /\ isValidForgejoEvent(m)

\* The answer without a run: the request is malformed, or the event is ignored.
IsBad(m) ==
    \/ m.endpoint = "schedule" /\ m.project = NoProject
    \/ m.endpoint # "schedule" /\ ~m.decodes
    \/ m.endpoint = "forgejo" /\ m.event = "none"

----------------------------------------------------------------------------
(* The git platform and the people who use it.                             *)

\* The actions and descriptions in a payload, by platform.
ActionOf(kind) ==
    IF kind \in {"closed", "reopened"} THEN kind
    ELSE IF platform = "gitlab" THEN "update" ELSE "edited"

CurrentOf(kind, after) ==
    IF platform = "gitlab" /\ kind # "edited" THEN NoBody ELSE after

PayloadOf(t, kind, after) ==
    [endpoint |-> platform, decodes |-> TRUE, action |-> ActionOf(kind), event |-> t.kind,
     current |-> CurrentOf(kind, after), project |-> t.project, about |-> TickedBy(t, after)]

FreeIds == 1 .. MaxRequests \ {r.id : r \in requests}

\* A request is sent with the credential the platform is configured with.
Send(payload, counted) ==
    /\ FreeIds # {}
    /\ credit' = IF counted THEN [credit EXCEPT ![payload.project] = @ + 1] ELSE credit
    /\ requests' = requests \cup
          {[id         |-> CHOOSE i \in FreeIds : \A j \in FreeIds : i <= j,
            payload    |-> payload,
            credential |-> sender,
            at         |-> "sent",
            counted    |-> counted,
            facts      |-> FactsNow(mode, secret, sender)]}

SendEdit(t, kind, after) ==
    Send(PayloadOf(t, kind, after), MayStartRun(t, kind, after))

Edit(t, kind, after) ==
    /\ edits < MaxEdits
    /\ edits' = edits + 1
    /\ SendEdit(t, kind, after)
    /\ body' = [body EXCEPT ![t] = after]
    /\ UNCHANGED <<platform, admin, projects, due, events>>

\* Somebody ticks an item, a box of Renovate or another.
Tick(t, item) ==
    /\ body[t].marker
    /\ item \in (t.boxes \cup t.notes) \ body[t].ticked
    /\ Edit(t, "edited", [body[t] EXCEPT !.ticked = @ \cup {item}])
    /\ excused' = excused \ {<<t, item>>}

\* Or takes back a tick.
Untick(t, item) ==
    /\ Ticked(t, item)
    /\ Edit(t, "edited", [body[t] EXCEPT !.ticked = @ \ {item}])
    /\ UNCHANGED excused

\* Somebody replaces what Renovate wrote by a list of their own.
Rewrite(t) ==
    /\ body[t].marker
    /\ Edit(t, "edited", [empty |-> FALSE, marker |-> FALSE, ticked |-> t.boxes \cup t.notes])
    /\ UNCHANGED excused

\* A title is changed, a pull request closed or reopened.
EditOther(t, kind) ==
    /\ kind = "retitled" \/ t.kind = "pull_request"
    /\ Edit(t, kind, body[t])
    /\ UNCHANGED excused

\* An event of another kind, or a payload that is none.
Junk == {[endpoint |-> platform, decodes |-> e # "none", action |-> "edited", event |-> e,
          current |-> NoBody, project |-> p, about |-> {}] :
             e \in {"other", "none"}, p \in Projects}

\* A script calls the schedule endpoint, with or without a project.
CallSchedule(p) ==
    [endpoint |-> "schedule", decodes |-> TRUE, action |-> "none", event |-> "none",
     current |-> NoBody, project |-> p, about |-> {}]

SendPlain(payload) ==
    /\ edits < MaxEdits
    /\ edits' = edits + 1
    /\ Send(payload, payload.endpoint = "schedule" /\ payload.project # NoProject)
    /\ UNCHANGED <<platform, body, admin, projects, due, events, excused>>

----------------------------------------------------------------------------
(* The server.                                                             *)

\* The ticks a request reported are excused when the request ends without a run
\* for a reason that is not the server's filter.
Excuse(r) ==
    excused' = excused \cup r.payload.about

Goes(r, place) == requests' = (requests \ {r}) \cup {[r EXCEPT !.at = place]}

\* The check a header calls for; the form of a signature is not looked at here.
CheckOf(header) ==
    CASE header = "token" -> "token"
      [] header \in {"signature", "bare"} -> "signature"
      [] header = "none" -> "unauthorized"

\* Defect: a webhook that is not enabled is not refused.
StageIgnoringEnabled(m, header) ==
    IF m = "gone" THEN "unauthorized"
    ELSE IF m \in {"open", "disabled", "paused"} THEN "handling"
    ELSE CheckOf(header)

\* The first read of the RenovateJob: which check the request has to pass.
NextStage(m, header) ==
    IF m \in {"gone", "disabled", "paused"} THEN "unauthorized"
    ELSE IF m = "open" THEN "handling"
    ELSE CheckOf(header)

authMiddleware(r) ==
    /\ r.at = "sent"
    /\ Goes(r, NextStage(mode, r.credential.header))
    /\ IF NextStage(mode, r.credential.header) = "unauthorized"
       THEN Excuse(r) ELSE UNCHANGED excused
    /\ UNCHANGED <<people, admin, projects, due, events, credit>>

\* The tokens of the secret, as they were separated by commas.
getRenovateJobTokens == secret

\* Defect: a token is compared as it was sent.
TokenAsSent(credential) ==
    /\ mode \in {"authenticated", "paused"}
    /\ credential.key \in getRenovateJobTokens

\* The second read: the RenovateJob may have changed, and so may the secret.
\* Whether the webhook still is enabled is not asked again.
IsWebhookTokenValid(credential) ==
    /\ mode \in {"authenticated", "paused"}
    /\ Trimmed[credential.key] \in getRenovateJobTokens

\* computeHMAC256 begins with "sha256=", so a bare signature never matches.
IsWebhookSignatureValid(credential) ==
    /\ mode \in {"authenticated", "paused"}
    /\ credential.header # "bare"
    /\ credential.key \in getRenovateJobTokens

Validate(r) ==
    /\ r.at \in {"token", "signature"}
    /\ LET valid == IF r.at = "token" THEN IsWebhookTokenValid(r.credential)
                    ELSE IsWebhookSignatureValid(r.credential)
       IN /\ Goes(r, IF valid THEN "handling" ELSE "unauthorized")
          /\ IF valid THEN UNCHANGED excused ELSE Excuse(r)
    /\ UNCHANGED <<people, admin, projects, due, events, credit>>

\* The handlers: decoding, the filter, and the write with priority 1.  A request
\* for a running project is accepted and has no effect.
Filtered(r) ==
    /\ r.at = "handling"
    /\ \/ /\ IsBad(r.payload)
          /\ Goes(r, "bad")
       \/ /\ ~IsBad(r.payload)
          /\ r.payload.endpoint # "schedule"
          /\ ~IsValidEvent(r.payload)
          /\ Goes(r, "ignored")
    /\ UNCHANGED <<people, admin, projects, due, events, credit, excused>>

Passes(r) ==
    /\ r.at = "handling"
    /\ ~IsBad(r.payload)
    /\ r.payload.endpoint = "schedule" \/ IsValidEvent(r.payload)

ByWebhook == [status |-> "scheduled", priority |-> 1]

ScheduleProject(r) ==
    /\ Passes(r)
    /\ mode # "gone"
    /\ projects' = UpdateProjectStatus(projects, r.payload.project, ByWebhook)
    /\ Goes(r, "accepted")
    /\ IF projects[r.payload.project].status = "running"
       THEN Excuse(r) ELSE UNCHANGED excused
    /\ UNCHANGED <<people, admin, due, events, credit>>

\* The RenovateJob is gone, or the write fails with or without having taken
\* effect.
ScheduleFails(r) ==
    /\ Passes(r)
    /\ \/ mode = "gone" /\ UNCHANGED <<projects, events>>
       \/ /\ mode # "gone"
          /\ events < MaxEvents
          /\ events' = events + 1
          /\ projects' \in {projects, UpdateProjectStatus(projects, r.payload.project, ByWebhook)}
    /\ Goes(r, "error")
    /\ Excuse(r)
    /\ UNCHANGED <<people, admin, due, credit>>

----------------------------------------------------------------------------
(* The network, the sender, the administrators and the executor.           *)

Lose(r) ==
    /\ r.at = "sent"
    /\ events < MaxEvents
    /\ events' = events + 1
    /\ requests' = requests \ {r}
    /\ Excuse(r)
    /\ UNCHANGED <<people, admin, projects, due, credit>>

\* The answer arrives; the sender is done with the request.
Answered(r) ==
    /\ r.at \in Codes
    /\ requests' = requests \ {r}
    /\ UNCHANGED <<people, admin, projects, due, events, credit, excused>>

\* Or it is sent once more, whatever the answer was.
Redeliver(r) ==
    /\ r.at \in Codes
    /\ events < MaxEvents
    /\ events' = events + 1
    /\ requests' = (requests \ {r}) \cup
          {[r EXCEPT !.at = "sent", !.credential = sender,
                     !.facts = FactsNow(mode, secret, sender)]}
    /\ credit' = IF r.counted THEN [credit EXCEPT ![r.payload.project] = @ + 1] ELSE credit
    /\ UNCHANGED <<people, admin, projects, due, excused>>

\* A change of the configuration is seen by every request under way.
Configure(m, tokens, credential) ==
    /\ events < MaxEvents
    /\ events' = events + 1
    /\ mode' = m
    /\ secret' = tokens
    /\ sender' = credential
    /\ requests' = {IF r.at \in Codes THEN r
                    ELSE [r EXCEPT !.facts = @ \cup FactsNow(m, tokens, r.credential)
                                                \cup (IF m # mode THEN {"switched"} ELSE {})] :
                       r \in requests}
    /\ UNCHANGED <<people, credit>>

EditJob ==
    /\ mode # "gone"
    /\ \/ \E m \in Modes \ {mode, "gone"} : Configure(m, secret, sender)
       \/ \E s \in (Secrets \cup {Missing}) \ {secret} : Configure(mode, s, sender)
       \/ \E c \in Credentials \ {sender} : Configure(mode, secret, c)
    /\ UNCHANGED <<projects, due, excused>>

\* The RenovateJob is deleted, with its status and its runs.
DeleteJob ==
    /\ mode # "gone"
    /\ Configure("gone", secret, sender)
    /\ projects' = [p \in Projects |-> NotListed]
    /\ due' = [p \in Projects |-> {}]
    /\ excused' = Boxes

\* A run starts, and serves the boxes that are ticked by then.
StartRun(p) ==
    /\ projects[p].status = "scheduled"
    /\ projects' = UpdateProjectStatus(projects, p, [status |-> "running", priority |-> 0])
    /\ due' = [due EXCEPT ![p] = {x \in Boxes : x[1].project = p /\ Ticked(x[1], x[2])}]
    /\ credit' = [credit EXCEPT ![p] = @ - 1]
    /\ UNCHANGED <<people, admin, requests, events, excused>>

\* The boxes of a text that the run of its project has read as ticked.
DueIn(t) == {b \in t.boxes : <<t, b>> \in due[t.project]}

\* Renovate takes back the ticks it serves, which is an edit like any other; what
\* was ticked since the run began, and what is not Renovate's, stays ticked.
Serve(t) ==
    /\ DueIn(t) # {}
    /\ due' = [due EXCEPT ![t.project] = @ \ ({t} \X DueIn(t))]
    /\ \/ /\ \E b \in DueIn(t) : Ticked(t, b)
          /\ body' = [body EXCEPT ![t].ticked = @ \ DueIn(t)]
          /\ SendEdit(t, "edited", [body[t] EXCEPT !.ticked = @ \ DueIn(t)])
       \/ /\ \A b \in DueIn(t) : ~Ticked(t, b)
          /\ UNCHANGED <<body, requests, credit>>
    /\ UNCHANGED <<platform, edits, admin, projects, events, excused>>

\* Renovate writes a text for another reason, a new release for example.
Refresh(t) ==
    /\ projects[t.project].status = "running"
    /\ body[t].marker
    /\ events < MaxEvents
    /\ events' = events + 1
    /\ SendEdit(t, "edited", body[t])
    /\ UNCHANGED <<people, admin, projects, due, excused>>

FinishRun(p) ==
    /\ projects[p].status = "running"
    /\ due[p] = {}
    /\ projects' = UpdateProjectStatus(projects, p, [status |-> "completed", priority |-> 0])
    /\ UNCHANGED <<people, admin, due, requests, events, credit, excused>>

\* The run fails, and the boxes it has not come to stay ticked.
FailRun(p) ==
    /\ projects[p].status = "running"
    /\ events < MaxEvents
    /\ events' = events + 1
    /\ excused' = excused \cup due[p]
    /\ due' = [due EXCEPT ![p] = {}]
    /\ projects' = UpdateProjectStatus(projects, p, [status |-> "failed", priority |-> 0])
    /\ UNCHANGED <<people, admin, requests, credit>>

----------------------------------------------------------------------------

\* What Renovate writes: of the list items, only what it quotes may be ticked.
Written(t, ticked) == [empty |-> FALSE, marker |-> TRUE, ticked |-> t.notes \cap ticked]

Init ==
    /\ \E s \in Setups :
          /\ platform = s.platform /\ mode = s.mode
          /\ secret = s.secret /\ sender = s.sender
          /\ body = [t \in Texts |-> Written(t, s.ticked)]
    /\ projects = [p \in Projects |-> NotListed]
    /\ due = [p \in Projects |-> {}]
    /\ requests = {}
    /\ edits = 0 /\ events = 0
    /\ credit = [p \in Projects |-> 0]
    /\ excused = {}

Serving == \E r \in requests : authMiddleware(r) \/ Validate(r) \/ Filtered(r)
                                  \/ ScheduleProject(r) \/ ScheduleFails(r)

Next ==
    \/ \E t \in Texts, item \in Items : Tick(t, item) \/ Untick(t, item)
    \/ \E t \in Texts : Rewrite(t) \/ Serve(t) \/ Refresh(t)
    \/ \E t \in Texts, kind \in {"retitled", "closed", "reopened"} : EditOther(t, kind)
    \/ \E payload \in Junk \cup {CallSchedule(p) : p \in Projects \cup {NoProject}} :
          SendPlain(payload)
    \/ Serving
    \/ \E r \in requests : Lose(r) \/ Answered(r) \/ Redeliver(r)
    \/ EditJob \/ DeleteJob
    \/ \E p \in Projects : StartRun(p) \/ FinishRun(p) \/ FailRun(p)

Spec == Init /\ [][Next]_vars

\* Every request is handled and answered; the executor starts what is scheduled,
\* and a run that does not fail serves its boxes and ends (Executor).
Fairness ==
    /\ WF_vars(Serving \/ \E r \in requests : Answered(r))
    /\ \A p \in Projects : WF_vars(StartRun(p) \/ FinishRun(p))
    /\ SF_vars(\E t \in Texts : Serve(t))

FairSpec == Spec /\ Fairness

----------------------------------------------------------------------------
(* Properties.                                                             *)

\* Whatever the edits, repetitions and races, a project is not run more often
\* than is accounted for: by an edit that ticks a box of Renovate, by closing or
\* reopening its pull request on Forgejo, by a call of the schedule endpoint (what
\* the documentation names, AsksForRun), by an edit that leaves something ticked
\* (what it does not, LeavesTick), or by sending any of these again.  So the edit
\* with which a run takes back the last tick of a text starts no further run, nor
\* do an edit of a text without ticks or of somebody else's text, a change of
\* title on GitLab, and closing and reopening on GitHub and GitLab; and requests
\* that race, fail or are answered late start no run twice (isValidGitHubEvent,
\* isValidGitLabEvent, isValidForgejoEvent, UpdateProjectStatus).
RunsAreAskedFor ==
    \A p \in Projects :
        credit[p] >= IF projects[p].status = "scheduled" THEN 1 ELSE 0

\* A request that passed authMiddleware was sent or handled at a time when the
\* webhook was enabled, and, unless spec.webhook was changed meanwhile, at a time
\* when its token or signature was good.
AcceptedWasAllowed ==
    \A r \in requests : r.at \in {"handling", "accepted"} =>
        /\ "enabled" \in r.facts
        /\ "allowed" \in r.facts \/ "switched" \in r.facts

\* A request is not refused if it was allowed all the time it was under way, so
\* that tokens can be replaced by first adding the new one and then removing the
\* old one; a change of spec.webhook while the request is being checked may
\* refuse it (IsWebhookTokenValid returns false once authentication is disabled).
AllowedIsNotRefused ==
    \A r \in requests : r.at = "unauthorized" =>
        "not allowed" \in r.facts \/ "switched" \in r.facts

\* A box ticked in a text of Renovate is served by a run, unless its request was
\* lost, refused or failed, or found the project running: a request for a running
\* project is answered with "renovate job scheduled" and dropped
\* (validateProjectStatusScheduled).
TicksAreServed ==
    \A t \in Texts : \A b \in t.boxes :
        Ticked(t, b) ~> (~Ticked(t, b) \/ <<t, b>> \in excused)
=============================================================================
