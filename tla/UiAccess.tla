------------------------------ MODULE UiAccess ------------------------------
(***************************************************************************)
(* Signing in to the web UI and what a session then shows: ui/auth.go with *)
(* the handlers of ui/oidc.go and ui/github_oauth.go, and the access       *)
(* checks of ui/renovateController.go through GroupValidation.             *)
(*                                                                         *)
(* The operator keeps no sessions: the encrypted session is in a cookie.   *)
(* One browser with several tabs, which share their cookies, talks to      *)
(* several replicas; each request reaches any of them.  Without a session  *)
(* secret every process has a key of its own.  Cookies expire, users log   *)
(* out or walk away, replicas restart, and administrators change the       *)
(* groups of RenovateJobs, all at any time.                                *)
(*                                                                         *)
(* The random state of a login is represented by the tab that began it: a  *)
(* tab has one login under way, and a new one replaces the cookie.         *)
(***************************************************************************)
EXTENDS GroupValidation, FiniteSets, Functions

CONSTANTS
    Tabs, Replicas, RenovateJobs,
    Setups,      \* configurations [provider, shared, policy, defaults] of the operator
    Claims,      \* the lists of groups the identity provider may assert
    AllowedSets, \* the values of spec.allowedGroups
    MaxVisits,   \* bound: how often the user opens the UI or logs out
    MaxEvents    \* bound: how many of the other outside events happen

Events == {"expiry", "forgotten", "logout", "leave", "exchange", "restart", "edit"}

ASSUME UiAccessAssumption ==
    /\ \A s \in Setups : /\ s.provider \in {"oidc", "github"}
                         /\ s.shared \in BOOLEAN
                         /\ s.policy \in Policy
                         /\ s.defaults \subseteq Group
    /\ Claims \subseteq Seq(Group)
    /\ AllowedSets \subseteq SUBSET Group
    /\ IsFiniteSet(Replicas)
    /\ MaxVisits \in Nat
    /\ MaxEvents \in Nat

VARIABLES
    setup,        \* the configuration of the operator
    key,          \* the encryption key of each replica
    lastKey,      \* the random keys given out
    stateCookie,  \* the cookie oauth_state
    session,      \* the cookie renovate_session
    marker,       \* the cookie auth_completed
    at,           \* where each tab is
    token,        \* the encrypted session in its URL
    allowed,      \* spec.allowedGroups of each RenovateJob
    visits, events, happened

browser == <<stateCookie, session, marker, at, token>>
outside == <<visits, events, happened>>
vars == <<setup, key, lastKey, browser, allowed, outside>>

NoTab == "no tab"
NoSession == [key |-> 0, claims |-> <<>>, groups |-> {}, expired |-> TRUE]
SharedKey == 1

AtRest == {"closed", "page", "failed", "loop", "loggedOut"}
UnderWay == {"home", "login", "idp", "callback", "complete"}

Normal == {g \in Group : ~g.upper /\ ~g.padded}
Session == [key : Nat, claims : Claims \cup {<<>>}, groups : SUBSET Normal, expired : BOOLEAN]

TypeOK ==
    /\ setup \in Setups
    /\ key \in [Replicas -> Nat]
    /\ lastKey \in Nat
    /\ stateCookie \in Tabs \cup {NoTab}
    /\ session \in Session
    /\ marker \in BOOLEAN
    /\ at \in [Tabs -> AtRest \cup UnderWay]
    /\ token \in [Tabs -> Session]
    /\ allowed \in [RenovateJobs -> AllowedSets]
    /\ visits \in 0 .. MaxVisits
    /\ events \in 0 .. MaxEvents
    /\ happened \subseteq Events

\* With a session secret the key is derived from it, otherwise it is random.
newEncryptionKey(s, fresh) == IF s.shared THEN SharedKey ELSE fresh

ReplicaKeys == {f \in [Replicas -> 2 .. Cardinality(Replicas) + 1] : IsInjective(f)}

Init ==
    /\ setup \in Setups
    /\ \E fresh \in ReplicaKeys : key = [r \in Replicas |-> newEncryptionKey(setup, fresh[r])]
    /\ lastKey = Cardinality(Replicas) + 1
    /\ stateCookie = NoTab
    /\ session = NoSession
    /\ marker = FALSE
    /\ at = [t \in Tabs |-> "closed"]
    /\ token = [t \in Tabs |-> NoSession]
    /\ allowed \in [RenovateJobs -> AllowedSets]
    /\ visits = 0
    /\ events = 0
    /\ happened = {}

Event(kind) ==
    /\ events < MaxEvents
    /\ events' = events + 1
    /\ happened' = happened \cup {kind}
    /\ UNCHANGED visits

Visit == visits < MaxVisits /\ visits' = visits + 1

Go(t, place) == at' = [at EXCEPT ![t] = place]

-----------------------------------------------------------------------------
(* ui/auth.go                                                               *)

decryptSession(r, value) == value.key = key[r]

\* The session a replica reads from the cookie of a request.
getSession(r) == session # NoSession /\ decryptSession(r, session) /\ ~session.expired

\* Defect: the marker of a completed login is not looked at.
MiddlewareWithoutMarker(r) == IF getSession(r) THEN "pass" ELSE "reject"

\* Defect: the marker is looked at before the session.
MiddlewareMarkerFirst(r) ==
    IF marker THEN "loop" ELSE IF getSession(r) THEN "pass" ELSE "reject"

\* A readable session passes; without one, the marker of a login that has just
\* been completed means that logging in again would not help.  The marker does
\* not survive either answer.
authMiddleware(r) ==
    IF getSession(r) THEN "pass" ELSE IF marker THEN "loop" ELSE "reject"

\* The user opens the UI.
OpenUi(t) ==
    /\ at[t] \in AtRest
    /\ Visit
    /\ Go(t, "home")
    /\ UNCHANGED <<setup, key, lastKey, stateCookie, session, marker, token, allowed, events,
                   happened>>

\* GET /: the page, the error of the loop detection, or a redirect to the login.
GetPage(t, r) ==
    /\ at[t] = "home"
    /\ LET answer == authMiddleware(r) IN
       Go(t, IF answer = "pass" THEN "page" ELSE IF answer = "loop" THEN "loop" ELSE "login")
    /\ marker' = FALSE
    /\ UNCHANGED <<setup, key, lastKey, stateCookie, session, token, allowed, outside>>

\* A request of the page to /api is answered, by a list (MayList) or an error ...
CallApi(t, r) ==
    /\ at[t] = "page"
    /\ authMiddleware(r) # "reject"
    /\ marker' = FALSE
    /\ UNCHANGED <<setup, key, lastKey, stateCookie, session, at, token, allowed, outside>>

\* ... or by 401, which makes the page send its tab to the login.
CallApiRejected(t, r) ==
    /\ at[t] = "page"
    /\ authMiddleware(r) = "reject"
    /\ Go(t, "login")
    /\ UNCHANGED <<setup, key, lastKey, stateCookie, session, marker, token, allowed, outside>>

\* The login puts a new state in the cookie and in the URL of the provider.
HandleLogin(t) ==
    /\ at[t] = "login"
    /\ stateCookie' = t
    /\ Go(t, "idp")
    /\ UNCHANGED <<setup, key, lastKey, session, marker, token, allowed, outside>>

\* The provider authenticates the user, or remembers them, and redirects back.
Authenticate(t) ==
    /\ at[t] = "idp"
    /\ Go(t, "callback")
    /\ UNCHANGED <<setup, key, lastKey, stateCookie, session, marker, token, allowed, outside>>

\* The groups of a session; GitHub asserts none.
SessionGroups(claims) ==
    IF setup.provider = "github" THEN {} ELSE ValidateAndNormalizeGroups(claims, setup.policy)

validateStateCookie(t) == stateCookie = t

\* Defect: the state is cleared before it is validated.
StateAfterClear(t) == NoTab

\* The cookie after a callback: it is cleared once it has been validated.
StateAfterCallback(t) == IF validateStateCookie(t) THEN NoTab ELSE stateCookie

\* The session goes into the URL of /auth/complete, encrypted by this replica.
HandleCallback(t, r) ==
    /\ at[t] = "callback"
    /\ stateCookie' = StateAfterCallback(t)
    /\ IF validateStateCookie(t)
       THEN /\ Go(t, "complete")
            /\ \E claims \in Claims :
                  token' = [token EXCEPT ![t] =
                               [key |-> key[r], claims |-> claims,
                                groups |-> SessionGroups(claims), expired |-> FALSE]]
       ELSE Go(t, "failed") /\ UNCHANGED token
    /\ UNCHANGED <<setup, key, lastKey, session, marker, allowed, outside>>

\* The exchange of the code, the token or the user data fails.
CallbackFails(t) ==
    /\ at[t] = "callback"
    /\ validateStateCookie(t)
    /\ Event("exchange")
    /\ stateCookie' = StateAfterCallback(t)
    /\ Go(t, "failed")
    /\ UNCHANGED <<setup, key, lastKey, session, marker, token, allowed>>

\* The replica that can decrypt the session makes it the cookie.
handleComplete(t, r) ==
    /\ at[t] = "complete"
    /\ IF decryptSession(r, token[t])
       THEN session' = token[t] /\ marker' = TRUE /\ Go(t, "home")
       ELSE Go(t, "failed") /\ UNCHANGED <<session, marker>>
    /\ token' = [token EXCEPT ![t] = NoSession]
    /\ UNCHANGED <<setup, key, lastKey, stateCookie, allowed, outside>>

\* Logging out clears the session but not the marker, and revokes the token of
\* GitHub without waiting for the outcome.
HandleLogout(t) ==
    /\ at[t] = "page"
    /\ Visit
    /\ session' = NoSession
    /\ happened' = happened \cup {"logout"}
    /\ Go(t, "loggedOut")
    /\ UNCHANGED <<setup, key, lastKey, stateCookie, marker, token, allowed, events>>

-----------------------------------------------------------------------------
(* Time, the user, the cluster and the administrators.                      *)

SessionExpires ==
    /\ session # NoSession /\ ~session.expired
    /\ Event("expiry")
    /\ session' = [session EXCEPT !.expired = TRUE]
    /\ UNCHANGED <<setup, key, lastKey, stateCookie, marker, at, token, allowed>>

\* The short-lived cookies of a login.
LoginCookieExpires ==
    /\ Event("forgotten")
    /\ \/ stateCookie # NoTab /\ stateCookie' = NoTab /\ UNCHANGED marker
       \/ marker /\ marker' = FALSE /\ UNCHANGED stateCookie
    /\ UNCHANGED <<setup, key, lastKey, session, at, token, allowed>>

\* The user closes a tab in the middle of a login.
Leave(t) ==
    /\ at[t] \in UnderWay
    /\ Event("leave")
    /\ Go(t, "closed")
    /\ token' = [token EXCEPT ![t] = NoSession]
    /\ UNCHANGED <<setup, key, lastKey, stateCookie, session, marker, allowed>>

RestartReplica(r) ==
    /\ Event("restart")
    /\ key' = [key EXCEPT ![r] = newEncryptionKey(setup, lastKey + 1)]
    /\ lastKey' = lastKey + 1
    /\ UNCHANGED <<setup, browser, allowed>>

EditGroups(j) ==
    /\ Event("edit")
    /\ allowed' \in {[allowed EXCEPT ![j] = groups] : groups \in AllowedSets \ {allowed[j]}}
    /\ UNCHANGED <<setup, key, lastKey, browser>>

Navigate(t) ==
    \/ HandleLogin(t) \/ Authenticate(t)
    \/ \E r \in Replicas : GetPage(t, r) \/ HandleCallback(t, r) \/ handleComplete(t, r)

Next ==
    \/ \E t \in Tabs : \/ OpenUi(t) \/ Navigate(t) \/ HandleLogout(t)
                       \/ CallbackFails(t) \/ Leave(t)
                       \/ \E r \in Replicas : CallApi(t, r) \/ CallApiRejected(t, r)
    \/ SessionExpires \/ LoginCookieExpires
    \/ \E r \in Replicas : RestartReplica(r)
    \/ \E j \in RenovateJobs : EditGroups(j)

Spec == Init /\ [][Next]_vars

\* A tab follows its redirects.
Fairness == \A t \in Tabs : WF_vars(Navigate(t))

FairSpec == Spec /\ Fairness

-----------------------------------------------------------------------------
(* Properties.                                                              *)

Defaults == parseDefaultGroups(setup.defaults)

\* The list of RenovateJobs.
MayList(s, j) == filterRenovateJobsByGroups(s.groups, allowed[j], Defaults)

\* The requests about one RenovateJob.  Running all its projects and setting its
\* execution options take a session, but never ask for its groups.
UncheckedRoutes == {"/renovate/all", "/executionOptions"}
Routes == {"/renovate", "/logs", "/discovery/start", "/discovery/status"} \cup UncheckedRoutes

MayCall(route, s, j) ==
    route \in UncheckedRoutes \/ authorizeAndGetJob(s.groups, allowed[j], Defaults)

\* A request of another tab takes away the marker this one has just been given.
MarkerTakenFrom(t) == at[t] = "home" /\ at'[t] = "home" /\ marker /\ ~marker'

\* A page that was shown is lost again to a rejected request of its own.
PageLost(t) == at[t] = "page" /\ at'[t] = "login"

\* With a shared secret every tab comes to rest for good.  Without one, a replica
\* shows the page and the next rejects its request, which begins a login anew, and
\* that may go on for ever; but this, and a marker taken away again and again, is
\* all that keeps a tab from its rest: the redirects between the login, its
\* completion and the page end by themselves, also when no replica can read what
\* another one encrypted (auth.go:112-127, 136-151, index.html:479-480).
NavigationEnds ==
    \A t \in Tabs :
        \/ <>[](at[t] \in AtRest)
        \/ ~setup.shared /\ ([]<><<PageLost(t)>>_vars \/ []<><<MarkerTakenFrom(t)>>_vars)

\* The loop detection does not accuse a correct setup: with a shared secret its
\* error appears only after a logout or an expiry (auth.go:112-127, 237-245).
NoFalseLoopError ==
    setup.shared /\ happened \cap {"logout", "expiry"} = {} =>
        \A t \in Tabs : at[t] # "loop"

\* Logins in two tabs overwrite each other's state, but one of them gets through:
\* when all tabs have come to rest without outside disturbance, the browser has a
\* session (auth.go:265-301, oidc.go:154-158, github_oauth.go:71-76).
SomeLoginGetsThrough ==
    /\ setup.shared
    /\ happened \subseteq {"restart", "edit"}
    /\ \A t \in Tabs : at[t] \in AtRest
    /\ \E t \in Tabs : at[t] # "closed"
    => session # NoSession

\* The list of RenovateJobs and the four handlers that check agree on what a
\* session may see and do, and it is what the claims of the user say: a group they
\* were asserted, up to capitals and blanks, within the limit and the policy, is one
\* the RenovateJob is reserved for - or it is reserved for nobody, neither by its own
\* groups nor by the default ones.  The two handlers that do not check are open to
\* every session (group_validation.go, renovateController.go:44-197, 416-452,
\* 529-561, main.go:309-318).
AccessIsExact ==
    \A s \in {session} \ {NoSession} : \A j \in RenovateJobs :
        LET ids == IF setup.provider = "github" THEN {} ELSE EstablishedIds(s.claims, setup.policy)
            open == IsOpenTo(ids, allowed[j], setup.defaults)
        IN  /\ MayList(s, j) = open
            /\ \A route \in Routes : MayCall(route, s, j) = (open \/ route \in UncheckedRoutes)
=============================================================================
