--------------------------- MODULE UiAccessProofs ---------------------------
(***************************************************************************)
(* Theorems about GroupValidation and UiAccess, for every number of tabs   *)
(* and replicas, every configuration, every list of claims and every       *)
(* number of outside events.                                               *)
(***************************************************************************)
EXTENDS UiAccess, FiniteSetTheorems, TLAPS

-----------------------------------------------------------------------------
(* The layers of the group validation.                                     *)

\* Trimming and lowering a name keeps its id and leaves neither capitals nor
\* blanks (group_validation.go:69-78).
LEMMA NormalForm ==
    ASSUME NEW g \in Group
    PROVE  /\ TrimSpace(g) \in Group
           /\ TrimSpace(g).id = g.id
           /\ ToLower(TrimSpace(g)) \in Normal
           /\ ToLower(TrimSpace(g)).id = g.id
           /\ ToLower(TrimSpace(g)).upper = FALSE
  <1> DEFINE trimmed == TrimSpace(g)
             lowered == ToLower(trimmed)
  <1>1. trimmed \in Group /\ trimmed.id = g.id /\ trimmed.padded = FALSE
    BY DEF TrimSpace, Group
  <1> HIDE DEF trimmed
  <1>2. lowered \in Group /\ lowered.id = g.id /\ lowered.upper = FALSE /\ lowered.padded = FALSE
    BY <1>1 DEF ToLower, Group
  <1>3. lowered \in Normal
    BY <1>2 DEF Normal
  <1> QED
    BY <1>1, <1>2, <1>3 DEF trimmed, lowered

\* Two names in normal form are the same if their ids are.
LEMMA NormalNames ==
    ASSUME NEW g \in Normal, NEW h \in Normal, g.id = h.id
    PROVE  g = h
  BY DEF Normal, Group

\* The three layers keep names of the user, in normal form
\* (group_validation.go:156-182).
LEMMA ValidatedIsNormal ==
    ASSUME NEW claims \in Seq(Group), NEW policy
    PROVE  ValidateAndNormalizeGroups(claims, policy) \subseteq Normal
  <1>1. sanitizeGroups(claims) \subseteq Group
    <2>1. \A k \in DOMAIN claims : claims[k] \in Group
      OBVIOUS
    <2>2. \A g \in sanitizeGroups(claims) : \E k \in DOMAIN claims : g = TrimSpace(claims[k])
      BY DEF sanitizeGroups
    <2> QED
      BY <2>1, <2>2, NormalForm
  <1>2. normalizeGroups(sanitizeGroups(claims)) \subseteq Normal
    BY <1>1, NormalForm DEF normalizeGroups
  <1> QED
    BY <1>2 DEF ValidateAndNormalizeGroups, filterGroupsByPolicy, normalizeAndValidateGroups

\* A name in lower case passes a rule if there is none, or if its id is let
\* through and the rule itself is in lower case (group_validation.go:131-146).
LEMMA PassesRule ==
    ASSUME NEW g \in Normal, NEW rule \in Rule
    PROVE  Passes(g, rule) <=> (rule # NoRule => g.id \in rule.ids /\ ~rule.upper)
  <1>1. g.upper = FALSE /\ rule.upper \in BOOLEAN
    BY DEF Normal, Group, Rule
  <1>2. (g.upper = rule.upper) <=> ~rule.upper
    BY <1>1
  <1> QED
    BY <1>2 DEF Passes

\* What the layers let through is exactly what the rule without layers says: the
\* ids of the groups of a session are the established ones
\* (group_validation.go:40-182).
LEMMA LayersAreExact ==
    ASSUME NEW claims \in Seq(Group), NEW policy \in Policy
    PROVE  {g.id : g \in ValidateAndNormalizeGroups(claims, policy)}
              = EstablishedIds(claims, policy)
  <1> DEFINE Counts(j) == /\ j <= MaxGroupsPerUser
                          /\ claims[j].id # "" /\ claims[j].id \notin Malformed
                          /\ \A rule \in {policy.prefix, policy.pattern} \ {NoRule} :
                                claims[j].id \in rule.ids /\ ~rule.upper
             Name(j) == ToLower(TrimSpace(TrimSpace(claims[j])))
             validated == ValidateAndNormalizeGroups(claims, policy)
  <1>1. \A j \in DOMAIN claims : claims[j] \in Group
    OBVIOUS
  <1>2. \A j \in DOMAIN claims : Name(j) \in Normal /\ Name(j).id = claims[j].id
    BY <1>1, NormalForm
  <1>3. policy.prefix \in Rule /\ policy.pattern \in Rule
    BY DEF Policy
  <1>4. ASSUME NEW j \in DOMAIN claims
        PROVE  (Passes(Name(j), policy.prefix) /\ Passes(Name(j), policy.pattern))
                  <=> \A rule \in {policy.prefix, policy.pattern} \ {NoRule} :
                         claims[j].id \in rule.ids /\ ~rule.upper
    <2>1. Passes(Name(j), policy.prefix)
             <=> (policy.prefix # NoRule => Name(j).id \in policy.prefix.ids /\ ~policy.prefix.upper)
      BY <1>2, <1>3, PassesRule
    <2>2. Passes(Name(j), policy.pattern)
             <=> (policy.pattern # NoRule => Name(j).id \in policy.pattern.ids /\ ~policy.pattern.upper)
      BY <1>2, <1>3, PassesRule
    <2>3. Name(j).id = claims[j].id
      BY <1>2
    <2> HIDE DEF Name
    <2> QED
      BY <2>1, <2>2, <2>3
  <1>5. sanitizeGroups(claims)
           = {TrimSpace(claims[j]) : j \in {k \in DOMAIN claims :
                 k <= MaxGroupsPerUser /\ claims[k].id # "" /\ claims[k].id \notin Malformed}}
    <2>1. \A j \in DOMAIN claims : TrimSpace(claims[j]).id = claims[j].id
      BY <1>1, NormalForm
    <2> QED
      BY <2>1 DEF sanitizeGroups, validateGroupName
  <1>6. normalizeGroups(sanitizeGroups(claims))
           = {Name(j) : j \in {k \in DOMAIN claims :
                 k <= MaxGroupsPerUser /\ claims[k].id # "" /\ claims[k].id \notin Malformed}}
    BY <1>5 DEF normalizeGroups
  <1>7. validated = {Name(j) : j \in {k \in DOMAIN claims : Counts(k)}}
    <2>1. normalizeAndValidateGroups(sanitizeGroups(claims))
             = {Name(j) : j \in {k \in DOMAIN claims :
                   k <= MaxGroupsPerUser /\ claims[k].id # "" /\ claims[k].id \notin Malformed}}
      BY <1>2, <1>6 DEF normalizeAndValidateGroups
    <2> HIDE DEF Name
    <2> QED
      BY <1>4, <2>1 DEF ValidateAndNormalizeGroups, filterGroupsByPolicy
  <1>8. EstablishedIds(claims, policy) = {claims[i].id : i \in {k \in DOMAIN claims : Counts(k)}}
    BY DEF EstablishedIds
  <1> HIDE DEF Name, Counts, validated
  <1>9. {g.id : g \in validated} = {claims[i].id : i \in {k \in DOMAIN claims : Counts(k)}}
    BY <1>2, <1>7
  <1> QED
    BY <1>8, <1>9 DEF validated

\* The groups that open a RenovateJob in normal form are the ones of the rule,
\* up to capitals and blanks (renovateController.go:62-67, main.go:309-318).
LEMMA EffectiveGroups ==
    ASSUME NEW allow \in SUBSET Group, NEW defaults \in SUBSET Group
    PROVE  LET effective == effectiveAllowedGroups(allow, parseDefaultGroups(defaults))
               groups == IF allow = {} THEN {g \in defaults : g.id # ""} ELSE allow
           IN  /\ effective \subseteq Normal
               /\ effective = {} <=> groups = {}
               /\ {g.id : g \in effective} = {g.id : g \in groups}
  <1> DEFINE Name(g) == ToLower(TrimSpace(g))
  <1>1. \A g \in Group : Name(g) \in Normal /\ Name(g).id = g.id
    BY NormalForm
  <1>2. normalizeGroups(allow) = {Name(g) : g \in allow}
    BY DEF normalizeGroups
  <1>3. parseDefaultGroups(defaults) = {Name(g) : g \in {h \in defaults : h.id # ""}}
    BY <1>1 DEF parseDefaultGroups, normalizeGroups
  <1> HIDE DEF Name
  <1>4. ASSUME NEW S \in SUBSET Group
        PROVE  /\ {Name(g) : g \in S} \subseteq Normal
               /\ {Name(g) : g \in S} = {} <=> S = {}
               /\ {h.id : h \in {Name(g) : g \in S}} = {g.id : g \in S}
    <2>1. {Name(g) : g \in S} \subseteq Normal
      BY <1>1
    <2>2. {Name(g) : g \in S} = {} <=> S = {}
      OBVIOUS
    <2>3. \A x : x \in {h.id : h \in {Name(g) : g \in S}} <=> \E g \in S : x = Name(g).id
      OBVIOUS
    <2>4. \A x : x \in {g.id : g \in S} <=> \E g \in S : x = g.id
      OBVIOUS
    <2> QED
      BY <1>1, <2>1, <2>2, <2>3, <2>4
  <1> DEFINE effective == effectiveAllowedGroups(allow, parseDefaultGroups(defaults))
             groups == IF allow = {} THEN {g \in defaults : g.id # ""} ELSE allow
  <1>5. effective = {Name(g) : g \in groups} /\ groups \in SUBSET Group
    <2>1. normalizeGroups(allow) = {} <=> allow = {}
      BY <1>2, <1>4
    <2> QED
      BY <1>2, <1>3, <2>1 DEF effectiveAllowedGroups
  <1> HIDE DEF effective, groups
  <1>6. /\ effective \subseteq Normal
        /\ effective = {} <=> groups = {}
        /\ {g.id : g \in effective} = {g.id : g \in groups}
    BY <1>4, <1>5
  <1> QED
    BY <1>6 DEF effective, groups

\* Both authorization checks, given groups in normal form, are the rule
\* (renovateController.go:44-81, 108-197).
LEMMA ChecksAreTheRule ==
    ASSUME NEW groups \in SUBSET Normal, NEW allow \in SUBSET Group,
           NEW defaults \in SUBSET Group
    PROVE  LET may == IsOpenTo({g.id : g \in groups}, allow, defaults)
           IN  /\ filterRenovateJobsByGroups(groups, allow, parseDefaultGroups(defaults)) <=> may
               /\ authorizeAndGetJob(groups, allow, parseDefaultGroups(defaults)) <=> may
  <1> DEFINE effective == effectiveAllowedGroups(allow, parseDefaultGroups(defaults))
             opening == IF allow = {} THEN {g \in defaults : g.id # ""} ELSE allow
             ids == {g.id : g \in groups}
  <1>1. /\ effective \subseteq Normal
        /\ effective = {} <=> opening = {}
        /\ {g.id : g \in effective} = {g.id : g \in opening}
    BY EffectiveGroups
  <1>2. IsOpenTo(ids, allow, defaults) <=> (opening = {} \/ \E g \in opening : g.id \in ids)
    BY DEF IsOpenTo, ReservedFor
  <1>3. /\ filterRenovateJobsByGroups(groups, allow, parseDefaultGroups(defaults))
              <=> (effective = {} \/ groups \cap effective # {})
        /\ authorizeAndGetJob(groups, allow, parseDefaultGroups(defaults))
              <=> (effective = {} \/ groups \cap effective # {})
    BY DEF filterRenovateJobsByGroups, authorizeAndGetJob, hasIntersection
  <1> HIDE DEF effective, opening
  <1>4. groups \cap effective # {} <=> \E g \in opening : g.id \in ids
    <2>1. ASSUME groups \cap effective # {} PROVE \E g \in opening : g.id \in ids
      <3>1. PICK h \in groups : h \in effective
        BY <2>1
      <3>2. h.id \in {g.id : g \in opening}
        BY <1>1, <3>1
      <3> QED
        BY <3>1, <3>2
    <2>2. ASSUME NEW g \in opening, g.id \in ids PROVE groups \cap effective # {}
      <3>1. PICK h \in groups : h.id = g.id
        BY <2>2
      <3>2. g.id \in {k.id : k \in effective}
        BY <1>1
      <3>3. PICK k \in effective : k.id = g.id
        BY <3>2
      <3>4. h = k
        BY <1>1, <3>1, <3>3, NormalNames
      <3> QED
        BY <3>4
    <2> QED
      BY <2>1, <2>2
  <1> QED
    BY <1>1, <1>2, <1>3, <1>4

-----------------------------------------------------------------------------
(* Types.                                                                  *)

\* A configuration has the types that main.go gives it.
LEMMA SetupFields ==
    ASSUME TypeOK
    PROVE  /\ setup.provider \in {"oidc", "github"}
           /\ setup.shared \in BOOLEAN
           /\ setup.policy \in Policy
           /\ setup.defaults \in SUBSET Group
  BY UiAccessAssumption DEF TypeOK

\* The empty cookie has the type of a session.
LEMMA NoSessionType == NoSession \in Session
  BY DEF NoSession, Session

\* A session made by a callback has the type of one: its groups are in normal
\* form (oidc.go:198-209).
LEMMA NewSessionType ==
    ASSUME TypeOK, NEW claims \in Claims, NEW k \in Nat
    PROVE  [key |-> k, claims |-> claims, groups |-> SessionGroups(claims), expired |-> FALSE]
              \in Session
  <1>1. SessionGroups(claims) \subseteq Normal
    BY UiAccessAssumption, ValidatedIsNormal DEF SessionGroups
  <1> QED
    BY <1>1 DEF Session

\* The counters of outside events keep their types.
LEMMA EventType ==
    ASSUME TypeOK, NEW kind \in Events, Event(kind)
    PROVE  visits' \in 0 .. MaxVisits /\ events' \in 0 .. MaxEvents /\ happened' \subseteq Events
  BY UiAccessAssumption DEF TypeOK, Event

\* The counter of visits keeps its type.
LEMMA VisitType ==
    ASSUME TypeOK, Visit
    PROVE  visits' \in 0 .. MaxVisits
  BY UiAccessAssumption DEF TypeOK, Visit

\* A key that a replica makes is one.
LEMMA NewKeyType ==
    ASSUME NEW s, NEW fresh \in Nat
    PROVE  newEncryptionKey(s, fresh) \in Nat
  BY DEF newEncryptionKey, SharedKey

\* Every place a tab is sent to is one.
LEMMA GoType ==
    ASSUME TypeOK, NEW t \in Tabs, NEW place \in AtRest \cup UnderWay, Go(t, place)
    PROVE  at' \in [Tabs -> AtRest \cup UnderWay]
  BY DEF TypeOK, Go

\* Every state of the sign-in is well typed; in particular the groups of every
\* session and of every URL are in normal form, whatever the provider asserted
\* (auth.go, oidc.go:198-209).
THEOREM UiTypeCorrect == Spec => []TypeOK
  <1>1. Init => TypeOK
    <2> SUFFICES ASSUME Init PROVE TypeOK
      OBVIOUS
    <2>1. Cardinality(Replicas) \in Nat
      BY UiAccessAssumption, FS_CardinalityType
    <2>2. key \in [Replicas -> Nat]
      <3>1. PICK fresh \in ReplicaKeys :
               key = [r \in Replicas |-> newEncryptionKey(setup, fresh[r])]
        BY DEF Init
      <3>2. \A r \in Replicas : fresh[r] \in Nat
        BY <2>1 DEF ReplicaKeys
      <3> QED
        BY <3>1, <3>2, NewKeyType
    <2>3. lastKey \in Nat
      BY <2>1 DEF Init
    <2>4. session \in Session /\ token \in [Tabs -> Session]
      BY NoSessionType DEF Init
    <2>5. at \in [Tabs -> AtRest \cup UnderWay]
      BY DEF Init, AtRest
    <2>6. stateCookie \in Tabs \cup {NoTab} /\ marker \in BOOLEAN /\ happened \subseteq Events
      BY DEF Init
    <2>7. visits \in 0 .. MaxVisits /\ events \in 0 .. MaxEvents
      BY UiAccessAssumption DEF Init
    <2>8. setup \in Setups /\ allowed \in [RenovateJobs -> AllowedSets]
      BY DEF Init
    <2> QED
      BY <2>2, <2>3, <2>4, <2>5, <2>6, <2>7, <2>8 DEF TypeOK
  <1>2. TypeOK /\ [Next]_vars => TypeOK'
    <2> SUFFICES ASSUME TypeOK, [Next]_vars PROVE TypeOK'
      OBVIOUS
    <2>1. ASSUME NEW t \in Tabs, OpenUi(t) PROVE TypeOK'
      <3>1. at' \in [Tabs -> AtRest \cup UnderWay]
        BY <2>1, GoType DEF OpenUi, UnderWay
      <3>2. visits' \in 0 .. MaxVisits
        BY <2>1, VisitType DEF OpenUi
      <3> QED
        BY <2>1, <3>1, <3>2 DEF OpenUi, TypeOK
    <2>2. ASSUME NEW t \in Tabs, HandleLogin(t) PROVE TypeOK'
      BY <2>2, GoType DEF HandleLogin, UnderWay, TypeOK, outside
    <2>3. ASSUME NEW t \in Tabs, Authenticate(t) PROVE TypeOK'
      BY <2>3, GoType DEF Authenticate, UnderWay, TypeOK, outside
    <2>4. ASSUME NEW t \in Tabs, NEW r \in Replicas, GetPage(t, r) PROVE TypeOK'
      <3>1. at' \in [Tabs -> AtRest \cup UnderWay]
        BY <2>4, GoType DEF GetPage, AtRest, UnderWay
      <3> QED
        BY <2>4, <3>1 DEF GetPage, TypeOK, outside
    <2>5. ASSUME NEW t \in Tabs, NEW r \in Replicas, HandleCallback(t, r) PROVE TypeOK'
      <3>1. at' \in [Tabs -> AtRest \cup UnderWay]
        BY <2>5, GoType DEF HandleCallback, AtRest, UnderWay
      <3>2. token' \in [Tabs -> Session]
        <4>1. key[r] \in Nat
          BY DEF TypeOK
        <4> QED
          BY <2>5, <4>1, NewSessionType DEF HandleCallback, TypeOK
      <3>3. stateCookie' \in Tabs \cup {NoTab}
        BY <2>5 DEF HandleCallback, StateAfterCallback, TypeOK
      <3> QED
        BY <2>5, <3>1, <3>2, <3>3 DEF HandleCallback, TypeOK, outside
    <2>6. ASSUME NEW t \in Tabs, NEW r \in Replicas, handleComplete(t, r) PROVE TypeOK'
      <3>1. at' \in [Tabs -> AtRest \cup UnderWay]
        BY <2>6, GoType DEF handleComplete, AtRest, UnderWay
      <3>2. token' \in [Tabs -> Session]
        BY <2>6, NoSessionType DEF handleComplete, TypeOK
      <3>3. session' \in Session /\ marker' \in BOOLEAN
        BY <2>6 DEF handleComplete, TypeOK
      <3> QED
        BY <2>6, <3>1, <3>2, <3>3 DEF handleComplete, TypeOK, outside
    <2>7. ASSUME NEW t \in Tabs, HandleLogout(t) PROVE TypeOK'
      <3>1. at' \in [Tabs -> AtRest \cup UnderWay]
        BY <2>7, GoType DEF HandleLogout, AtRest
      <3>2. visits' \in 0 .. MaxVisits
        BY <2>7, VisitType DEF HandleLogout
      <3>3. happened' \subseteq Events
        BY <2>7 DEF HandleLogout, TypeOK, Events
      <3> QED
        BY <2>7, <3>1, <3>2, <3>3, NoSessionType DEF HandleLogout, TypeOK
    <2>8. ASSUME NEW t \in Tabs, CallbackFails(t) PROVE TypeOK'
      <3>1. at' \in [Tabs -> AtRest \cup UnderWay]
        BY <2>8, GoType DEF CallbackFails, AtRest
      <3>2. visits' \in 0 .. MaxVisits /\ events' \in 0 .. MaxEvents /\ happened' \subseteq Events
        BY <2>8, EventType DEF CallbackFails, Events
      <3>3. stateCookie' \in Tabs \cup {NoTab}
        BY <2>8 DEF CallbackFails, StateAfterCallback, TypeOK
      <3> QED
        BY <2>8, <3>1, <3>2, <3>3 DEF CallbackFails, TypeOK
    <2>9. ASSUME NEW t \in Tabs, Leave(t) PROVE TypeOK'
      <3>1. at' \in [Tabs -> AtRest \cup UnderWay]
        BY <2>9, GoType DEF Leave, AtRest
      <3>2. visits' \in 0 .. MaxVisits /\ events' \in 0 .. MaxEvents /\ happened' \subseteq Events
        BY <2>9, EventType DEF Leave, Events
      <3>3. token' \in [Tabs -> Session]
        BY <2>9, NoSessionType DEF Leave, TypeOK
      <3> QED
        BY <2>9, <3>1, <3>2, <3>3 DEF Leave, TypeOK
    <2>10. ASSUME NEW t \in Tabs, NEW r \in Replicas, CallApi(t, r) PROVE TypeOK'
      BY <2>10 DEF CallApi, TypeOK, outside
    <2>11. ASSUME NEW t \in Tabs, NEW r \in Replicas, CallApiRejected(t, r) PROVE TypeOK'
      BY <2>11, GoType DEF CallApiRejected, UnderWay, TypeOK, outside
    <2>12. CASE SessionExpires
      <3>1. visits' \in 0 .. MaxVisits /\ events' \in 0 .. MaxEvents /\ happened' \subseteq Events
        BY <2>12, EventType DEF SessionExpires, Events
      <3>2. session' \in Session
        BY <2>12 DEF SessionExpires, TypeOK, Session
      <3> QED
        BY <2>12, <3>1, <3>2 DEF SessionExpires, TypeOK
    <2>13. CASE LoginCookieExpires
      <3>1. visits' \in 0 .. MaxVisits /\ events' \in 0 .. MaxEvents /\ happened' \subseteq Events
        BY <2>13, EventType DEF LoginCookieExpires, Events
      <3>2. stateCookie' \in Tabs \cup {NoTab} /\ marker' \in BOOLEAN
        BY <2>13 DEF LoginCookieExpires, TypeOK
      <3> QED
        BY <2>13, <3>1, <3>2 DEF LoginCookieExpires, TypeOK
    <2>14. ASSUME NEW r \in Replicas, RestartReplica(r) PROVE TypeOK'
      <3>1. visits' \in 0 .. MaxVisits /\ events' \in 0 .. MaxEvents /\ happened' \subseteq Events
        BY <2>14, EventType DEF RestartReplica, Events
      <3>2. newEncryptionKey(setup, lastKey + 1) \in Nat
        BY NewKeyType DEF TypeOK
      <3>3. key' \in [Replicas -> Nat] /\ lastKey' \in Nat
        BY <2>14, <3>2 DEF RestartReplica, TypeOK
      <3> QED
        BY <2>14, <3>1, <3>3 DEF RestartReplica, TypeOK, browser
    <2>15. ASSUME NEW j \in RenovateJobs, EditGroups(j) PROVE TypeOK'
      <3>1. visits' \in 0 .. MaxVisits /\ events' \in 0 .. MaxEvents /\ happened' \subseteq Events
        BY <2>15, EventType DEF EditGroups, Events
      <3>2. allowed' \in [RenovateJobs -> AllowedSets]
        BY <2>15 DEF EditGroups, TypeOK
      <3> QED
        BY <2>15, <3>1, <3>2 DEF EditGroups, TypeOK, browser
    <2>16. CASE UNCHANGED vars
      BY <2>16 DEF vars, browser, outside, TypeOK
    <2> QED
      BY <2>1, <2>2, <2>3, <2>4, <2>5, <2>6, <2>7, <2>8, <2>9, <2>10, <2>11, <2>12, <2>13,
         <2>14, <2>15, <2>16 DEF Next, Navigate
  <1> QED
    BY <1>1, <1>2, PTL DEF Spec

-----------------------------------------------------------------------------
(* Access.                                                                 *)

\* A session holds what the validation made of the claims it was made from
\* (oidc.go:198-217).
Validated(s) == s # NoSession => s.claims \in Claims /\ s.groups = SessionGroups(s.claims)

SessionsAreValidated == Validated(session) /\ \A t \in Tabs : Validated(token[t])

\* The session that the callback of a login makes on a replica.
NewSession(r, claims) ==
    [key |-> key[r], claims |-> claims, groups |-> SessionGroups(claims), expired |-> FALSE]

\* Where a session in the cookie or in a URL comes from: it was there, it was
\* handed over by a completed login, it expired, or a callback made it
\* (auth.go:207-253, 303-319, oidc.go:206-217).
LEMMA SessionSteps ==
    ASSUME TypeOK, [Next]_vars
    PROVE  /\ setup' = setup
           /\ \/ session' \in {session, NoSession}
              \/ \E t \in Tabs : session' = token[t]
              \/ session # NoSession /\ session' = [session EXCEPT !.expired = TRUE]
           /\ \A t \in Tabs :
                 \/ token'[t] \in {token[t], NoSession}
                 \/ \E r \in Replicas, claims \in Claims : token'[t] = NewSession(r, claims)
  <1> DEFINE Kept == /\ setup' = setup
                     /\ session' \in {session, NoSession}
                     /\ token' = token
  <1>1. ASSUME NEW t \in Tabs, OpenUi(t) PROVE Kept
    BY <1>1 DEF OpenUi
  <1>2. ASSUME NEW t \in Tabs, HandleLogin(t) PROVE Kept
    BY <1>2 DEF HandleLogin
  <1>3. ASSUME NEW t \in Tabs, Authenticate(t) PROVE Kept
    BY <1>3 DEF Authenticate
  <1>4. ASSUME NEW t \in Tabs, NEW r \in Replicas, GetPage(t, r) PROVE Kept
    BY <1>4 DEF GetPage
  <1>5. ASSUME NEW t \in Tabs, NEW r \in Replicas, HandleCallback(t, r)
        PROVE  /\ setup' = setup /\ session' = session
               /\ \A u \in Tabs : \/ token'[u] = token[u]
                                  \/ \E claims \in Claims : token'[u] = NewSession(r, claims)
    BY <1>5 DEF HandleCallback, NewSession, TypeOK
  <1>6. ASSUME NEW t \in Tabs, NEW r \in Replicas, handleComplete(t, r)
        PROVE  /\ setup' = setup /\ session' \in {session, token[t]}
               /\ \A u \in Tabs : token'[u] \in {token[u], NoSession}
    BY <1>6 DEF handleComplete, TypeOK
  <1>7. ASSUME NEW t \in Tabs, HandleLogout(t) PROVE Kept
    BY <1>7 DEF HandleLogout
  <1>8. ASSUME NEW t \in Tabs, CallbackFails(t) PROVE Kept
    BY <1>8 DEF CallbackFails
  <1>9. ASSUME NEW t \in Tabs, Leave(t)
        PROVE  /\ setup' = setup /\ session' = session
               /\ \A u \in Tabs : token'[u] \in {token[u], NoSession}
    BY <1>9 DEF Leave, TypeOK
  <1>10. ASSUME NEW t \in Tabs, NEW r \in Replicas, CallApi(t, r) PROVE Kept
    BY <1>10 DEF CallApi
  <1>11. ASSUME NEW t \in Tabs, NEW r \in Replicas, CallApiRejected(t, r) PROVE Kept
    BY <1>11 DEF CallApiRejected
  <1>12. ASSUME SessionExpires
         PROVE  /\ setup' = setup /\ token' = token
                /\ session # NoSession /\ session' = [session EXCEPT !.expired = TRUE]
    BY <1>12 DEF SessionExpires
  <1>13. ASSUME LoginCookieExpires PROVE Kept
    BY <1>13 DEF LoginCookieExpires
  <1>14. ASSUME NEW r \in Replicas, RestartReplica(r) PROVE Kept
    BY <1>14 DEF RestartReplica, browser
  <1>15. ASSUME NEW j \in RenovateJobs, EditGroups(j) PROVE Kept
    BY <1>15 DEF EditGroups, browser
  <1>16. ASSUME UNCHANGED vars PROVE Kept
    BY <1>16 DEF vars, browser
  <1> QED
    BY <1>1, <1>2, <1>3, <1>4, <1>5, <1>6, <1>7, <1>8, <1>9, <1>10, <1>11, <1>12, <1>13,
       <1>14, <1>15, <1>16 DEF Next, Navigate

\* No session ever holds groups that the validation did not let through.
LEMMA SessionsStayValidated == Spec => []SessionsAreValidated
  <1>1. Init => SessionsAreValidated
    BY DEF Init, SessionsAreValidated, Validated
  <1>2. TypeOK /\ SessionsAreValidated /\ [Next]_vars => SessionsAreValidated'
    <2> SUFFICES ASSUME TypeOK, SessionsAreValidated, [Next]_vars PROVE SessionsAreValidated'
      OBVIOUS
    <2> DEFINE Good(s) == s # NoSession => s.claims \in Claims /\ s.groups = SessionGroups(s.claims)
    <2>1. setup' = setup
      BY SessionSteps
    <2>2. Good(session) /\ \A t \in Tabs : Good(token[t])
      BY DEF SessionsAreValidated, Validated
    <2>3. \A r \in Replicas, claims \in Claims : Good(NewSession(r, claims))
      BY DEF NewSession
    <2>4. session # NoSession => Good([session EXCEPT !.expired = TRUE])
      <3>1. /\ [session EXCEPT !.expired = TRUE].claims = session.claims
            /\ [session EXCEPT !.expired = TRUE].groups = session.groups
        BY DEF TypeOK, Session
      <3> QED
        BY <2>2, <3>1
    <2>5. Good(NoSession)
      OBVIOUS
    <2>6. Good(session') /\ \A t \in Tabs : Good(token'[t])
      <3> HIDE DEF Good
      <3> QED
        BY <2>2, <2>3, <2>4, <2>5, SessionSteps
    <2> QED
      BY <2>1, <2>6 DEF SessionsAreValidated, Validated, SessionGroups
  <1> QED
    BY <1>1, <1>2, UiTypeCorrect, PTL DEF Spec

\* What the list of RenovateJobs shows to a session and what the handlers that check
\* let it do is the same, and it is what the user's claims, the limit, the policy
\* and the default groups say, in every state: after edits of the groups, restarts
\* and expiries, for every configuration and every list of claims.  A RenovateJob
\* reserved for no group, and the two handlers that do not check, are open to every
\* session (group_validation.go:40-182, renovateController.go:44-197, 416-452,
\* 529-561, main.go:309-318).
THEOREM AccessExact == Spec => []AccessIsExact
  <1>1. TypeOK /\ SessionsAreValidated => AccessIsExact
    <2> SUFFICES ASSUME TypeOK, SessionsAreValidated,
                        NEW s \in {session} \ {NoSession}, NEW j \in RenovateJobs
                 PROVE  LET ids == IF setup.provider = "github" THEN {}
                                   ELSE EstablishedIds(s.claims, setup.policy)
                            open == IsOpenTo(ids, allowed[j], setup.defaults)
                        IN  /\ MayList(s, j) = open
                            /\ \A route \in Routes :
                                   MayCall(route, s, j) = (open \/ route \in UncheckedRoutes)
      BY DEF AccessIsExact
    <2> DEFINE ids == IF setup.provider = "github" THEN {}
                      ELSE EstablishedIds(s.claims, setup.policy)
               open == IsOpenTo(ids, allowed[j], setup.defaults)
    <2>1. s.claims \in Claims /\ s.groups = SessionGroups(s.claims)
      BY DEF SessionsAreValidated, Validated
    <2>2. s.claims \in Seq(Group)
      BY <2>1, UiAccessAssumption
    <2>3. s.groups \in SUBSET Normal
      BY <2>1, <2>2, ValidatedIsNormal DEF SessionGroups
    <2>4. {g.id : g \in s.groups} = ids
      <3>1. CASE setup.provider = "github"
        BY <2>1, <3>1 DEF SessionGroups
      <3>2. CASE setup.provider # "github"
        BY <2>1, <2>2, <3>2, SetupFields, LayersAreExact DEF SessionGroups
      <3> QED
        BY <3>1, <3>2
    <2>5. allowed[j] \in SUBSET Group /\ setup.defaults \in SUBSET Group
      BY SetupFields, UiAccessAssumption DEF TypeOK
    <2> HIDE DEF ids
    <2>6. /\ filterRenovateJobsByGroups(s.groups, allowed[j], parseDefaultGroups(setup.defaults)) <=> open
          /\ authorizeAndGetJob(s.groups, allowed[j], parseDefaultGroups(setup.defaults)) <=> open
      BY <2>3, <2>4, <2>5, ChecksAreTheRule
    <2>7. open \in BOOLEAN /\ MayList(s, j) \in BOOLEAN
      BY DEF IsOpenTo, MayList, filterRenovateJobsByGroups
    <2>8. MayList(s, j) <=> open
      BY <2>6 DEF MayList, Defaults
    <2>9. ASSUME NEW route \in Routes
          PROVE  MayCall(route, s, j) = (open \/ route \in UncheckedRoutes)
      <3>1. MayCall(route, s, j) <=> (open \/ route \in UncheckedRoutes)
        BY <2>6 DEF MayCall, Defaults
      <3> QED
        BY <3>1 DEF MayCall
    <2> HIDE DEF open
    <2>10. MayList(s, j) = open
      BY <2>7, <2>8
    <2> QED
      BY <2>9, <2>10 DEF open, ids
  <1> QED
    BY <1>1, UiTypeCorrect, SessionsStayValidated, PTL

-----------------------------------------------------------------------------
(* Signing in.                                                             *)

\* With a shared secret every replica can read what any replica has encrypted
\* (auth.go:66-77), and a tab that completes its login carries a session.
KeysAreShared ==
    setup.shared => /\ \A r \in Replicas : key[r] = SharedKey
                    /\ \A t \in Tabs : token[t] # NoSession => token[t].key = SharedKey

TokensAreGood ==
    \A t \in Tabs : /\ at[t] = "complete" => token[t] # NoSession
                    /\ token[t] # NoSession => ~token[t].expired

\* Before the first logout or expiry a session stays readable once there is one,
\* and both a marker and a page on the screen are evidence of it.
SessionIsReadable ==
    setup.shared /\ happened \cap {"logout", "expiry"} = {} =>
        /\ session # NoSession => session.key = SharedKey /\ ~session.expired
        /\ marker => session # NoSession
        /\ \A t \in Tabs : at[t] = "page" => session # NoSession
        /\ \A t \in Tabs : at[t] # "loop"

LoginInvariant == KeysAreShared /\ TokensAreGood /\ SessionIsReadable

\* The login of a tab will get through: it has not begun, it is the one whose
\* state is in the cookie, or it has passed the callback.
OnItsWay(t) ==
    \/ at[t] \in {"home", "login", "complete"}
    \/ at[t] \in {"idp", "callback"} /\ stateCookie = t

SomeLoginIsOnItsWay ==
    setup.shared /\ happened \subseteq {"restart", "edit"} =>
        \/ session # NoSession
        \/ \A t \in Tabs : at[t] = "closed"
        \/ \E t \in Tabs : OnItsWay(t)

\* The empty cookie was made with no key, has expired, and is no new session.
LEMMA NoSessionFields ==
    /\ NoSession.key # SharedKey
    /\ \A r \in Replicas, claims \in Claims :
          /\ NewSession(r, claims) # NoSession
          /\ NewSession(r, claims).key = key[r]
          /\ ~NewSession(r, claims).expired
  <1>1. NoSession.expired = TRUE /\ NoSession.key = 0
    BY DEF NoSession
  <1>2. \A r \in Replicas, claims \in Claims : NewSession(r, claims).expired = FALSE
    BY DEF NewSession
  <1>3. \A r \in Replicas, claims \in Claims : NewSession(r, claims).key = key[r]
    BY DEF NewSession
  <1> QED
    BY <1>1, <1>2, <1>3 DEF SharedKey

\* A replica that restarts with a session secret has the key it had
\* (auth.go:66-77).
LEMMA KeysStayShared ==
    ASSUME TypeOK, KeysAreShared, [Next]_vars
    PROVE  KeysAreShared'
  <1> SUFFICES ASSUME setup'.shared
               PROVE  /\ \A r \in Replicas : key'[r] = SharedKey
                      /\ \A t \in Tabs : token'[t] # NoSession => token'[t].key = SharedKey
    BY DEF KeysAreShared
  <1>1. setup' = setup
    BY SessionSteps
  <1>2. /\ \A r \in Replicas : key[r] = SharedKey
        /\ \A t \in Tabs : token[t] # NoSession => token[t].key = SharedKey
    BY <1>1 DEF KeysAreShared
  <1>3. key' = key \/ \E r \in Replicas : key' = [key EXCEPT ![r] = newEncryptionKey(setup, lastKey + 1)]
    BY DEF Next, vars, browser, OpenUi, Navigate, HandleLogin, Authenticate, GetPage, HandleCallback,
           handleComplete, HandleLogout, CallbackFails, Leave, CallApi, CallApiRejected,
           SessionExpires, LoginCookieExpires, RestartReplica, EditGroups
  <1>4. newEncryptionKey(setup, lastKey + 1) = SharedKey
    BY <1>1 DEF newEncryptionKey
  <1>5. \A r \in Replicas : key'[r] = SharedKey
    BY <1>2, <1>3, <1>4 DEF TypeOK
  <1>6. ASSUME NEW t \in Tabs, token'[t] # NoSession PROVE token'[t].key = SharedKey
    BY <1>2, <1>6, SessionSteps, NoSessionFields
  <1> QED
    BY <1>5, <1>6

\* A tab is sent to /auth/complete with a session that has just been made
\* (oidc.go:206-217, auth.go:207-253).
LEMMA TokensStayGood ==
    ASSUME TypeOK, TokensAreGood, [Next]_vars
    PROVE  TokensAreGood'
  <1> SUFFICES ASSUME NEW t \in Tabs
               PROVE  /\ at'[t] = "complete" => token'[t] # NoSession
                      /\ token'[t] # NoSession => ~token'[t].expired
    BY DEF TokensAreGood
  <1>1. ASSUME token'[t] # NoSession PROVE ~token'[t].expired
    BY <1>1, SessionSteps, NoSessionFields DEF TokensAreGood
  <1>2. ASSUME at'[t] = "complete" PROVE token'[t] # NoSession
    <2> DEFINE Same == token'[t] = token[t] /\ (at'[t] = "complete" => at[t] = "complete")
    <2>1. ASSUME NEW u \in Tabs, OpenUi(u) PROVE Same
      BY <2>1 DEF OpenUi, Go, TypeOK
    <2>2. ASSUME NEW u \in Tabs, HandleLogin(u) PROVE Same
      BY <2>2 DEF HandleLogin, Go, TypeOK
    <2>3. ASSUME NEW u \in Tabs, Authenticate(u) PROVE Same
      BY <2>3 DEF Authenticate, Go, TypeOK
    <2>4. ASSUME NEW u \in Tabs, NEW r \in Replicas, GetPage(u, r) PROVE Same
      BY <2>4 DEF GetPage, Go, TypeOK
    <2>5. ASSUME NEW u \in Tabs, NEW r \in Replicas, HandleCallback(u, r)
          PROVE  Same \/ token'[t] # NoSession
      <3>1. CASE u = t /\ validateStateCookie(u)
        <4>1. PICK claims \in Claims : token' = [token EXCEPT ![u] = NewSession(r, claims)]
          BY <2>5, <3>1 DEF HandleCallback, NewSession
        <4>2. token'[t] = NewSession(r, claims)
          BY <3>1, <4>1 DEF TypeOK
        <4> QED
          BY <4>2, NoSessionFields
      <3>2. CASE u # t
        BY <2>5, <3>2 DEF HandleCallback, Go, TypeOK
      <3>3. CASE ~validateStateCookie(u)
        BY <2>5, <3>3 DEF HandleCallback, Go, TypeOK
      <3> QED
        BY <3>1, <3>2, <3>3
    <2>6. ASSUME NEW u \in Tabs, NEW r \in Replicas, handleComplete(u, r) PROVE Same
      BY <1>2, <2>6 DEF handleComplete, Go, TypeOK
    <2>7. ASSUME NEW u \in Tabs, HandleLogout(u) PROVE Same
      BY <2>7 DEF HandleLogout, Go, TypeOK
    <2>8. ASSUME NEW u \in Tabs, CallbackFails(u) PROVE Same
      BY <2>8 DEF CallbackFails, Go, TypeOK
    <2>9. ASSUME NEW u \in Tabs, Leave(u) PROVE Same
      BY <1>2, <2>9 DEF Leave, Go, TypeOK
    <2>10. ASSUME NEW u \in Tabs, NEW r \in Replicas, CallApi(u, r) PROVE Same
      BY <2>10 DEF CallApi
    <2>11. ASSUME NEW u \in Tabs, NEW r \in Replicas, CallApiRejected(u, r) PROVE Same
      BY <2>11 DEF CallApiRejected, Go, TypeOK
    <2>12. ASSUME SessionExpires \/ LoginCookieExpires PROVE Same
      BY <2>12 DEF SessionExpires, LoginCookieExpires
    <2>13. ASSUME NEW r \in Replicas, RestartReplica(r) PROVE Same
      BY <2>13 DEF RestartReplica, browser
    <2>14. ASSUME NEW j \in RenovateJobs, EditGroups(j) PROVE Same
      BY <2>14 DEF EditGroups, browser
    <2>15. ASSUME UNCHANGED vars PROVE Same
      BY <2>15 DEF vars, browser
    <2>16. Same \/ token'[t] # NoSession
      BY <2>1, <2>2, <2>3, <2>4, <2>5, <2>6, <2>7, <2>8, <2>9, <2>10, <2>11, <2>12, <2>13,
         <2>14, <2>15 DEF Next, Navigate
    <2> QED
      BY <1>2, <2>16 DEF TokensAreGood
  <1> QED
    BY <1>1, <1>2

\* What has happened stays on record.
LEMMA HappenedGrows ==
    ASSUME [Next]_vars
    PROVE  happened \subseteq happened'
  BY DEF Next, vars, outside, Event, OpenUi, Navigate, HandleLogin, Authenticate, GetPage,
         HandleCallback, handleComplete, HandleLogout, CallbackFails, Leave, CallApi,
         CallApiRejected, SessionExpires, LoginCookieExpires, RestartReplica, EditGroups

\* With a shared secret and before the first logout or expiry, every replica lets
\* a browser with a session in, and the marker accuses nobody
\* (auth.go:105-151, 237-245).
LEMMA SessionStaysReadable ==
    ASSUME TypeOK, LoginInvariant, [Next]_vars
    PROVE  SessionIsReadable'
  <1> SUFFICES ASSUME setup'.shared, happened' \cap {"logout", "expiry"} = {}
               PROVE  /\ session' # NoSession => session'.key = SharedKey /\ ~session'.expired
                      /\ marker' => session' # NoSession
                      /\ \A t \in Tabs : at'[t] = "page" => session' # NoSession
                      /\ \A t \in Tabs : at'[t] # "loop"
    BY DEF SessionIsReadable
  <1>1. setup.shared /\ happened \cap {"logout", "expiry"} = {}
    BY SessionSteps, HappenedGrows
  <1>2. /\ session # NoSession => session.key = SharedKey /\ ~session.expired
        /\ marker => session # NoSession
        /\ \A t \in Tabs : at[t] = "page" => session # NoSession
        /\ \A t \in Tabs : at[t] # "loop"
    BY <1>1 DEF LoginInvariant, SessionIsReadable
  <1>3. \A r \in Replicas : key[r] = SharedKey
    BY <1>1 DEF LoginInvariant, KeysAreShared
  <1>4. \A t \in Tabs : token[t] # NoSession => token[t].key = SharedKey /\ ~token[t].expired
    BY <1>1 DEF LoginInvariant, KeysAreShared, TokensAreGood
  <1> DEFINE Quiet == /\ session' = session
                      /\ marker' => marker
                      /\ \A t \in Tabs : at'[t] \in {"page", "loop"} => at'[t] = at[t]
             Goal == /\ session' # NoSession => session'.key = SharedKey /\ ~session'.expired
                     /\ marker' => session' # NoSession
                     /\ \A t \in Tabs : at'[t] = "page" => session' # NoSession
                     /\ \A t \in Tabs : at'[t] # "loop"
  <1>5. Quiet => Goal
    BY <1>2
  <1>6. ASSUME NEW u \in Tabs, OpenUi(u) PROVE Quiet
    BY <1>6 DEF OpenUi, Go, TypeOK
  <1>7. ASSUME NEW u \in Tabs, HandleLogin(u) PROVE Quiet
    BY <1>7 DEF HandleLogin, Go, TypeOK
  <1>8. ASSUME NEW u \in Tabs, Authenticate(u) PROVE Quiet
    BY <1>8 DEF Authenticate, Go, TypeOK
  <1>9. ASSUME NEW u \in Tabs, NEW r \in Replicas, GetPage(u, r) PROVE Goal
    <2>1. session' = session /\ marker' = FALSE
      BY <1>9 DEF GetPage
    <2>2. session # NoSession => getSession(r)
      BY <1>2, <1>3 DEF getSession, decryptSession
    <2>3. authMiddleware(r) # "loop" /\ (authMiddleware(r) = "pass" => session # NoSession)
      BY <1>2, <2>2 DEF authMiddleware, getSession
    <2>4. at' = [at EXCEPT ![u] = IF authMiddleware(r) = "pass" THEN "page" ELSE "login"]
      BY <1>9, <2>3 DEF GetPage, Go
    <2>5. \A t \in Tabs : at'[t] # "loop" /\ (at'[t] = "page" => session # NoSession)
      BY <1>2, <2>3, <2>4 DEF TypeOK
    <2> QED
      BY <1>2, <2>1, <2>5
  <1>10. ASSUME NEW u \in Tabs, NEW r \in Replicas, HandleCallback(u, r) PROVE Quiet
    BY <1>10 DEF HandleCallback, Go, TypeOK
  <1>11. ASSUME NEW u \in Tabs, NEW r \in Replicas, handleComplete(u, r) PROVE Goal
    <2>1. \A t \in Tabs : at'[t] \in {"page", "loop"} => at'[t] = at[t]
      BY <1>11 DEF handleComplete, Go, TypeOK
    <2>2. CASE decryptSession(r, token[u])
      <3>1. session' = token[u]
        BY <1>11, <2>2 DEF handleComplete
      <3>2. token[u] # NoSession
        BY <1>3, <2>2, NoSessionFields DEF decryptSession
      <3> QED
        BY <1>2, <1>4, <2>1, <3>1, <3>2
    <2>3. CASE ~decryptSession(r, token[u])
      <3>1. session' = session /\ marker' = marker
        BY <1>11, <2>3 DEF handleComplete
      <3> QED
        BY <1>2, <2>1, <3>1
    <2> QED
      BY <2>2, <2>3
  <1>12. ASSUME NEW u \in Tabs, HandleLogout(u) PROVE Goal
    BY <1>12 DEF HandleLogout
  <1>13. ASSUME NEW u \in Tabs, CallbackFails(u) PROVE Quiet
    BY <1>13 DEF CallbackFails, Go, TypeOK
  <1>14. ASSUME NEW u \in Tabs, Leave(u) PROVE Quiet
    BY <1>14 DEF Leave, Go, TypeOK
  <1>15. ASSUME NEW u \in Tabs, NEW r \in Replicas, CallApi(u, r) PROVE Quiet
    BY <1>15 DEF CallApi
  <1>16. ASSUME NEW u \in Tabs, NEW r \in Replicas, CallApiRejected(u, r) PROVE Quiet
    BY <1>16 DEF CallApiRejected, Go, TypeOK
  <1>17. ASSUME SessionExpires PROVE Goal
    BY <1>17 DEF SessionExpires, Event
  <1>18. ASSUME LoginCookieExpires PROVE Quiet
    BY <1>18 DEF LoginCookieExpires
  <1>19. ASSUME NEW r \in Replicas, RestartReplica(r) PROVE Quiet
    BY <1>19 DEF RestartReplica, browser
  <1>20. ASSUME NEW j \in RenovateJobs, EditGroups(j) PROVE Quiet
    BY <1>20 DEF EditGroups, browser
  <1>21. ASSUME UNCHANGED vars PROVE Quiet
    BY <1>21 DEF vars, browser
  <1> HIDE DEF Quiet, Goal
  <1>22. Goal
    BY <1>5, <1>6, <1>7, <1>8, <1>9, <1>10, <1>11, <1>12, <1>13, <1>14, <1>15, <1>16, <1>17,
       <1>18, <1>19, <1>20, <1>21 DEF Next, Navigate
  <1> QED
    BY <1>22 DEF Goal

\* The inductive invariant of the sign-in.
LEMMA LoginsStayGood == Spec => []LoginInvariant
  <1>1. Init => LoginInvariant
    <2> SUFFICES ASSUME Init PROVE LoginInvariant
      OBVIOUS
    <2>1. KeysAreShared
      BY DEF Init, KeysAreShared, newEncryptionKey
    <2>2. TokensAreGood
      BY DEF Init, TokensAreGood
    <2>3. SessionIsReadable
      BY DEF Init, SessionIsReadable
    <2> QED
      BY <2>1, <2>2, <2>3 DEF LoginInvariant
  <1>2. TypeOK /\ LoginInvariant /\ [Next]_vars => LoginInvariant'
    BY KeysStayShared, TokensStayGood, SessionStaysReadable DEF LoginInvariant
  <1> QED
    BY <1>1, <1>2, UiTypeCorrect, PTL DEF Spec

\* The error of the loop detection never accuses a correct setup: with a shared
\* secret, any number of tabs and replicas, restarts, failed exchanges and lost
\* cookies, it needs a logout or an expiry to appear (auth.go:112-127, 237-245).
THEOREM LoopErrorIsDeserved == Spec => []NoFalseLoopError
  <1>1. LoginInvariant => NoFalseLoopError
    BY DEF LoginInvariant, SessionIsReadable, NoFalseLoopError
  <1> QED
    BY <1>1, LoginsStayGood, PTL

-----------------------------------------------------------------------------
(* Overlapping logins.                                                     *)

\* A login that will get through is replaced only by another one: the state
\* cookie names the tab that began last, and a callback that does not match it
\* leaves it alone (auth.go:265-301, oidc.go:154-158).
LEMMA SomeLoginStaysOnItsWay ==
    ASSUME TypeOK, LoginInvariant, SomeLoginIsOnItsWay, [Next]_vars
    PROVE  SomeLoginIsOnItsWay'
  <1> SUFFICES ASSUME setup'.shared, happened' \subseteq {"restart", "edit"}, session' = NoSession
               PROVE  \/ \A t \in Tabs : at'[t] = "closed"
                      \/ \E t \in Tabs : OnItsWay(t)'
    BY DEF SomeLoginIsOnItsWay
  <1>1. setup.shared /\ happened \subseteq {"restart", "edit"}
    BY SessionSteps, HappenedGrows
  <1>2. \/ session # NoSession
        \/ \A t \in Tabs : at[t] = "closed"
        \/ \E t \in Tabs : OnItsWay(t)
    BY <1>1 DEF SomeLoginIsOnItsWay
  <1>3. /\ marker => session # NoSession
        /\ \A t \in Tabs : at[t] = "page" => session # NoSession
    BY <1>1 DEF LoginInvariant, SessionIsReadable
  <1> DEFINE Goal == \/ \A t \in Tabs : at'[t] = "closed"
                     \/ \E t \in Tabs : OnItsWay(t)'
             Quiet == session' = session /\ stateCookie' = stateCookie /\ at' = at
             Elsewhere(u) == \A t \in Tabs \ {u} : at'[t] = at[t]
  <1>4. Quiet => Goal
    BY <1>2 DEF OnItsWay
  <1>5. ASSUME NEW u \in Tabs, OpenUi(u) PROVE Goal
    <2>1. at'[u] = "home"
      BY <1>5 DEF OpenUi, Go, TypeOK
    <2> QED
      BY <2>1 DEF OnItsWay
  <1>6. ASSUME NEW u \in Tabs, HandleLogin(u) PROVE Goal
    <2>1. at'[u] = "idp" /\ stateCookie' = u
      BY <1>6 DEF HandleLogin, Go, TypeOK
    <2> QED
      BY <2>1 DEF OnItsWay
  <1>7. ASSUME NEW u \in Tabs, Authenticate(u) PROVE Goal
    <2>1. /\ at[u] = "idp" /\ at'[u] = "callback" /\ Elsewhere(u)
          /\ session' = session /\ stateCookie' = stateCookie
      BY <1>7 DEF Authenticate, Go, TypeOK
    <2> QED
      BY <1>2, <2>1 DEF OnItsWay
  <1>8. ASSUME NEW u \in Tabs, NEW r \in Replicas, GetPage(u, r) PROVE Goal
    <2>1. session = NoSession
      BY <1>8 DEF GetPage
    <2>2. authMiddleware(r) = "reject"
      BY <1>3, <2>1 DEF authMiddleware, getSession
    <2>3. at'[u] = "login"
      BY <1>8, <2>2 DEF GetPage, Go, TypeOK
    <2> QED
      BY <2>3 DEF OnItsWay
  <1>9. ASSUME NEW u \in Tabs, NEW r \in Replicas, HandleCallback(u, r) PROVE Goal
    <2>1. CASE stateCookie = u
      <3>1. at'[u] = "complete"
        BY <1>9, <2>1 DEF HandleCallback, validateStateCookie, Go, TypeOK
      <3> QED
        BY <3>1 DEF OnItsWay
    <2>2. CASE stateCookie # u
      <3>1. /\ at[u] = "callback" /\ Elsewhere(u)
            /\ session' = session /\ stateCookie' = stateCookie
        BY <1>9, <2>2 DEF HandleCallback, validateStateCookie, StateAfterCallback, Go, TypeOK
      <3> QED
        BY <1>2, <2>2, <3>1 DEF OnItsWay
    <2> QED
      BY <2>1, <2>2
  <1>10. ASSUME NEW u \in Tabs, NEW r \in Replicas, handleComplete(u, r) PROVE Goal
    <2>1. token[u] # NoSession
      BY <1>10 DEF handleComplete, LoginInvariant, TokensAreGood
    <2>2. decryptSession(r, token[u])
      BY <1>1, <2>1 DEF LoginInvariant, KeysAreShared, decryptSession
    <2>3. session' = token[u]
      BY <1>10, <2>2 DEF handleComplete
    <2> QED
      BY <2>1, <2>3
  <1>11. ASSUME NEW u \in Tabs, HandleLogout(u) PROVE Goal
    BY <1>11 DEF HandleLogout
  <1>12. ASSUME NEW u \in Tabs, CallbackFails(u) \/ Leave(u) PROVE Goal
    BY <1>12 DEF CallbackFails, Leave, Event
  <1>13. ASSUME NEW u \in Tabs, NEW r \in Replicas, CallApi(u, r) PROVE Quiet
    BY <1>13 DEF CallApi
  <1>14. ASSUME NEW u \in Tabs, NEW r \in Replicas, CallApiRejected(u, r) PROVE Goal
    <2>1. at'[u] = "login"
      BY <1>14 DEF CallApiRejected, Go, TypeOK
    <2> QED
      BY <2>1 DEF OnItsWay
  <1>15. ASSUME SessionExpires \/ LoginCookieExpires PROVE Goal
    BY <1>15 DEF SessionExpires, LoginCookieExpires, Event
  <1>16. ASSUME NEW r \in Replicas, RestartReplica(r) PROVE Quiet
    BY <1>16 DEF RestartReplica, browser
  <1>17. ASSUME NEW j \in RenovateJobs, EditGroups(j) PROVE Quiet
    BY <1>17 DEF EditGroups, browser
  <1>18. ASSUME UNCHANGED vars PROVE Quiet
    BY <1>18 DEF vars, browser
  <1> HIDE DEF Quiet, Goal
  <1>19. Goal
    BY <1>4, <1>5, <1>6, <1>7, <1>8, <1>9, <1>10, <1>11, <1>12, <1>13, <1>14, <1>15, <1>16,
       <1>17, <1>18 DEF Next, Navigate
  <1> QED
    BY <1>19 DEF Goal

\* Logins in any number of tabs overwrite each other's state, and still one of
\* them gets through: when all tabs have come to rest without a disturbance from
\* outside, the browser has a session (auth.go:265-301, oidc.go:154-158,
\* github_oauth.go:71-76).
THEOREM SomeLoginSucceeds == Spec => []SomeLoginGetsThrough
  <1>1. Init => SomeLoginIsOnItsWay
    BY DEF Init, SomeLoginIsOnItsWay
  <1>2. TypeOK /\ LoginInvariant /\ SomeLoginIsOnItsWay /\ [Next]_vars => SomeLoginIsOnItsWay'
    BY SomeLoginStaysOnItsWay
  <1>3. SomeLoginIsOnItsWay => SomeLoginGetsThrough
    BY DEF SomeLoginIsOnItsWay, SomeLoginGetsThrough, OnItsWay, AtRest
  <1> QED
    BY <1>1, <1>2, <1>3, UiTypeCorrect, LoginsStayGood, PTL DEF Spec

=============================================================================
