-------------------------- MODULE GroupValidation --------------------------
(***************************************************************************)
(* Which groups of a user count, and which RenovateJobs they open:         *)
(* ui/group_validation.go and the two authorization checks of              *)
(* ui/renovateController.go, as operators.                                 *)
(*                                                                         *)
(* A group name is [id, upper, padded]: the name in lower case without     *)
(* blanks around it, and whether it is written with capitals or blanks.    *)
(* The id "" is the empty name.  The claims of a user are a list, because   *)
(* only the first ones count.  Everywhere else the code asks of a list     *)
(* whether it is empty and what is in it: there groups are sets, in which  *)
(* no name is twice.                                                       *)
(***************************************************************************)
EXTENDS Integers, Sequences

CONSTANTS
    GroupIds,         \* the ids of groups
    Malformed,        \* those too long or with characters that are not allowed
    MaxGroupsPerUser  \* maxGroupsPerUser

ASSUME GroupAssumption ==
    /\ Malformed \subseteq GroupIds
    /\ MaxGroupsPerUser \in Nat

Group == [id : GroupIds, upper : BOOLEAN, padded : BOOLEAN]

TrimSpace(g) == [g EXCEPT !.padded = FALSE]
ToLower(g) == [g EXCEPT !.upper = FALSE]

validateGroupName(g) == g.id # "" /\ g.id \notin Malformed

\* Layer 1: the first groups only; malformed ones are dropped.
sanitizeGroups(groups) ==
    LET limited == {groups[i] : i \in {k \in DOMAIN groups : k <= MaxGroupsPerUser}}
    IN  {g \in {TrimSpace(h) : h \in limited} : validateGroupName(g)}

\* Defect: capitals are kept.
TrimOnly(groups) == {TrimSpace(g) : g \in groups}

normalizeGroups(groups) == {ToLower(TrimSpace(g)) : g \in groups}

\* Layer 2: every name once, in one notation.
normalizeAndValidateGroups(groups) == {g \in normalizeGroups(groups) : g.id # ""}

\* A rule of the policy names the groups it lets through and, for a prefix, how
\* it is written; no rule lets everything through.
NoRule == [ids |-> GroupIds, upper |-> FALSE]
Rule == [ids : SUBSET GroupIds, upper : BOOLEAN]
Policy == [prefix : Rule, pattern : Rule]

Passes(g, rule) == rule = NoRule \/ (g.id \in rule.ids /\ g.upper = rule.upper)

\* Layer 3: prefix and pattern are compared with the name as layer 2 left it.
filterGroupsByPolicy(groups, policy) ==
    {g \in groups : Passes(g, policy.prefix) /\ Passes(g, policy.pattern)}

ValidateAndNormalizeGroups(groups, policy) ==
    filterGroupsByPolicy(normalizeAndValidateGroups(sanitizeGroups(groups)), policy)

\* DEFAULT_ALLOWED_GROUPS as main.go reads it.
parseDefaultGroups(groups) == {g \in normalizeGroups(groups) : g.id # ""}

-----------------------------------------------------------------------------
hasIntersection(a, b) == a \cap b # {}

\* The groups that open a RenovateJob: its own, or the default ones.
effectiveAllowedGroups(allowed, defaults) ==
    LET own == normalizeGroups(allowed) IN IF own = {} THEN defaults ELSE own

\* Whether the list of RenovateJobs shows one to a session.
filterRenovateJobsByGroups(userGroups, allowed, defaults) ==
    LET effective == effectiveAllowedGroups(allowed, defaults) IN
    effective = {} \/ hasIntersection(userGroups, effective)

\* Defect: a RenovateJob without groups of its own is open to everyone.
AuthorizeIgnoringDefaults(userGroups, allowed, defaults) ==
    allowed = {} \/ hasIntersection(userGroups, normalizeGroups(allowed))

\* Whether a request about one RenovateJob is let through.
authorizeAndGetJob(userGroups, allowed, defaults) ==
    LET effective == effectiveAllowedGroups(allowed, defaults) IN
    effective = {} \/ hasIntersection(userGroups, effective)

-----------------------------------------------------------------------------
(* What these amount to, said without the layers.                           *)

\* The ids that the claims of a user establish under a policy.
EstablishedIds(claims, policy) ==
    {claims[i].id : i \in {j \in DOMAIN claims :
        /\ j <= MaxGroupsPerUser
        /\ claims[j].id # "" /\ claims[j].id \notin Malformed
        /\ \A rule \in {policy.prefix, policy.pattern} \ {NoRule} :
              claims[j].id \in rule.ids /\ ~rule.upper}}

\* The groups a RenovateJob is reserved for: its own, or the default ones.
ReservedFor(allowed, defaults) == IF allowed = {} THEN {g \in defaults : g.id # ""} ELSE allowed

\* Whether a RenovateJob is open to a user with these ids.  One that is reserved for
\* nobody is open to everybody who has a session: that is the code's rule, where
\* docs/auth.md and the comment of AllowedGroups call such a RenovateJob hidden.
IsOpenTo(ids, allowed, defaults) ==
    LET groups == ReservedFor(allowed, defaults)
    IN  groups = {} \/ \E g \in groups : g.id \in ids
=============================================================================
