----------------------------- MODULE MCUiAccess -----------------------------
(***************************************************************************)
(* Configurations, claims and groups for TLC.  Groups are "a" and "b", of  *)
(* which only "a" has the configured prefix, the malformed "x" and "".     *)
(***************************************************************************)
EXTENDS UiAccess

Plain(id) == [id |-> id, upper |-> FALSE, padded |-> FALSE]
Upper(id) == [id |-> id, upper |-> TRUE, padded |-> FALSE]
Padded(id) == [id |-> id, upper |-> TRUE, padded |-> TRUE]

NoPolicy == [prefix |-> NoRule, pattern |-> NoRule]
PrefixA == [prefix |-> [ids |-> {"a"}, upper |-> FALSE], pattern |-> NoRule]
UpperPrefix == [prefix |-> [ids |-> {"a"}, upper |-> TRUE], pattern |-> NoRule]

MCSetups ==
    {[provider |-> "oidc",   shared |-> TRUE,  policy |-> NoPolicy,    defaults |-> {}],
     [provider |-> "oidc",   shared |-> TRUE,  policy |-> PrefixA,     defaults |-> {Padded("b"), Plain("")}],
     [provider |-> "oidc",   shared |-> FALSE, policy |-> UpperPrefix, defaults |-> {}],
     [provider |-> "github", shared |-> TRUE,  policy |-> NoPolicy,    defaults |-> {Plain("a")}]}

MCClaims == {<<Padded("a"), Upper("b"), Plain("b")>>, <<Plain("x"), Plain("a"), Plain("b")>>,
             <<Upper("b"), Plain("b"), Padded("a")>>}

MCAllowedSets == {{}, {Upper("a"), Plain("x")}, {Padded("b")}}
=============================================================================
