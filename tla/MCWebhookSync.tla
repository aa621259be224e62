--------------------------- MODULE MCWebhookSync ---------------------------
(***************************************************************************)
(* WebhookSync for TLC: two Forgejos with two repositories each, a change  *)
(* of topic or URL at the first and a move to the second.  The first hooks *)
(* the operator creates at "a" get the ids foreign hooks have at "b".      *)
(***************************************************************************)
EXTENDS WebhookSync

MCConfigs == {[endpoint |-> "a", topic |-> "t", url |-> "u1"],
              [endpoint |-> "a", topic |-> "t2", url |-> "u2"],
              [endpoint |-> "b", topic |-> "t", url |-> "u1"]}

MCBase == [e \in Endpoints |-> IF e = "a" THEN 0 ELSE NumRepos]

\* Both repositories carry the first topic, the first one carries the others, too.
MCInitialTopics == {[p \in Places |-> IF p = <<"a", "t">> THEN Repos ELSE {1}]}
=============================================================================
