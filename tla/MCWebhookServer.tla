--------------------------- MODULE MCWebhookServer ---------------------------
(***************************************************************************)
(* One project with a pull request, that has a box of Renovate and quotes  *)
(* a list which may be ticked, and a dashboard with a box; an old and a    *)
(* new token, and the new one pasted with a space.                         *)
(***************************************************************************)
EXTENDS WebhookServer

MCTexts ==
    {[project |-> "p", kind |-> "pull_request", boxes |-> {"rebase"}, notes |-> {"note"}],
     [project |-> "p", kind |-> "issue", boxes |-> {"approve"}, notes |-> {}]}

MCKeys == {"old", "new", "new "}
MCTrimmed == [k \in MCKeys |-> IF k = "new " THEN "new" ELSE k]
MCSecrets == {{"old", "new"}, {"new"}}

Credential(header, key) == [header |-> header, key |-> key]

MCCredentials ==
    {Credential("token", "new "), Credential("signature", "old"), Credential("bare", "new"),
     Credential("none", "new")}

Setup(pf, m, tokens, credential, ticks) ==
    [platform |-> pf, mode |-> m, secret |-> tokens, sender |-> credential, ticked |-> ticks]

MCSetups ==
    {Setup("github", "authenticated", {"old", "new"}, Credential("signature", "old"), {}),
     Setup("gitlab", "authenticated", {"new"}, Credential("token", "new "), {"note"}),
     Setup("forgejo", "open", Missing, Credential("none", "new"), {"note"})}
=============================================================================
