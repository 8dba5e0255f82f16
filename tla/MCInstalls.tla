----------------------------- MODULE MCInstalls -----------------------------
(* Two workspaces over one store: a lockfile whose tree is clean, and one     *)
(* whose install may write its own path anywhere.                             *)
EXTENDS Installs, TLC

MCProduces == <<"modules", "build">>
MCBakes == (1 :> {"nowhere"}) @@ (2 :> {"nowhere", "plain", "rendered"})
Workspaces == Permutations(Instance)
=============================================================================
