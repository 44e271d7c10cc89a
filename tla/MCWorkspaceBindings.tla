------------------------- MODULE MCWorkspaceBindings -------------------------
(* WorkspaceBindings for TLC: GitHub and another provider, of which the registry holds one at a time. *)
EXTENDS WorkspaceBindings, TLC

CONSTANTS b1, b2, w1, w2, ann, github, slack, read, write, k1

\* GitHub's objects require the same scopes, those of the other provider do not.
MCOffers ==
  (GitHub :> [status : {"available", "disabled"}, requires : {{write}}]) @@
  (slack :> {[status |-> "degraded", requires |-> {read, write}],
             [status |-> "unavailable", requires |-> {read}]})
MCNamed == {{read}, {read, write}}
MCCredentialOf == k1 :> [provider |-> GitHub, user |-> ann, workspace |-> w1]

BindingSymmetry == Permutations({b1, b2})
=============================================================================
