-------------------------------- MODULE Risk --------------------------------
(***************************************************************************)
(* Rollout rules, activation and the decision on an intent (crates/risk/   *)
(* src: rollout.rs, activation.rs, engine.rs).  A policy has at most one   *)
(* rule and one overlay per route and scope; the wording of a decision and *)
(* the id of the rule it matched are left out.                             *)
(***************************************************************************)
EXTENDS Option

CONSTANT DefaultScope   \* the rollout scope "default", which matches every scope

\* ActivationPolicy::from_rules: later rules of a scope replace earlier ones.
FromRules(rules) ==
    [rules |-> rules, overlays |-> << >>, clamp_live |-> FALSE, clamp_to_shadow |-> FALSE]

WithRealUserShadowSmoke(policy) == [policy EXCEPT !.clamp_to_shadow = TRUE]

\* The value of a map at a key, or None.
Get(map, key) == IF key \in DOMAIN map THEN map[key] ELSE None

\* The rule of the scope itself, else the one of the default scope.
ResolveRule(rules, route, scope) ==
    LET own == Get(rules, <<route, scope>>)
    IN  IF own # None THEN own ELSE Get(rules, <<route, DefaultScope>>)

IsRiskExpandingRoute(route) == route \in {"full-set", "neg-risk"}

\* The smoke clamp comes first and hides the one of phase one.
ClampMode(policy, route, mode) ==
    IF policy.clamp_to_shadow
    THEN IF IsRiskExpandingRoute(route) /\ mode = "Live" THEN "Shadow" ELSE mode
    ELSE IF policy.clamp_live /\ route = "neg-risk" /\ mode = "Live" THEN "Disabled" ELSE mode

\* The mode of activation_for: an overlay, a rule, or Disabled, clamped.
ActivationFor(policy, route, scope) ==
    LET overlay == Get(policy.overlays, <<route, scope>>)
        rule    == ResolveRule(policy.rules, route, scope)
    IN  ClampMode(policy, route, CASE overlay # None -> overlay
                                   [] overlay = None /\ rule # None -> rule
                                   [] OTHER -> "Disabled")

\* evaluate_decision: reduce-only and recovery-only admit no strategy intent.
EvaluateDecision(input, mode) ==
    IF \/ mode = "Disabled"
       \/ input = "Strategy" /\ mode \in {"ReduceOnly", "RecoveryOnly"}
    THEN "Rejected" ELSE "Approved"
=============================================================================
