--------------------------- MODULE RuntimePolicy ---------------------------
(***************************************************************************)
(* Runtime modes, overlays and the policies that pair them                 *)
(* (crates/domain/src/runtime_mode.rs, crates/state/src/bootstrap.rs).     *)
(*                                                                         *)
(* A policy is what the rest of the program is allowed to do: CancelOnly   *)
(* forbids every new order, Healthy without an overlay allows them.        *)
(***************************************************************************)

RuntimeMode == {"Bootstrapping", "Healthy", "Reconciling", "Degraded",
                "NoNewRisk", "GlobalHalt"}

RuntimeOverlay == {"ReduceOnly", "InventoryOnly", "CancelOnly"}

\* Option<RuntimeOverlay>::None.
NoOverlay == "NoOverlay"

Overlay == RuntimeOverlay \cup {NoOverlay}

Policy == [mode : RuntimeMode, overlay : Overlay]

BootstrapPolicy == [mode |-> "Bootstrapping", overlay |-> "CancelOnly"]

ReconcileAttentionPolicy == [mode |-> "Reconciling", overlay |-> "CancelOnly"]

ReconciledPolicy == [mode |-> "Healthy", overlay |-> NoOverlay]

(***************************************************************************)
(* What the venue and the account report, and how they constrain a policy. *)
(***************************************************************************)

VenueTradingStatus == {"TradingEnabled", "TradingDisabled", "CancelOnly"}

AccountTradingStatus == {"Normal", "CloseOnly", "Geoblocked", "Banned"}

DefaultOverlay(mode) ==
    IF mode = "Bootstrapping" THEN "CancelOnly" ELSE NoOverlay

EffectiveOverlay(policy) ==
    IF policy.overlay = NoOverlay THEN DefaultOverlay(policy.mode) ELSE policy.overlay

ExternalOverlay(venue, account) ==
    CASE venue = "CancelOnly" -> "CancelOnly"
      [] venue # "CancelOnly" /\ account = "CloseOnly" -> "ReduceOnly"
      [] OTHER -> NoOverlay

\* Mutant: the newest overlay wins.
MergeOverlayNewest(current, incoming) ==
    IF incoming = NoOverlay THEN current ELSE incoming

\* Two different overlays have no meet but CancelOnly.
MergeOverlay(current, incoming) ==
    CASE current = incoming -> current
      [] current = NoOverlay -> incoming
      [] incoming = NoOverlay -> current
      [] OTHER -> "CancelOnly"

ConstrainMode(mode, venue, account) ==
    IF mode = "Healthy" /\ (venue = "CancelOnly" \/ account = "CloseOnly")
    THEN "NoNewRisk"
    ELSE mode

ConstrainedBy(policy, venue, account) ==
    CASE policy.mode = "GlobalHalt" -> policy
      [] /\ policy.mode # "GlobalHalt"
         /\ venue = "TradingDisabled" \/ account \in {"Geoblocked", "Banned"}
           -> [mode |-> "GlobalHalt", overlay |-> NoOverlay]
      [] OTHER ->
           [mode |-> ConstrainMode(policy.mode, venue, account),
            overlay |-> MergeOverlay(EffectiveOverlay(policy),
                                     ExternalOverlay(venue, account))]

=============================================================================
