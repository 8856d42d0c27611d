--------------------------- MODULE PolicyReports ---------------------------
(***************************************************************************)
(* A runtime policy constrained by one report of the venue and the account *)
(* after another (RuntimePolicy::constrained_by).                          *)
(***************************************************************************)
EXTENDS Naturals, FiniteSets, RuntimePolicy

CONSTANT MaxSeen    \* bound: different reports in a behaviour

VARIABLES
    start,      \* the policy before any report
    policy,     \* the policy now
    seen        \* the reports so far

policyVars == <<start, policy, seen>>

Report == VenueTradingStatus \X AccountTradingStatus

PolicyInit ==
    /\ start \in Policy
    /\ policy = start
    /\ seen = {}

Constrain(report) ==
    /\ report \in seen \/ Cardinality(seen) < MaxSeen
    /\ policy' = ConstrainedBy(policy, report[1], report[2])
    /\ seen' = seen \cup {report}
    /\ UNCHANGED start

PolicyNext == \E report \in Report : Constrain(report)

PolicySpec == PolicyInit /\ [][PolicyNext]_policyVars

---------------------------------------------------------------------------

Halting(report) == report[1] = "TradingDisabled" \/ report[2] \in {"Geoblocked", "Banned"}

Constraining(report) == report[1] = "CancelOnly" \/ report[2] = "CloseOnly"

\* What a set of reports asks for, without regard to their order.
Overlays ==
    ({EffectiveOverlay(start)} \cup {ExternalOverlay(r[1], r[2]) : r \in seen}) \ {NoOverlay}

Meet(overlays) ==
    IF overlays = {} THEN NoOverlay
    ELSE IF Cardinality(overlays) = 1 THEN CHOOSE o \in overlays : TRUE ELSE "CancelOnly"

Expected ==
    CASE seen = {} \/ start.mode = "GlobalHalt" -> start
      [] /\ seen # {} /\ start.mode # "GlobalHalt"
         /\ \E r \in seen : Halting(r) -> [mode |-> "GlobalHalt", overlay |-> NoOverlay]
      [] OTHER -> [mode    |-> IF start.mode = "Healthy" /\ \E r \in seen : Constraining(r)
                               THEN "NoNewRisk" ELSE start.mode,
                   overlay |-> Meet(Overlays)]

\* The policy depends on the reports that were seen and neither on their order
\* nor on how often each came: it is the start constrained by the strictest of
\* them (constrained_by, merge_overlay, constrain_mode).
OrderIndependent == policy = Expected

=============================================================================
