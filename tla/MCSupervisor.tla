---------------------------- MODULE MCSupervisor ----------------------------
(***************************************************************************)
(* Instances of Supervisor and of the runtime by itself, for TLC: inputs   *)
(* of each kind, among them the reports that settle the live submit or     *)
(* leave it open, and an account that lets the bootstrap succeed or not or *)
(* holds an order or rows.  A behaviour is that of a supervisor with       *)
(* inputs of every kind, of one with the inputs that let it submit again,  *)
(* or of a runtime whose calls come in any order: its focus.               *)
(***************************************************************************)
EXTENDS Supervisor, AppRuntime

CONSTANT Focus   \* the focuses a run considers

VARIABLE focus

MCKinds ==
    [trade |-> "None", stale |-> "Attention", found |-> "Discovery", page |-> "Backfill",
     late |-> "Pending", settled |-> "ReconcileTerminal", unsettled |-> "ReconcilePending",
     resettled |-> "ReconcileTerminal", submit |-> "Pending", resubmit |-> "Pending",
     lastsubmit |-> "Pending"]

MCFacts == DOMAIN MCKinds
MCEveryInput == {"trade", "stale", "found", "page", "late", "settled", "unsettled"}
MCInputs == MCEveryInput \cup {"resettled"}
MCTwoInputs == {"trade", "late"}
MCKind == [f \in Fact |-> MCKinds[f]]
MCLiveFact == [v \in 0..2 |-> IF v = 2 THEN "lastsubmit" ELSE IF v = 1 THEN "resubmit" ELSE "submit"]
MCRefOf ==
    [f \in Fact |->
        CASE f = "submit" -> "live" [] f = "resubmit" -> "relive" [] f = "lastsubmit" -> "last" [] OTHER -> "ref1"]
MCTargetRef == [f \in Fact |-> IF f = "resettled" THEN "relive" ELSE "live"]
MCFamilyOf == [f \in Fact |-> "family"]
MCObservedAt == [f \in Fact |-> 1]

MCOrder == [id |-> "a", hash |-> "h1", token |-> "t", condition |-> "c", terms |-> 1, state |-> "Open"]
MCOrders == {MCOrder}

MCQuiet == [orders |-> <<>>, tables |-> [t \in Table |-> {}], attention |-> FALSE]

MCBootstrapSnapshots == {MCQuiet, [MCQuiet EXCEPT !.attention = TRUE]}

\* An account that holds one order, or rows of one table.
MCSnapshots ==
    MCBootstrapSnapshots \cup {[MCQuiet EXCEPT !.orders = <<MCOrder>>]}
        \cup {[MCQuiet EXCEPT !.tables[t] = Row] : t \in {"approvals", "relayer_txs", "inventory"}}

---------------------------------------------------------------------------
MCVars == <<focus, vars, runtimeVars>>

\* A supervisor out of focus has one initial state.
MCInit ==
    /\ focus \in Focus
    /\ SupervisorInit /\ (focus = "runtime" => snapshot = MCQuiet)
    /\ RuntimeInit

\* What a focus is given of the inputs, the journal numbers and the crashes.
\* Neither is promised to come, so no fairness is lost.
MCGiven ==
    /\ focus = "supervisor" =>
           \A i \in DOMAIN sup'.queue : sup'.queue[i].seq <= 3 /\ sup'.queue[i].fact \in MCEveryInput
    /\ focus = "settled" =>
           /\ crashes' <= 1
           /\ \A i \in DOMAIN sup'.queue : sup'.queue[i].fact \in {"trade", "unsettled", "resettled"}
    /\ focus = "runtime" =>
           \A s \in JournalSeq : s > 3 \/ store'.bound[s] \in {"resettled", "lastsubmit"} => store'.bound[s] = None

MCNext ==
    /\ UNCHANGED focus
    /\ \/ focus # "runtime" /\ SupervisorNext /\ UNCHANGED runtimeVars
       \/ focus = "runtime" /\ RuntimeNext /\ UNCHANGED vars
    /\ MCGiven

\* The fairness of SupervisorSpec.
MCSpec == MCInit /\ [][MCNext]_MCVars /\ WF_pc(focus # "runtime" /\ MovesOn)
=============================================================================
