----------------------------- MODULE Execution -----------------------------
(***************************************************************************)
(* Execution of a planned request: the orchestrator, its attempt numbers   *)
(* and its live and shadow sinks (crates/execution/src), the submit and    *)
(* reconcile providers of the venue (crates/venue-polymarket/src/          *)
(* negrisk_live.rs) and the relayer's transactions (relayer.rs).           *)
(*                                                                         *)
(* An order request reaches the venue or not, and its answer reaches the   *)
(* provider or not.  What the venue did stays: an order that rests or was  *)
(* filled, and a transaction of the relayer for a match, which fails, is   *)
(* replaced or is confirmed while the process reconciles.  References are  *)
(* tuples of a namespace, an attempt and a member; a namespace of None is  *)
(* a reference as the venue gave it, without "tx:" or "order:", and an     *)
(* attempt of None is an empty value after the namespace.                  *)
(***************************************************************************)
EXTENDS Option, Sequences, FiniteSetsExt

CONSTANTS
    ExecutionInput,   \* what callers execute: a request, a mode and a plan
    MaxExecutions     \* bound: attempts issued

ExecutionModes == {"Disabled", "Shadow", "Live", "ReduceOnly", "RecoveryOnly"}
PlanKinds == {"FullSetBuyThenMerge", "FullSetSplitThenSell", "CancelStale", "RedeemResolved",
              "NegRiskSubmitFamily"}

ASSUME ExecutionAssumption ==
    /\ MaxExecutions \in Nat
    /\ \A x \in ExecutionInput :
          x.mode \in ExecutionModes /\ x.request.activation_mode \in ExecutionModes
          /\ x.plan.kind \in PlanKinds

\* PolymarketSubmitResponse: whether the order was taken, its status, whether a
\* transaction hash is there, and whether the order id is more than blanks.
Responses ==
    [success : {TRUE}, status : {"live", "matched", "other"}, hash : BOOLEAN, named : BOOLEAN]
        \cup {[success |-> FALSE, status |-> "other", hash |-> FALSE, named |-> FALSE]}

ASSUME NoneIsNoOutcome == None \notin {"ConfirmedAuthoritative", "NeedsRecovery"}

ASSUME NoneIsNoResponse == None \notin Responses

VARIABLES
    runtimeHandle,  \* the providers' runtime_handle: none, a dedicated runtime, or the caller's
    executions,     \* attempts issued, in order, with their results and receipts
    wire,           \* external: the venue's answer to the order request under way
    venueOrders,    \* external: orders the venue took, open or closed
    relayerTxs      \* external: for each match, the states of its transactions

executionVars == <<runtimeHandle, executions, wire, venueOrders, relayerTxs>>

---------------------------------------------------------------------------
(***************************************************************************)
(* Plans and attempts                                                      *)
(***************************************************************************)

\* ExecutionPlan::route; a cancel belongs to none.
PlanRoute(plan) ==
    CASE plan.kind \in {"FullSetBuyThenMerge", "FullSetSplitThenSell", "RedeemResolved"} -> "full-set"
      [] plan.kind = "NegRiskSubmitFamily" -> "neg-risk"
      [] OTHER -> None

IsRiskExpanding(plan) ==
    plan.kind \in {"FullSetBuyThenMerge", "FullSetSplitThenSell", "NegRiskSubmitFamily"}

\* plan_family_submission: the plan of a family's target for a request of its
\* route and scope.  The members of a target are sorted, so a set.
PlanFamilySubmission(request, target) ==
    IF request.route # "neg-risk" \/ request.scope # target.family THEN None
    ELSE [kind |-> "NegRiskSubmitFamily", subject |-> target.family, members |-> target.members]

\* request_bound_plan_id: the plan's identity, whose members are canonically
\* sorted, and the request's.
RequestBoundPlanId(plan, request) == <<request.id, plan>>

\* next_attempt_no_by_plan, counted from the attempts issued.
NextAttemptNo(plan, request) ==
    Cardinality({i \in DOMAIN executions : executions[i].plan_id = RequestBoundPlanId(plan, request)})
        + 1

\* ExecutionOrchestrator::plan passes the plan on: the caller's mode is the
\* one the request was activated for, and reduce-only plans add no risk.
PlanAllowed(input) ==
    /\ input.mode = input.request.activation_mode
    /\ input.mode = "ReduceOnly" => ~IsRiskExpanding(input.plan)

---------------------------------------------------------------------------
(***************************************************************************)
(* Sinks                                                                   *)
(***************************************************************************)

Receipt(outcome, submission, pending) ==
    [outcome |-> outcome, submission_ref |-> submission, pending_ref |-> pending]
SinkError == Receipt("SinkError", None, None)
Submitting == [outcome |-> "Submitting"]

\* ensure_live_sink_mode.
LiveSinkMode(input) ==
    \/ input.mode \in {"Live", "RecoveryOnly"}
    \/ input.mode = "ReduceOnly" /\ ~IsRiskExpanding(input.plan)

\* ShadowVenueSink::execute: the attempt is recorded and nothing is sent.
ShadowExecute(input) ==
    IF input.mode = "Shadow" THEN Receipt("ShadowRecorded", None, None) ELSE SinkError

\* Mutant: a family of several members is submitted, one after the other.
SubmitFamilyMembers(members) == IF members = {} THEN SinkError ELSE Submitting

\* submit_family: one signed member, whose request goes out; a family of
\* several is refused, and so is an empty one.
SubmitFamily(members) == IF Cardinality(members) = 1 THEN Submitting ELSE SinkError

\* HookSubmitProvider::submit_family: the hook is given the signed family, of any
\* size, and nothing is sent; the receipt is pending on a reference of its own.
HookSubmitFamily(i) == Receipt("Succeeded", None, <<"pending-hook", i, None>>)

\* NegRiskRouteExecutionAdapter::submit_live of attempt i: the signer, or the hook,
\* may fail, and neg-risk families only are signed.
SubmitLive(sink, input, signs, i) ==
    IF ~signs \/ input.plan.kind # "NegRiskSubmitFamily" THEN SinkError
    ELSE IF sink = "hook" THEN HookSubmitFamily(i) ELSE SubmitFamily(input.plan.members)

\* LiveVenueSink::execute: a plan that adds risk needs the adapter of its
\* route, and only neg-risk has one; others succeed without a venue call.
LiveExecute(sink, input, signs, i) ==
    IF ~LiveSinkMode(input) THEN SinkError
    ELSE IF ~IsRiskExpanding(input.plan) THEN Receipt("Succeeded", None, None)
    ELSE IF PlanRoute(input.plan) # "neg-risk" THEN SinkError
    ELSE SubmitLive(sink, input, signs, i)

---------------------------------------------------------------------------
(***************************************************************************)
(* The submit provider                                                     *)
(***************************************************************************)

OrderRef(i, k) == <<"order", i, k>>
TxRef(i, k) == <<"tx", i, k>>
BlankOrderRef == <<"order", None, None>>
RawRef(ref) == <<None, ref[2], ref[3]>>

\* A member's submission: accepted, with its submission and pending reference,
\* refused by the venue, or an error.
Accepted(submission, pending) == [kind |-> "accepted", submission |-> submission, pending |-> pending]
Rejected == [kind |-> "rejected"]
SubmitError == [kind |-> "error"]

\* submit_order_response_to_outcome: a match is pending on its transaction, an
\* unknown status on the order, whose id is taken as it comes; a match without a
\* hash is an error.
SubmitOrderResponseToOutcome(response, i, k) ==
    LET order == IF response.named THEN OrderRef(i, k) ELSE BlankOrderRef
    IN  IF ~response.success THEN Rejected
        ELSE CASE response.status \in {"live", "unmatched", "delayed"} -> Accepted(order, None)
               [] response.status = "matched" ->
                     IF response.hash THEN Accepted(TxRef(i, k), TxRef(i, k)) ELSE SubmitError
               [] OTHER -> Accepted(order, order)

\* FamilySubmitAggregation::record keeps the first accepted and the first
\* failed result of those of the members.
FirstAccepted(results) == results[Min({k \in DOMAIN results : results[k].kind = "accepted"})]
FirstFailure(results) == results[Min({k \in DOMAIN results : results[k].kind # "accepted"})]

\* FamilySubmitAggregation::finish and receipt_from_live_submit_outcome: all
\* accepted, some (ambiguous, pending on the first submission), or none.
FinishFamily(results) ==
    LET accepted == {k \in DOMAIN results : results[k].kind = "accepted"}
        first == FirstAccepted(results)
    IN  IF accepted = DOMAIN results THEN Receipt("Succeeded", first.submission, first.pending)
        ELSE IF accepted # {} THEN Receipt("FailedAmbiguous", None, RawRef(first.submission))
        ELSE IF FirstFailure(results).kind = "rejected" THEN Receipt("FailedDefinitive", None, None)
        ELSE SinkError

---------------------------------------------------------------------------
(***************************************************************************)
(* The reconcile provider                                                  *)
(***************************************************************************)

\* parse_pending_ref: a known namespace and a value.
ParsePendingRef(ref) == ref[1] \in {"tx", "order"} /\ ref[2] # None

\* classify_transaction_state.
ClassifyTransactionState(s) ==
    CASE s \in {"NEW", "EXECUTED", "MINED"} -> "Pending"
      [] s = "CONFIRMED" -> "Confirmed"
      [] s \in {"INVALID", "FAILED"} -> "Terminal"
      [] OTHER -> "Unknown"

\* The classes of the listed transactions that match the reference
\* (matches_pending_ref).
MatchingStates(ref) ==
    IF ref \in DOMAIN relayerTxs
    THEN {ClassifyTransactionState(relayerTxs[ref][n]) : n \in DOMAIN relayerTxs[ref]} ELSE {}

\* Mutant: a failed transaction decides before one that is still pending.
ReconcileTxRefFailedFirst(ref) ==
    LET states == MatchingStates(ref)
    IN  IF "Terminal" \in states THEN "NeedsRecovery"
        ELSE IF states = {} \/ states \cap {"Pending", "Unknown"} # {} THEN "StillPending"
        ELSE "ConfirmedAuthoritative"

\* reconcile_tx_ref: pending while any matching transaction is, then confirmed
\* if one is.
ReconcileTxRef(ref) ==
    LET states == MatchingStates(ref)
    IN  IF states = {} \/ states \cap {"Pending", "Unknown"} # {} THEN "StillPending"
        ELSE IF "Confirmed" \in states THEN "ConfirmedAuthoritative" ELSE "NeedsRecovery"

\* reconcile_order_ref: confirmed by an order that rests; one that was filled
\* or cancelled is not among the open ones.
ReconcileOrderRef(ref) ==
    IF ref \in DOMAIN venueOrders /\ venueOrders[ref] = "open"
    THEN "ConfirmedAuthoritative" ELSE "StillPending"

\* ensure_runtime_handle_is_off_thread: a call through the runtime it runs on fails.
RunOnSharedRuntime == runtimeHandle # "current"

\* reconcile_tx_ref_via_gateway_runtime.
ReconcileTxRefViaGatewayRuntime(ref) == IF RunOnSharedRuntime THEN ReconcileTxRef(ref) ELSE "Error"

\* reconcile_order_ref_via_gateway_runtime.
ReconcileOrderRefViaGatewayRuntime(ref) ==
    IF RunOnSharedRuntime THEN ReconcileOrderRef(ref) ELSE "Error"

\* reconcile_live.
ReconcileLive(ref) ==
    IF ~ParsePendingRef(ref) THEN "Error"
    ELSE IF ref[1] = "tx"
    THEN IF runtimeHandle = "none" THEN ReconcileTxRef(ref) ELSE ReconcileTxRefViaGatewayRuntime(ref)
    ELSE IF runtimeHandle = "none" THEN ReconcileOrderRef(ref)
         ELSE ReconcileOrderRefViaGatewayRuntime(ref)

---------------------------------------------------------------------------
(***************************************************************************)
(* Actions                                                                 *)
(***************************************************************************)

ExecutionInit ==
    /\ runtimeHandle \in {"none", "dedicated", "current"}
    /\ executions = <<>>
    /\ wire = None
    /\ venueOrders = [r \in {} |-> "open"]
    /\ relayerTxs = [r \in {} |-> <<>>]

\* The attempt whose family is being submitted.
UnderWay(i) == i \in DOMAIN executions /\ executions[i].receipt = Submitting

\* The member of it whose request is out.
MemberUnderWay(i) == Len(executions[i].results) + 1

\* execute_with_attempt: an attempt number is taken before the sink runs, and
\* stays taken when it fails.  The call blocks, so one is under way at a time.
ExecuteWithAttempt(sink, input, signs) ==
    /\ Len(executions) < MaxExecutions
    /\ \A i \in DOMAIN executions : ~UnderWay(i)
    /\ PlanAllowed(input)
    /\ executions' = Append(executions,
            [plan_id |-> RequestBoundPlanId(input.plan, input.request),
             attempt_no |-> NextAttemptNo(input.plan, input.request), mode |-> input.mode,
             members |-> Cardinality(input.plan.members), results |-> <<>>,
             receipt |-> IF sink = "shadow" THEN ShadowExecute(input)
                         ELSE LiveExecute(sink, input, signs, Len(executions) + 1),
             reconciled |-> None])
    /\ UNCHANGED <<runtimeHandle, wire, venueOrders, relayerTxs>>

\* A map with one more entry, unless it has the key.
WithEntry(map, key, value) ==
    [r \in DOMAIN map \cup {key} |-> IF r \in DOMAIN map THEN map[r] ELSE value]

\* External: the venue takes or refuses the order and answers.
VenueAnswers(i, response) ==
    LET k == MemberUnderWay(i)
        open == IF response.status = "matched" THEN "closed" ELSE "open"
    IN  /\ UnderWay(i) /\ wire = None /\ RunOnSharedRuntime
        /\ wire' = response
        /\ venueOrders' = IF response.success
                          THEN WithEntry(venueOrders, OrderRef(i, k), open) ELSE venueOrders
        /\ relayerTxs' = IF response.success /\ response.status = "matched"
                         THEN WithEntry(relayerTxs, TxRef(i, k), <<"NEW">>) ELSE relayerTxs
        /\ UNCHANGED <<runtimeHandle, executions>>

\* The result joins the others; after the last member they make the receipt.
RecordMember(i, result) ==
    LET results == Append(executions[i].results, result)
    IN  executions' = [executions EXCEPT
            ![i].results = results,
            ![i].receipt = IF Len(results) < executions[i].members THEN Submitting
                           ELSE FinishFamily(results)]

\* submit_member_async: the answer arrives.
SubmitMember(i) ==
    /\ UnderWay(i) /\ wire # None
    /\ RecordMember(i, SubmitOrderResponseToOutcome(wire, i, MemberUnderWay(i)))
    /\ wire' = None
    /\ UNCHANGED <<runtimeHandle, venueOrders, relayerTxs>>

\* The request does not reach the venue, or its answer does not come back.
GatewayFails(i) ==
    /\ UnderWay(i)
    /\ RecordMember(i, SubmitError)
    /\ wire' = None
    /\ UNCHANGED <<runtimeHandle, venueOrders, relayerTxs>>

\* External: an order that rests is filled or cancelled.
VenueClosesOrder(r) ==
    /\ venueOrders[r] = "open"
    /\ venueOrders' = [venueOrders EXCEPT ![r] = "closed"]
    /\ UNCHANGED <<runtimeHandle, executions, wire, relayerTxs>>

\* External: the states a relayer transaction goes through.
RelayerAdvances(r, n) ==
    /\ \E after \in CASE relayerTxs[r][n] = "NEW" -> {"MINED", "INVALID", "OTHER"}
                      [] relayerTxs[r][n] \in {"MINED", "OTHER"} -> {"CONFIRMED", "FAILED"}
                      [] OTHER -> {} :
            relayerTxs' = [relayerTxs EXCEPT ![r][n] = after]
    /\ UNCHANGED <<runtimeHandle, executions, wire, venueOrders>>

\* External: the relayer replaces a transaction that is not decided.
RelayerReplaces(r) ==
    /\ Len(relayerTxs[r]) = 1
    /\ ClassifyTransactionState(relayerTxs[r][1]) \in {"Pending", "Unknown"}
    /\ relayerTxs' = [relayerTxs EXCEPT ![r] = Append(@, "NEW")]
    /\ UNCHANGED <<runtimeHandle, executions, wire, venueOrders>>

\* The pending work of an attempt is reconciled: decided, or left for later.
ReconcileWork(i) ==
    /\ ~UnderWay(i)
    /\ executions[i].receipt.pending_ref # None /\ executions[i].reconciled = None
    /\ LET outcome == ReconcileLive(executions[i].receipt.pending_ref)
       IN  /\ outcome \in {"ConfirmedAuthoritative", "NeedsRecovery"}
           /\ executions' = [executions EXCEPT ![i].reconciled = outcome]
    /\ UNCHANGED <<runtimeHandle, wire, venueOrders, relayerTxs>>

ExecutionNext ==
    \/ \E sink \in {"live", "hook", "shadow"}, x \in ExecutionInput, signs \in BOOLEAN :
          ExecuteWithAttempt(sink, x, signs)
    \/ \E i \in DOMAIN executions :
        \/ \E response \in Responses : VenueAnswers(i, response)
        \/ SubmitMember(i)
        \/ GatewayFails(i)
        \/ ReconcileWork(i)
    \/ \E r \in DOMAIN venueOrders : VenueClosesOrder(r)
    \/ \E r \in DOMAIN relayerTxs :
        \/ \E n \in DOMAIN relayerTxs[r] : RelayerAdvances(r, n)
        \/ RelayerReplaces(r)

ExecutionSpec == ExecutionInit /\ [][ExecutionNext]_executionVars

---------------------------------------------------------------------------
(***************************************************************************)
(* Properties                                                              *)
(***************************************************************************)

\* A receipt never contradicts the venue, whichever answers are lost: an attempt
\* that failed definitively has no order there, though its request may have arrived
\* without an answer, and one with a submission has every member's order there.
\* FamilySubmitAggregation::finish turns a refusal followed by an error into a
\* definitive failure, so this rests on submit_family taking one member only.
ReceiptsMatchVenue ==
    \A i \in DOMAIN executions :
        LET e == executions[i]
            taken == {k \in 1..e.members : OrderRef(i, k) \in DOMAIN venueOrders}
        IN  /\ e.receipt.outcome = "FailedDefinitive" => taken = {}
            /\ e.receipt.outcome = "Succeeded" /\ e.receipt.submission_ref # None => taken = 1..e.members

\* Recovery is asked for work whose transactions have all failed for good, and
\* a confirmation is given for work the venue did: no transaction of work that
\* needs recovery is confirmed, then or later, however often the relayer
\* replaces it (reconcile_tx_ref).
RecoveryIsFinal ==
    \A i \in DOMAIN executions :
        LET ref == executions[i].receipt.pending_ref
        IN  /\ executions[i].reconciled = "NeedsRecovery" =>
                   ref \in DOMAIN relayerTxs /\ MatchingStates(ref) = {"Terminal"}
            /\ executions[i].reconciled = "ConfirmedAuthoritative" =>
                   ref \in DOMAIN venueOrders \/ "Confirmed" \in MatchingStates(ref)
=============================================================================
