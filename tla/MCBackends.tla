----------------------------- MODULE MCBackends -----------------------------
(***************************************************************************)
(* The state store of MCStateStore and what lies behind the engine, for    *)
(* TLC: the PostgreSQL repositories (identifiers and orders, family views, *)
(* execution records with the verify command that reads them) and the      *)
(* venue (metadata, execution of plans).  A behaviour steps one of them,   *)
(* its focus, and leaves the others as they were initialised.              *)
(***************************************************************************)
EXTENDS MCStateStore, Catalog, FamilyView, Verify, Metadata, Execution

VARIABLE focus

(***************************************************************************)
(* Catalog: two outcomes of a market, a second market of the condition     *)
(* that clashes with it and one that moves its token; an order, the same   *)
(* under another id or with other terms, and a retry of it.                *)
(***************************************************************************)
MCIdentifier(c, m, t, l) ==
    [family |-> "f1", event |-> "e1", condition |-> c, market |-> m, token |-> t, label |-> l, route |-> "s"]
MCIdentifiers == {MCIdentifier("c1", "m1", "t1", "yes"), MCIdentifier("c1", "m1", "t2", "no"),
                  MCIdentifier("c1", "m2", "t3", "no"), MCIdentifier("c2", "m2", "t1", "yes")}
MCSignedOrder == [id |-> "o1", market |-> "m1", condition |-> "c1", token |-> "t1", terms |-> 1,
                  hash |-> "h1", complete |-> TRUE, retry_of |-> None]
MCSignedOrders == {MCSignedOrder, [MCSignedOrder EXCEPT !.id = "o2"], [MCSignedOrder EXCEPT !.terms = 2],
                   [MCSignedOrder EXCEPT !.id = "o3", !.token = "t2", !.hash = None, !.retry_of = "o1"]}
MCAccountRows == {[key |-> "t1", value |-> "o1"], [key |-> "c1", value |-> None]}

(***************************************************************************)
(* Family views: validations of one family that replace, repeat or         *)
(* contradict each other, and its halt; a snapshot has a second family.    *)
(***************************************************************************)
MCValidation(f, r, h, status, source) ==
    [kind |-> "family_validation", family |-> f, revision |-> r, hash |-> h, status |-> status,
     source |-> source]
MCFamilyChanges ==
    {MCValidation("f1", 1, "h1", "included", "e1"), MCValidation("f1", 2, "h2", "excluded", "e2"),
     MCValidation("f1", 2, "h2", "included", "e3"),
     [MCValidation("f1", 1, "h1", "halted", "e1") EXCEPT !.kind = "family_halt"]}
MCFamilySnapshots == {[revision |-> 1, families |-> {"f1", "f2"}, source |-> "d1"],
                      [revision |-> 2, families |-> {"f1"}, source |-> "d2"]}

(***************************************************************************)
(* Execution records and verify: the shadow batch of two families, of two  *)
(* runs; a live attempt with the id of one of its attempts, and what       *)
(* follows it; verifies of every scenario and window.                      *)
(***************************************************************************)
MCAttempt(id, rank, mode, session, scope) ==
    [id |-> id, rank |-> rank, route |-> "neg-risk", scope |-> scope, mode |-> mode, snapshot |-> "s1",
     session |-> session]
MCAttemptRow(a) == [kind |-> "attempt", attempt |-> a, stream |-> None, payload |-> None]
MCArtifactRow(a) == [kind |-> "artifact", attempt |-> a, stream |-> ShadowArtifactStream, payload |-> "p"]
MCBatch(session) ==
    LET a == MCAttempt("a1", 1, "shadow", session, "f1")
        b == MCAttempt("a2", 2, "shadow", session, "f2")
    IN  [session |-> session,
         rows |-> <<MCAttemptRow(a), MCAttemptRow(b), MCArtifactRow(a), MCArtifactRow(b)>>]
MCBatches == {MCBatch("r1"), MCBatch("r2")}
MCProcessOf == [w \in {"w1", "w2"} |-> IF w = "w1" THEN "p1" ELSE "p2"]
MCLiveAttempts == {MCAttempt("a2", 2, "live", "r1", "f2")}
MCAnchor == [ref |-> "sub1", scope |-> "f2", route |-> "neg-risk", reason |-> "submitted"]
MCFollowUps ==
    {[table |-> "live_execution_artifacts", attempt |-> "a2", key |-> <<"a2", "order">>, payload |-> "p1"],
     [table |-> "live_submission_records", attempt |-> "a2", key |-> "sub1", scope |-> "f2",
      route |-> "neg-risk", state |-> "submitted", anchor |-> MCAnchor]}

MCWindow(kind) == [kind |-> kind, attempt |-> None, since |-> 0]
MCSmokeAsk == [context |-> [scenario |-> "smoke", expectation |-> "smoke-shadow-only", legacy |-> FALSE,
                            rollout |-> "ready", aligned |-> TRUE, relevant |-> "r1"],
               window |-> MCWindow("latest"), routes |-> {"neg-risk"}]
MCLiveAsk == [MCSmokeAsk EXCEPT !.context.scenario = "live",
                                !.context.expectation = "live-config-consistent"]
MCAsks == {MCSmokeAsk,
           [MCSmokeAsk EXCEPT !.context.rollout = "required", !.context.relevant = None],
           [MCSmokeAsk EXCEPT !.window = [MCWindow("attempt") EXCEPT !.attempt = "a2"]],
           [MCSmokeAsk EXCEPT !.window = [MCWindow("since") EXCEPT !.since = 1], !.routes = {}],
           [MCLiveAsk EXCEPT !.window = MCWindow("seq")],
           [MCLiveAsk EXCEPT !.context.relevant = None, !.routes = {}],
           [context |-> [scenario |-> "paper", expectation |-> "paper-no-live", legacy |-> FALSE,
                         rollout |-> None, aligned |-> FALSE, relevant |-> None],
            window |-> MCWindow("latest"), routes |-> {}]}

(***************************************************************************)
(* Metadata: events with complete and incomplete markets, a child event    *)
(* with its own neg-risk market, one that takes its condition, and one     *)
(* without an id; listings in several orders.                              *)
(***************************************************************************)
MCMarket(c, t, g) == [condition |-> c, tokens |-> t, group |-> g, title |-> "", question |-> "",
                      outcomes |-> <<"yes", "no">>, neg_risk |-> FALSE, other |-> FALSE]
MCEvent == [id |-> "a", parent |-> None, title |-> "t", neg_risk |-> TRUE, enabled |-> TRUE,
            augmented |-> TRUE,
            markets |-> {MCMarket("c1", <<"y1", "n1">>, "Alice"), MCMarket(None, <<"y9">>, "Nobody")}]
MCChildEvent == [id |-> "b", parent |-> "a", title |-> "t", neg_risk |-> FALSE, enabled |-> FALSE,
                 augmented |-> FALSE,
                 markets |-> {[MCMarket("c2", <<"y2">>, "t") EXCEPT !.neg_risk = TRUE, !.title = "Bob"],
                              MCMarket("c3", <<"y3">>, "Plain")}]
MCClashingEvent == [MCChildEvent EXCEPT !.id = "d",
                        !.markets = {[MCMarket("c2", <<"y2">>, "Dan") EXCEPT !.neg_risk = TRUE]}]
MCMalformedEvent == [MCEvent EXCEPT !.id = None]
MCListings == {<<>>, <<MCEvent, MCChildEvent>>, <<MCChildEvent, MCEvent>>, <<MCMalformedEvent>>,
               <<MCMalformedEvent, MCEvent, MCChildEvent>>, <<MCChildEvent, MCClashingEvent>>}

(***************************************************************************)
(* Execution: families of no, one and two members in every mode, and plans *)
(* of other kinds.                                                         *)
(***************************************************************************)
MCRequest(mode) == [id |-> "r1", route |-> "neg-risk", scope |-> "f", activation_mode |-> mode]
MCInput(mode, plan) == [request |-> MCRequest(mode), mode |-> mode, plan |-> plan]
MCFamilyPlan(mode, ms) == PlanFamilySubmission(MCRequest(mode), [family |-> "f", members |-> ms])
MCPlan(kind) == [kind |-> kind, subject |-> "c", members |-> {}]
MCExecutionInputs ==
    {MCInput("Live", MCFamilyPlan("Live", ms)) : ms \in {{}, {"m1"}, {"m1", "m2"}}}
    \cup {MCInput(m, MCFamilyPlan(m, {"m1"})) : m \in {"Shadow", "RecoveryOnly", "ReduceOnly"}}
    \cup {MCInput("Live", MCPlan("FullSetBuyThenMerge")), MCInput("ReduceOnly", MCPlan("CancelStale")),
          [MCInput("Live", MCPlan("CancelStale")) EXCEPT !.mode = "Shadow"]}

---------------------------------------------------------------------------
MCVars == <<focus, store, catalogVars, familyVars, verifyVars, metadataVars, executionVars>>

\* A component out of focus has one initial state.
MCInit ==
    /\ focus \in {"store", "catalog", "family", "verify", "metadata", "execution"}
    /\ StoreInit /\ CatalogInit /\ FamilyInit /\ VerifyInit
    /\ MetadataInit /\ (focus # "metadata" => listing = <<>>)
    /\ ExecutionInit /\ (focus # "execution" => runtimeHandle = "none")

\* The variables of the components of other focuses.
Others(c) ==
    /\ UNCHANGED focus
    /\ c # "store" => UNCHANGED store
    /\ c # "catalog" => UNCHANGED catalogVars
    /\ c # "family" => UNCHANGED familyVars
    /\ c # "verify" => UNCHANGED verifyVars
    /\ c # "metadata" => UNCHANGED metadataVars
    /\ c # "execution" => UNCHANGED executionVars

MCNext ==
    \/ focus = "store" /\ StoreNext /\ Others("store")
    \/ focus = "catalog" /\ CatalogNext /\ Others("catalog")
    \/ focus = "family" /\ FamilyNext /\ Others("family")
    \/ focus = "verify" /\ VerifyNext /\ Others("verify")
    \/ focus = "metadata" /\ MetadataNext /\ Others("metadata")
    \/ focus = "execution" /\ ExecutionNext /\ Others("execution")

MCSpec == MCInit /\ [][MCNext]_MCVars
=============================================================================
