--------------------------- MODULE MCStateStore ---------------------------
(***************************************************************************)
(* Instances of StateStore for TLC: facts that open and close reconciles,  *)
(* discovery and backfill facts, orders and venue snapshots that agree or  *)
(* disagree with them.  MCOneConcern keeps a behaviour to one of these.    *)
(***************************************************************************)
EXTENDS StateStore

MCKinds ==
    [trade |-> "None", submit1 |-> "Pending", submit2 |-> "Pending",
     settled1 |-> "ReconcileTerminal", unsettled1 |-> "ReconcilePending",
     stale |-> "Attention",
     found |-> "Discovery", refound |-> "Discovery", page |-> "Backfill",
     done1 |-> "BackfillComplete", done2 |-> "BackfillComplete"]

MCJournalFacts == {"trade", "submit1", "submit2", "settled1", "unsettled1", "stale"}
MCDiscoveryFacts == {"found", "refound", "page", "done1", "done2"}
MCOrderFacts == {"trade"}

MCFacts == MCJournalFacts \cup MCDiscoveryFacts

MCKind == [f \in Fact |-> MCKinds[f]]
MCRefOf == [f \in Fact |-> IF f = "submit2" THEN "ref2" ELSE "ref1"]
MCTargetRef == [f \in Fact |-> "ref1"]
MCFamilyOf == [f \in Fact |-> "family"]
\* done2 is observed before done1: the later delivery may be the older event.
MCObservedAt == [f \in Fact |-> IF f = "done2" THEN 1 ELSE 2]

MCNoTables == [t \in Table |-> {}]
MCAllTables == [t \in Table |-> Row]

MCOrderA == [id |-> "a", hash |-> "h1", token |-> "t", condition |-> "c",
             terms |-> 1, state |-> "Open"]
MCOrderB == [MCOrderA EXCEPT !.id = "b", !.hash = None]

\* The same order filled, with other terms; an order that reuses the signed
\* hash of a, and one that puts the token under another condition.
MCOrders == {MCOrderA, [MCOrderA EXCEPT !.state = "Filled"], [MCOrderA EXCEPT !.terms = 2],
             MCOrderB, [MCOrderB EXCEPT !.hash = "h1"], [MCOrderB EXCEPT !.condition = "c2"]}

MCQuiet == [orders |-> <<>>, tables |-> MCNoTables, attention |-> FALSE]

MCJournalSnapshots == {MCQuiet, [MCQuiet EXCEPT !.attention = TRUE]}

\* One order, one with each id, or one id twice.
MCOrderLists ==
    {<<>>} \cup {<<o>> : o \in MCOrders}
    \cup {<<o, p>> : o \in {o \in MCOrders : o.id = "a"}, p \in {o \in MCOrders : o.id = "b"}}
    \cup {<<MCOrderA, [MCOrderA EXCEPT !.terms = 2]>>, <<MCOrderB, MCOrderA>>}

MCOrderSnapshots ==
    {[orders |-> os, tables |-> ts, attention |-> FALSE] :
        os \in MCOrderLists, ts \in {MCNoTables, MCAllTables}}

MCSnapshots == MCJournalSnapshots \cup MCOrderSnapshots

\* The bound of the store run: the facts of a behaviour are about reconciles,
\* under four sequence numbers, or about discovery, under five, without local
\* orders and rows; or there is one plain fact, under two, with all of them.
MCOneConcern ==
    LET consumed == {store.bound[s] : s \in JournalSeq} \ {None}
        quiet    == store.orders = {} /\ store.tables = MCNoTables
    IN  \/ quiet /\ store.bound[5] = None /\ consumed \subseteq MCJournalFacts
        \/ quiet /\ consumed \subseteq MCDiscoveryFacts
        \/ consumed \subseteq MCOrderFacts /\ \A s \in 3..5 : store.bound[s] = None
=============================================================================
