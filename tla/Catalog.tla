------------------------------ MODULE Catalog ------------------------------
(***************************************************************************)
(* The identifier catalog, the signed orders and the account states of the *)
(* database (crates/persistence/src/repos.rs: IdentifierRepo, OrderRepo,   *)
(* ApprovalRepo, InventoryRepo, ResolutionRepo; IdentifierMap of           *)
(* crates/domain/src/identifiers.rs).                                      *)
(*                                                                         *)
(* upsert_record and insert_signed_order are transactions of several       *)
(* statements under READ COMMITTED: a statement sees what is committed     *)
(* when it starts, an insert waits for an open transaction that holds a    *)
(* row with the same unique key, and rows of a transaction that fails are  *)
(* gone.  The upserts of account states are single statements.             *)
(***************************************************************************)
EXTENDS Option, FiniteSets

CONSTANTS
    CatalogSession, \* connections, each of which makes one call at a time
    CatalogRecord,  \* identifier records a client may store
    SignedOrder,    \* signed order rows a client may store
    AccountRow      \* rows of account states: a key and a value, for a bucket its linked order

\* IdentifierRecord, and NewOrderRow with its terms as one value and its four
\* signed fields as a hash and whether all four are there.
RecordFields == {"family", "event", "condition", "market", "token", "label", "route"}
OrderFields == {"id", "market", "condition", "token", "terms", "hash", "complete", "retry_of"}

ASSUME CatalogAssumption ==
    /\ \A r \in CatalogRecord : DOMAIN r = RecordFields
    /\ \A o \in SignedOrder : DOMAIN o = OrderFields /\ o.complete \in BOOLEAN
    /\ \A a \in AccountRow : DOMAIN a = {"key", "value"}

VARIABLES
    tables,     \* committed rows of each table
    openRows,   \* rows inserted by the open transaction of each session
    callOf,     \* what each session is doing: a stage, the row it stores and where
    acknowledged \* history: the rows whose call returned Ok

catalogVars == <<tables, openRows, callOf, acknowledged>>

Tables == {"event_families", "events", "conditions", "markets", "tokens", "identifier_map",
           "orders", "approval_states", "inventory_buckets", "resolution_states"}
NoRows == [t \in Tables |-> {}]
NoCall == [stage |-> "idle", row |-> None, into |-> None]

\* The tables whose rows a caller asks for; the others follow from them.
StoredTables == {"identifier_map", "orders"}

---------------------------------------------------------------------------
(***************************************************************************)
(* Rows                                                                    *)
(***************************************************************************)

\* The row of a record in each table.
RowOf(t, r) ==
    CASE t = "event_families" -> [family |-> r.family]
      [] t = "events" -> [event |-> r.event, family |-> r.family]
      [] t = "conditions" -> [condition |-> r.condition, event |-> r.event]
      [] t = "markets" -> [market |-> r.market, condition |-> r.condition, event |-> r.event,
                           route |-> r.route]
      [] t = "tokens" -> [token |-> r.token, condition |-> r.condition, label |-> r.label]
      [] OTHER -> r

\* Mutant: a condition may have several markets.
MarketsClashById(a, b) == a.market = b.market

\* A market has one condition and a condition one market.
MarketsClash(a, b) == a.market = b.market \/ a.condition = b.condition

IdentifiersClash(a, b) == a.token = b.token \/ (a.condition = b.condition /\ a.label = b.label)

OrdersClash(a, b) == a.id = b.id \/ (a.hash # None /\ a.hash = b.hash)

\* The unique keys of the tables: rows that cannot both be there.
RowsClash(t, a, b) ==
    CASE t = "event_families" -> a.family = b.family
      [] t = "events" -> a.event = b.event
      [] t = "conditions" -> a.condition = b.condition
      [] t = "markets" -> MarketsClash(a, b)
      [] t = "tokens" -> a.token = b.token
      [] t = "identifier_map" -> IdentifiersClash(a, b)
      [] OTHER -> OrdersClash(a, b)

\* insert_token_metadata: a token has one condition and one label.
TokenMetadataAgrees(r, s) ==
    r.token = s.token => r.condition = s.condition /\ r.label = s.label

\* merge_condition_metadata and merge_metadata, of records, which carry
\* everything: a condition has one route, market, event and family.
ConditionMetadataAgrees(r, s) ==
    r.condition = s.condition =>
        r.route = s.route /\ r.market = s.market /\ r.event = s.event /\ r.family = s.family

\* IdentifierMap::from_records builds a map of the records, and does not fail.
FromRecords(records) ==
    \A r, s \in records : TokenMetadataAgrees(r, s) /\ ConditionMetadataAgrees(r, s)

ListRecords == tables["identifier_map"]

---------------------------------------------------------------------------
(***************************************************************************)
(* Transactions                                                            *)
(***************************************************************************)

CatalogInit ==
    /\ tables = NoRows
    /\ openRows = [s \in CatalogSession |-> NoRows]
    /\ callOf = [s \in CatalogSession |-> NoCall]
    /\ acknowledged = [t \in StoredTables |-> {}]

ToStage(s, stage) == callOf' = [callOf EXCEPT ![s].stage = stage]

\* An error returns and drops the transaction, which rolls it back.
FailCall(s) ==
    /\ callOf' = [callOf EXCEPT ![s] = NoCall]
    /\ openRows' = [openRows EXCEPT ![s] = NoRows]
    /\ UNCHANGED <<tables, acknowledged>>

\* The insert has to wait for another transaction that holds a unique key of it.
InsertBlocked(s, t, row) == \E q \in CatalogSession \ {s} : \E x \in openRows[q][t] : RowsClash(t, x, row)

\* An error that only the connection can make: the call fails where it is.
ConnectionLost(s) == callOf[s] # NoCall /\ FailCall(s)

InsertRow(s, t, row) == openRows' = [openRows EXCEPT ![s][t] = @ \cup {row}]

\* INSERT ... ON CONFLICT DO NOTHING, and, when nothing was inserted, a SELECT
\* that must find the same row.
InsertOrConfirm(s, t, next) ==
    /\ callOf[s].stage = t
    /\ UNCHANGED acknowledged
    /\ LET row == RowOf(t, callOf[s].row)
           hits == {x \in tables[t] : RowsClash(t, x, row)}
       IN  /\ ~InsertBlocked(s, t, row)
           /\ \/ hits = {} /\ InsertRow(s, t, row) /\ ToStage(s, next) /\ UNCHANGED tables
              \/ row \in hits /\ ToStage(s, next) /\ UNCHANGED <<tables, openRows>>
              \/ hits # {} /\ row \notin hits /\ FailCall(s)

\* upsert_record and validate_record_in_tx.
UpsertRecord(s, r) ==
    /\ callOf[s] = NoCall
    /\ FromRecords(ListRecords \cup {r})
    /\ callOf' = [callOf EXCEPT ![s] = [stage |-> "event_families", row |-> r, into |-> "identifier_map"]]
    /\ UNCHANGED <<tables, openRows, acknowledged>>

InsertOrConfirmEventFamily(s) == InsertOrConfirm(s, "event_families", "events")
InsertOrConfirmEvent(s) == InsertOrConfirm(s, "events", "conditions")
InsertOrConfirmCondition(s) == InsertOrConfirm(s, "conditions", "markets")
InsertOrConfirmMarket(s) == InsertOrConfirm(s, "markets", "tokens")
InsertOrConfirmToken(s) == InsertOrConfirm(s, "tokens", "identifier_map")
InsertOrConfirmIdentifierMap(s) == InsertOrConfirm(s, "identifier_map", "commit")

\* The commit; a caller whose connection breaks before the answer is told of an
\* error, and the rows stay.
CommitCall(s) ==
    /\ callOf[s].stage = "commit"
    /\ \/ acknowledged' = [acknowledged EXCEPT ![callOf[s].into] = @ \cup {callOf[s].row}]
       \/ UNCHANGED acknowledged
    /\ tables' = [t \in Tables |-> tables[t] \cup openRows[s][t]]
    /\ openRows' = [openRows EXCEPT ![s] = NoRows]
    /\ callOf' = [callOf EXCEPT ![s] = NoCall]

\* insert_signed_order: signed fields come all four or not at all, and no other
\* order may have the hash.
InsertSignedOrder(s, o) ==
    /\ callOf[s] = NoCall
    /\ o.complete
    /\ o.hash # None => ~\E x \in tables["orders"] : x.hash = o.hash /\ x.id # o.id
    /\ callOf' = [callOf EXCEPT ![s] = [stage |-> "orders", row |-> o, into |-> "orders"]]
    /\ UNCHANGED <<tables, openRows, acknowledged>>

\* The foreign keys of an order, checked against what is committed; an order may
\* name itself.
Linked(o) ==
    /\ \E r \in tables["identifier_map"] :
           <<r.market, r.condition, r.token>> = <<o.market, o.condition, o.token>>
    /\ o.retry_of \in {None, o.id} \cup {x.id : x \in tables["orders"]}

\* Mutant: a row under the same id is taken for the same order.
InsertOrderRowById(s) ==
    /\ callOf[s].stage = "orders"
    /\ UNCHANGED acknowledged
    /\ LET o == callOf[s].row
           clash == \E x \in tables["orders"] : RowsClash("orders", x, o)
           known == \E x \in tables["orders"] : x.id = o.id
       IN  /\ ~InsertBlocked(s, "orders", o)
           /\ \/ known /\ ToStage(s, "commit") /\ UNCHANGED <<tables, openRows>>
              \/ ~clash /\ Linked(o) /\ InsertRow(s, "orders", o) /\ ToStage(s, "commit") /\ UNCHANGED tables
              \/ ~known /\ (clash \/ ~Linked(o)) /\ FailCall(s)

\* The insert: the same row again is accepted (order_row_matches_input), another
\* one under its id, one under its hash, or one without its links is refused.
InsertOrderRow(s) ==
    /\ callOf[s].stage = "orders"
    /\ UNCHANGED acknowledged
    /\ LET o == callOf[s].row
           clash == \E x \in tables["orders"] : RowsClash("orders", x, o)
           known == o \in tables["orders"]
       IN  /\ ~InsertBlocked(s, "orders", o)
           /\ \/ known /\ ToStage(s, "commit") /\ UNCHANGED <<tables, openRows>>
              \/ ~clash /\ Linked(o) /\ InsertRow(s, "orders", o) /\ ToStage(s, "commit") /\ UNCHANGED tables
              \/ ~known /\ (clash \/ ~Linked(o)) /\ FailCall(s)

---------------------------------------------------------------------------
(***************************************************************************)
(* Account states: one statement, the last writer wins                     *)
(***************************************************************************)

\* One row per key; a value stands for the columns that refer to nothing.
UpsertRow(t, row) ==
    /\ tables' = [tables EXCEPT ![t] = {x \in @ : x.key # row.key} \cup {row}]
    /\ UNCHANGED <<openRows, callOf, acknowledged>>

UpsertApproval(row) ==
    /\ \E x \in tables["tokens"] : x.token = row.key
    /\ UpsertRow("approval_states", row)

UpsertBucket(row) ==
    /\ \E x \in tables["tokens"] : x.token = row.key
    /\ row.value # None => \E o \in tables["orders"] : o.id = row.value
    /\ UpsertRow("inventory_buckets", row)

UpsertResolution(row) ==
    /\ \E x \in tables["conditions"] : x.condition = row.key
    /\ UpsertRow("resolution_states", row)

CatalogNext ==
    \/ \E s \in CatalogSession :
           \/ \E r \in CatalogRecord : UpsertRecord(s, r)
           \/ InsertOrConfirmEventFamily(s) \/ InsertOrConfirmEvent(s) \/ InsertOrConfirmCondition(s)
           \/ InsertOrConfirmMarket(s) \/ InsertOrConfirmToken(s) \/ InsertOrConfirmIdentifierMap(s)
           \/ \E o \in SignedOrder : InsertSignedOrder(s, o)
           \/ InsertOrderRow(s)
           \/ CommitCall(s)
           \/ ConnectionLost(s)
    \/ \E row \in AccountRow : UpsertApproval(row) \/ UpsertBucket(row) \/ UpsertResolution(row)

CatalogSpec == CatalogInit /\ [][CatalogNext]_catalogVars

---------------------------------------------------------------------------
(***************************************************************************)
(* Properties                                                              *)
(***************************************************************************)

\* Whatever upserts overlap, the records list_records returns always build an
\* IdentifierMap: upsert_record validates against rows that other transactions
\* may change before it commits, and the statements after it must make up for it.
IdentifierMapLoads == FromRecords(ListRecords)

\* A caller that was told Ok has exactly its row in the database, and no two
\* callers were told Ok for rows that exclude each other: the same order id with
\* other terms, the same signed hash under another id, another label of a token.
\* The lookups of insert_signed_order and upsert_record run before the insert, a
\* conflict on the id inserts nothing, and answers of commits are lost.
AcknowledgedIsStored ==
    \A t \in StoredTables :
        /\ acknowledged[t] \subseteq tables[t]
        /\ \A a, b \in acknowledged[t] : RowsClash(t, a, b) => a = b
=============================================================================
