------------------------- MODULE RepositoryProofs -------------------------
(***************************************************************************)
(* Proofs about the PostgreSQL repositories, for every set of connections, *)
(* records, orders, changes, snapshots and batches: what is committed is   *)
(* consistent whatever transactions overlap and fail, though none of them  *)
(* reads and writes under one lock; and about verify, which reads it by    *)
(* one query after another.                                                *)
(***************************************************************************)
EXTENDS Catalog, FamilyView, Verify, SequenceTheorems, FiniteSetTheorems, TLAPS

---------------------------------------------------------------------------
(***************************************************************************)
(* The catalog: the inductive invariant                                    *)
(***************************************************************************)

ParentTables == {"event_families", "events", "conditions", "markets", "tokens"}
CatalogTables == ParentTables \cup {"identifier_map"}
KeyedTables == CatalogTables \cup {"orders"}
CallFields == {"stage", "row", "into"}

\* The tables a call at a stage has been through.
Filled(stage) ==
    CASE stage = "events" -> {"event_families"}
      [] stage = "conditions" -> {"event_families", "events"}
      [] stage = "markets" -> {"event_families", "events", "conditions"}
      [] stage = "tokens" -> {"event_families", "events", "conditions", "markets"}
      [] stage = "identifier_map" -> ParentTables
      [] stage = "commit" -> CatalogTables \cup {"orders"}
      [] OTHER -> {}

CatalogShape(db, rows, calls) ==
    /\ db = [t \in Tables |-> db[t]]
    /\ rows = [s \in CatalogSession |-> rows[s]]
    /\ \A s \in CatalogSession : rows[s] = [t \in Tables |-> rows[s][t]]
    /\ calls = [s \in CatalogSession |-> calls[s]]
    /\ \A s \in CatalogSession : calls[s] = [x \in CallFields |-> calls[s][x]]

\* A transaction has rows only where its call has been.
FilledInOrder(rows, calls) ==
    \A s \in CatalogSession, t \in Tables : rows[s][t] # {} => t \in Filled(calls[s].stage)

\* The committed rows of a table and those of open transactions.
AllRows(db, rows, t) == db[t] \cup UNION {rows[s][t] : s \in CatalogSession}

\* The unique keys hold over what is committed and what is not.
KeysUnique(db, rows) ==
    \A t \in KeyedTables : \A a, b \in AllRows(db, rows, t) : RowsClash(t, a, b) => a = b

\* A record has its rows in the tables given.
HasRows(record, in, seen) == \A t \in in : RowOf(t, record) \in seen[t]

\* What the statements of a transaction see.
SeenBy(db, rows, s) == [t \in Tables |-> db[t] \cup rows[s][t]]

\* A record is committed with the rows of the other tables, an inserted one has
\* them in its transaction, and a call has those of the tables it has been through.
RowsOfRecords(db, rows, calls) ==
    /\ \A r \in db["identifier_map"] : HasRows(r, ParentTables, db)
    /\ \A s \in CatalogSession :
           /\ \A r \in rows[s]["identifier_map"] : HasRows(r, ParentTables, SeenBy(db, rows, s))
           /\ calls[s].stage \in CatalogTables =>
                  HasRows(calls[s].row, Filled(calls[s].stage), SeenBy(db, rows, s))

CatalogOK(db, rows, calls) ==
    /\ CatalogShape(db, rows, calls)
    /\ FilledInOrder(rows, calls)
    /\ KeysUnique(db, rows)
    /\ RowsOfRecords(db, rows, calls)

CatalogInv == CatalogOK(tables, openRows, callOf)

---------------------------------------------------------------------------
(***************************************************************************)
(* The catalog: the statements                                             *)
(***************************************************************************)

LEMMA ClashIsSymmetric ==
    ASSUME NEW t \in KeyedTables, NEW a, NEW b, RowsClash(t, a, b)
    PROVE  RowsClash(t, b, a)
BY DEF RowsClash, KeyedTables, CatalogTables, ParentTables, MarketsClash, IdentifiersClash, OrdersClash

\* A failed call leaves nothing behind.
LEMMA FailKeepsCatalog ==
    ASSUME NEW db, NEW rows, NEW calls, CatalogOK(db, rows, calls), NEW s \in CatalogSession,
           NEW newRows, newRows = [rows EXCEPT ![s] = NoRows],
           NEW newCalls, newCalls = [calls EXCEPT ![s] = NoCall]
    PROVE  CatalogOK(db, newRows, newCalls)
<1>1. CatalogShape(db, rows, calls)
  BY DEF CatalogOK
<1>2. /\ newRows[s] = NoRows /\ newCalls[s] = NoCall
      /\ \A q \in CatalogSession : q # s => newRows[q] = rows[q] /\ newCalls[q] = calls[q]
      /\ newRows = [q \in CatalogSession |-> newRows[q]]
      /\ newCalls = [q \in CatalogSession |-> newCalls[q]]
  BY <1>1 DEF CatalogShape
<1>3. /\ NoRows = [t \in Tables |-> NoRows[t]] /\ \A t \in Tables : NoRows[t] = {}
      /\ NoCall = [x \in CallFields |-> NoCall[x]] /\ NoCall.stage = "idle"
  BY DEF NoRows, NoCall, CallFields
<1>4. CatalogShape(db, newRows, newCalls)
  <2>1. ASSUME NEW q \in CatalogSession PROVE newRows[q] = [t \in Tables |-> newRows[q][t]]
    BY <1>1, <1>2, <1>3 DEF CatalogShape
  <2>2. ASSUME NEW q \in CatalogSession
        PROVE  newCalls[q] = [x \in CallFields |-> newCalls[q][x]]
    BY <1>1, <1>2, <1>3 DEF CatalogShape
  <2> QED BY <1>1, <1>2, <2>1, <2>2 DEF CatalogShape
<1>5. FilledInOrder(newRows, newCalls)
  BY <1>2, <1>3 DEF FilledInOrder, CatalogOK
<1>6. \A q \in CatalogSession, t \in Tables : newRows[q][t] \subseteq rows[q][t]
  BY <1>2, <1>3
<1>7. KeyedTables \subseteq Tables /\ "identifier_map" \in Tables /\ "idle" \notin CatalogTables
  BY DEF KeyedTables, CatalogTables, ParentTables, Tables
<1>8. \A t \in KeyedTables : AllRows(db, newRows, t) \subseteq AllRows(db, rows, t)
  BY <1>6, <1>7 DEF AllRows
<1>9. KeysUnique(db, newRows)
  BY <1>8 DEF KeysUnique, CatalogOK
<1>10. RowsOfRecords(db, newRows, newCalls)
  <2>1. SUFFICES ASSUME NEW q \in CatalogSession
                 PROVE  /\ \A r \in newRows[q]["identifier_map"] :
                               HasRows(r, ParentTables, SeenBy(db, newRows, q))
                        /\ newCalls[q].stage \in CatalogTables =>
                               HasRows(newCalls[q].row, Filled(newCalls[q].stage),
                                       SeenBy(db, newRows, q))
    BY DEF RowsOfRecords, CatalogOK
  <2>2. CASE q = s
    BY <1>2, <1>3, <1>7, <2>2
  <2>3. CASE q # s
    <3>1. SeenBy(db, newRows, q) = SeenBy(db, rows, q)
      BY <1>2, <2>3 DEF SeenBy
    <3> QED BY <1>2, <2>3, <3>1 DEF RowsOfRecords, CatalogOK
  <2> QED BY <2>2, <2>3
<1> QED BY <1>4, <1>5, <1>9, <1>10 DEF CatalogOK

\* A stage leads to the next, which has been through one table more.
LeadsTo(t, next) ==
    IF t = "identifier_map" THEN next = "commit"
    ELSE next \in CatalogTables /\ Filled(next) = Filled(t) \cup {t}

\* The rows after a statement of a call has inserted some.
RowsAdded(rows, s, t, add) == [rows EXCEPT ![s] = [rows[s] EXCEPT ![t] = rows[s][t] \cup add]]

StageSet(calls, s, next) == [calls EXCEPT ![s].stage = next]

\* What inserting into a table of a transaction leaves alone.
LEMMA AddedFields ==
    ASSUME NEW db, NEW rows, NEW calls, CatalogShape(db, rows, calls),
           NEW s \in CatalogSession, NEW t \in Tables, NEW add,
           NEW newRows, newRows = RowsAdded(rows, s, t, add)
    PROVE  /\ newRows = [q \in CatalogSession |-> newRows[q]]
           /\ \A q \in CatalogSession : newRows[q] = [u \in Tables |-> newRows[q][u]]
           /\ newRows[s][t] = rows[s][t] \cup add
           /\ \A q \in CatalogSession, u \in Tables :
                  q # s \/ u # t => newRows[q][u] = rows[q][u]
<1>1. /\ rows = [q \in CatalogSession |-> rows[q]]
      /\ \A q \in CatalogSession : rows[q] = [u \in Tables |-> rows[q][u]]
  BY DEF CatalogShape
<1> DEFINE mine == [rows[s] EXCEPT ![t] = rows[s][t] \cup add]
<1>2. /\ mine = [u \in Tables |-> mine[u]] /\ mine[t] = rows[s][t] \cup add
      /\ \A u \in Tables : u # t => mine[u] = rows[s][u]
  BY <1>1
<1> HIDE DEF mine
<1>3. /\ newRows = [q \in CatalogSession |-> newRows[q]] /\ newRows[s] = mine
      /\ \A q \in CatalogSession : q # s => newRows[q] = rows[q]
  BY <1>1 DEF RowsAdded, mine
<1>4. ASSUME NEW q \in CatalogSession PROVE newRows[q] = [u \in Tables |-> newRows[q][u]]
  BY <1>1, <1>2, <1>3
<1>5. ASSUME NEW q \in CatalogSession, NEW u \in Tables, q # s \/ u # t
      PROVE  newRows[q][u] = rows[q][u]
  BY <1>2, <1>3, <1>5
<1> QED BY <1>2, <1>3, <1>4, <1>5

\* What moving a call to another stage leaves alone.
LEMMA StageFields ==
    ASSUME NEW db, NEW rows, NEW calls, CatalogShape(db, rows, calls),
           NEW s \in CatalogSession, NEW next,
           NEW newCalls, newCalls = StageSet(calls, s, next)
    PROVE  /\ newCalls = [q \in CatalogSession |-> newCalls[q]]
           /\ \A q \in CatalogSession : newCalls[q] = [x \in CallFields |-> newCalls[q][x]]
           /\ newCalls[s].stage = next /\ newCalls[s].row = calls[s].row
           /\ newCalls[s].into = calls[s].into
           /\ \A q \in CatalogSession : q # s => newCalls[q] = calls[q]
<1>1. /\ calls = [q \in CatalogSession |-> calls[q]]
      /\ \A q \in CatalogSession : calls[q] = [x \in CallFields |-> calls[q][x]]
  BY DEF CatalogShape
<1> DEFINE mine == [calls[s] EXCEPT !.stage = next]
<1>2. /\ mine = [x \in CallFields |-> mine[x]]
      /\ mine.stage = next /\ mine.row = calls[s].row /\ mine.into = calls[s].into
  BY <1>1 DEF CallFields
<1>3. newCalls = [calls EXCEPT ![s] = mine]
  BY <1>1 DEF StageSet
<1> HIDE DEF mine
<1>4. /\ newCalls = [q \in CatalogSession |-> newCalls[q]] /\ newCalls[s] = mine
      /\ \A q \in CatalogSession : q # s => newCalls[q] = calls[q]
  BY <1>1, <1>3
<1>5. ASSUME NEW q \in CatalogSession
      PROVE  newCalls[q] = [x \in CallFields |-> newCalls[q][x]]
  BY <1>1, <1>2, <1>4
<1> QED BY <1>2, <1>4, <1>5

\* An insert-or-confirm that succeeds: the row is there, and one that was
\* inserted has a key of its own.
LEMMA AdvanceKeepsCatalog ==
    ASSUME NEW db, NEW rows, NEW calls, CatalogOK(db, rows, calls), NEW s \in CatalogSession,
           NEW t \in CatalogTables, calls[s].stage = t, NEW next, LeadsTo(t, next),
           NEW row, row = RowOf(t, calls[s].row), NEW add \in SUBSET {row},
           row \in db[t] \cup add,
           add # {} => \A x \in AllRows(db, rows, t) : ~RowsClash(t, x, row),
           NEW newRows, newRows = RowsAdded(rows, s, t, add),
           NEW newCalls, newCalls = StageSet(calls, s, next)
    PROVE  CatalogOK(db, newRows, newCalls)
<1>0. CatalogTables \subseteq Tables /\ "orders" \in Tables /\ "orders" \notin CatalogTables
      /\ "commit" \notin CatalogTables /\ t \in Tables /\ ParentTables \subseteq CatalogTables
      /\ "identifier_map" \in CatalogTables
  BY DEF CatalogTables, ParentTables, Tables
<1>1. CatalogShape(db, rows, calls)
  BY DEF CatalogOK
<1>2. /\ newRows = [q \in CatalogSession |-> newRows[q]]
      /\ \A q \in CatalogSession : newRows[q] = [u \in Tables |-> newRows[q][u]]
      /\ newRows[s][t] = rows[s][t] \cup add
      /\ \A q \in CatalogSession, u \in Tables : q # s \/ u # t => newRows[q][u] = rows[q][u]
  BY <1>0, <1>1, AddedFields
<1>3. /\ newCalls = [q \in CatalogSession |-> newCalls[q]]
      /\ \A q \in CatalogSession : newCalls[q] = [x \in CallFields |-> newCalls[q][x]]
      /\ newCalls[s].stage = next /\ newCalls[s].row = calls[s].row
      /\ \A q \in CatalogSession : q # s => newCalls[q] = calls[q]
  BY <1>1, StageFields
<1>4. CatalogShape(db, newRows, newCalls)
  BY <1>1, <1>2, <1>3 DEF CatalogShape
<1>5. Filled(t) \cup {t} \subseteq Filled(next)
  <2>1. CASE t = "identifier_map"
    BY <2>1 DEF LeadsTo, Filled, CatalogTables
  <2>2. CASE t # "identifier_map"
    BY <2>2 DEF LeadsTo
  <2> QED BY <2>1, <2>2
<1>6. FilledInOrder(newRows, newCalls)
  <2>1. SUFFICES ASSUME NEW q \in CatalogSession, NEW u \in Tables, newRows[q][u] # {}
                 PROVE  u \in Filled(newCalls[q].stage)
    BY DEF FilledInOrder
  <2>2. CASE q # s
    BY <1>2, <1>3, <2>1, <2>2 DEF CatalogOK, FilledInOrder
  <2>3. CASE q = s /\ u = t
    BY <1>3, <1>5, <2>3
  <2>4. CASE q = s /\ u # t
    <3>1. rows[s][u] # {}
      BY <1>2, <2>1, <2>4
    <3>2. u \in Filled(t)
      BY <3>1 DEF CatalogOK, FilledInOrder
    <3> QED BY <1>3, <1>5, <2>4, <3>2
  <2> QED BY <2>2, <2>3, <2>4
<1>7. KeysUnique(db, newRows)
  <2>1. SUFFICES ASSUME NEW u \in KeyedTables, NEW a \in AllRows(db, newRows, u),
                        NEW b \in AllRows(db, newRows, u), RowsClash(u, a, b)
                 PROVE  a = b
    BY DEF KeysUnique
  <2>2. \A x \in AllRows(db, newRows, u) : x \in AllRows(db, rows, u) \/ (u = t /\ x \in add)
    BY <1>0, <1>2 DEF AllRows, KeyedTables
  <2>3. CASE a \in AllRows(db, rows, u) /\ b \in AllRows(db, rows, u)
    BY <2>1, <2>3 DEF CatalogOK, KeysUnique
  <2>4. CASE u = t /\ a \in add /\ b \in add
    BY <2>4
  <2>5. CASE u = t /\ a \in add /\ b \in AllRows(db, rows, u)
    BY <2>1, <2>5, ClashIsSymmetric
  <2>6. CASE u = t /\ b \in add /\ a \in AllRows(db, rows, u)
    BY <2>1, <2>6
  <2> QED BY <2>2, <2>3, <2>4, <2>5, <2>6
<1>8. \A q \in CatalogSession, u \in Tables : SeenBy(db, rows, q)[u] \subseteq SeenBy(db, newRows, q)[u]
  BY <1>0, <1>2 DEF SeenBy
<1>9. RowsOfRecords(db, newRows, newCalls)
  <2>1. ASSUME NEW q \in CatalogSession, NEW r, NEW in, in \subseteq Tables,
               HasRows(r, in, SeenBy(db, rows, q))
        PROVE  HasRows(r, in, SeenBy(db, newRows, q))
    BY <1>8, <2>1 DEF HasRows
  <2>2. Filled(t) \subseteq Tables /\ ParentTables \subseteq Tables
    BY <1>0 DEF Filled, CatalogTables, ParentTables, Tables
  <2>3. HasRows(calls[s].row, Filled(t), SeenBy(db, newRows, s))
    <3>1. HasRows(calls[s].row, Filled(t), SeenBy(db, rows, s))
      BY DEF CatalogOK, RowsOfRecords
    <3> QED BY <2>1, <2>2, <3>1
  <2>4. row \in SeenBy(db, newRows, s)[t]
    BY <1>0, <1>2 DEF SeenBy
  <2>5. ASSUME t # "identifier_map"
        PROVE  HasRows(newCalls[s].row, Filled(next), SeenBy(db, newRows, s))
    BY <1>3, <2>3, <2>4, <2>5 DEF HasRows, LeadsTo
  <2>6. ASSUME t = "identifier_map"
        PROVE  HasRows(row, ParentTables, SeenBy(db, newRows, s))
    <3>1. row = calls[s].row /\ Filled(t) = ParentTables
      BY <2>6 DEF RowOf, Filled
    <3> QED BY <2>3, <3>1
  <2>7. ASSUME NEW q \in CatalogSession, NEW r \in newRows[q]["identifier_map"]
        PROVE  HasRows(r, ParentTables, SeenBy(db, newRows, q))
    <3>1. CASE r \in rows[q]["identifier_map"]
      <4>1. HasRows(r, ParentTables, SeenBy(db, rows, q))
        BY <3>1 DEF CatalogOK, RowsOfRecords
      <4> QED BY <2>1, <2>2, <4>1
    <3>2. CASE r \notin rows[q]["identifier_map"]
      <4>1. q = s /\ t = "identifier_map" /\ r \in add
        BY <1>0, <1>2, <2>7, <3>2
      <4> QED BY <2>6, <4>1
    <3> QED BY <3>1, <3>2
  <2>8. ASSUME NEW q \in CatalogSession, newCalls[q].stage \in CatalogTables
        PROVE  HasRows(newCalls[q].row, Filled(newCalls[q].stage), SeenBy(db, newRows, q))
    <3>1. CASE q = s
      <4>1. t # "identifier_map"
        BY <1>0, <1>3, <2>8, <3>1 DEF LeadsTo
      <4> QED BY <1>3, <2>5, <3>1, <4>1
    <3>2. CASE q # s
      <4>1. SeenBy(db, newRows, q) = SeenBy(db, rows, q)
        BY <1>2, <3>2 DEF SeenBy
      <4> QED BY <1>3, <2>8, <3>2, <4>1 DEF CatalogOK, RowsOfRecords
    <3> QED BY <3>1, <3>2
  <2> QED BY <2>7, <2>8 DEF RowsOfRecords, CatalogOK
<1> QED BY <1>4, <1>6, <1>7, <1>9 DEF CatalogOK

\* insert_or_confirm of one table, in all its outcomes.
LEMMA InsertOrConfirmOK ==
    ASSUME CatalogInv, NEW s \in CatalogSession, NEW t \in CatalogTables, NEW next, LeadsTo(t, next),
           InsertOrConfirm(s, t, next)
    PROVE  CatalogInv'
<1> DEFINE row  == RowOf(t, callOf[s].row)
           hits == {x \in tables[t] : RowsClash(t, x, row)}
<1>0. t \in Tables /\ CatalogShape(tables, openRows, callOf)
  BY DEF CatalogTables, ParentTables, Tables, CatalogInv, CatalogOK
<1>1. /\ callOf[s].stage = t /\ ~InsertBlocked(s, t, row)
      /\ \/ hits = {} /\ InsertRow(s, t, row) /\ ToStage(s, next) /\ UNCHANGED tables
         \/ row \in hits /\ ToStage(s, next) /\ UNCHANGED <<tables, openRows>>
         \/ hits # {} /\ row \notin hits /\ FailCall(s)
  BY DEF InsertOrConfirm
<1>2. CASE hits = {} /\ InsertRow(s, t, row) /\ ToStage(s, next) /\ UNCHANGED tables
  <2>1. openRows' = RowsAdded(openRows, s, t, {row})
    BY <1>0, <1>2 DEF InsertRow, RowsAdded, CatalogShape
  <2>2. callOf' = StageSet(callOf, s, next)
    BY <1>2 DEF ToStage, StageSet
  <2>3. openRows[s][t] = {}
    <3>1. t \notin Filled(t)
      BY DEF Filled, CatalogTables, ParentTables
    <3> QED BY <1>0, <1>1, <3>1 DEF CatalogInv, CatalogOK, FilledInOrder
  <2>4. \A x \in AllRows(tables, openRows, t) : ~RowsClash(t, x, row)
    <3>1. SUFFICES ASSUME NEW x \in AllRows(tables, openRows, t), RowsClash(t, x, row) PROVE FALSE
      OBVIOUS
    <3>2. x \notin tables[t]
      BY <1>2, <3>1
    <3>3. PICK q \in CatalogSession : x \in openRows[q][t]
      BY <3>1, <3>2 DEF AllRows
    <3> QED BY <1>1, <2>3, <3>1, <3>3 DEF InsertBlocked
  <2> HIDE DEF row, hits
  <2>5. row = RowOf(t, callOf[s].row)
    BY DEF row
  <2> QED BY <1>1, <1>2, <2>1, <2>2, <2>4, <2>5, AdvanceKeepsCatalog DEF CatalogInv
<1>3. CASE row \in hits /\ ToStage(s, next) /\ UNCHANGED <<tables, openRows>>
  <2>1. openRows' = RowsAdded(openRows, s, t, {})
    BY <1>0, <1>3 DEF RowsAdded, CatalogShape
  <2>2. callOf' = StageSet(callOf, s, next)
    BY <1>3 DEF ToStage, StageSet
  <2>3. row \in tables[t]
    BY <1>3
  <2> HIDE DEF row, hits
  <2>4. row = RowOf(t, callOf[s].row)
    BY DEF row
  <2> QED BY <1>1, <1>3, <2>1, <2>2, <2>3, <2>4, AdvanceKeepsCatalog DEF CatalogInv
<1>4. CASE FailCall(s)
  BY <1>4, FailKeepsCatalog DEF FailCall, CatalogInv
<1> QED BY <1>1, <1>2, <1>3, <1>4

\* A call that begins: it has been through nothing.
LEMMA BeginKeepsCatalog ==
    ASSUME CatalogInv, NEW s \in CatalogSession, callOf[s] = NoCall,
           NEW stage \in {"event_families", "orders"}, NEW row, NEW into,
           callOf' = [callOf EXCEPT ![s] = [stage |-> stage, row |-> row, into |-> into]],
           UNCHANGED <<tables, openRows>>
    PROVE  CatalogInv'
<1>1. CatalogShape(tables, openRows, callOf)
  BY DEF CatalogInv, CatalogOK
<1> DEFINE mine == [stage |-> stage, row |-> row, into |-> into]
<1>2. mine = [x \in CallFields |-> mine[x]] /\ mine.stage = stage
  BY DEF CallFields
<1> HIDE DEF mine
<1>3. /\ callOf' = [q \in CatalogSession |-> callOf'[q]] /\ callOf'[s] = mine
      /\ \A q \in CatalogSession : q # s => callOf'[q] = callOf[q]
  BY <1>1 DEF CatalogShape, mine
<1>4. ASSUME NEW q \in CatalogSession
      PROVE  callOf'[q] = [x \in CallFields |-> callOf'[q][x]]
  BY <1>1, <1>2, <1>3 DEF CatalogShape
<1>5. CatalogShape(tables, openRows, callOf')
  BY <1>1, <1>3, <1>4 DEF CatalogShape
<1>6. Filled(stage) = {} /\ Filled("idle") = {} /\ NoCall.stage = "idle"
  BY DEF Filled, NoCall
<1>7. \A t \in Tables : openRows[s][t] = {}
  BY <1>6 DEF CatalogInv, CatalogOK, FilledInOrder
<1>8. FilledInOrder(openRows, callOf')
  BY <1>3, <1>7 DEF CatalogInv, CatalogOK, FilledInOrder
<1>9. RowsOfRecords(tables, openRows, callOf')
  <2>1. HasRows(callOf'[s].row, Filled(callOf'[s].stage), SeenBy(tables, openRows, s))
    BY <1>2, <1>3, <1>6 DEF HasRows
  <2>2. ASSUME NEW q \in CatalogSession, callOf'[q].stage \in CatalogTables
        PROVE  HasRows(callOf'[q].row, Filled(callOf'[q].stage), SeenBy(tables, openRows, q))
    BY <1>3, <2>1, <2>2 DEF CatalogInv, CatalogOK, RowsOfRecords
  <2> QED BY <2>2 DEF CatalogInv, CatalogOK, RowsOfRecords
<1> QED BY <1>5, <1>8, <1>9 DEF CatalogInv, CatalogOK

\* insert_signed_order: an order that is inserted has a key of its own.
LEMMA InsertOrderRowOK ==
    ASSUME CatalogInv, NEW s \in CatalogSession, InsertOrderRow(s)
    PROVE  CatalogInv'
<1> DEFINE o == callOf[s].row
<1>0. /\ CatalogShape(tables, openRows, callOf) /\ "orders" \in Tables
      /\ "orders" \notin CatalogTables /\ "commit" \notin CatalogTables
      /\ "orders" # "identifier_map" /\ CatalogTables \subseteq Tables
      /\ ParentTables \subseteq CatalogTables /\ "identifier_map" \in CatalogTables
  BY DEF CatalogTables, ParentTables, Tables, CatalogInv, CatalogOK
<1>1. /\ callOf[s].stage = "orders"
      /\ ~InsertBlocked(s, "orders", o)
      /\ \/ ToStage(s, "commit") /\ UNCHANGED <<tables, openRows>>
         \/ /\ \A x \in tables["orders"] : ~RowsClash("orders", x, o)
            /\ InsertRow(s, "orders", o) /\ ToStage(s, "commit") /\ UNCHANGED tables
         \/ FailCall(s)
  BY DEF InsertOrderRow
<1>2. CASE FailCall(s)
  BY <1>2, FailKeepsCatalog DEF FailCall, CatalogInv
<1>3. ASSUME NEW add \in SUBSET {o}, ToStage(s, "commit"),
             add # {} => \A x \in AllRows(tables, openRows, "orders") : ~RowsClash("orders", x, o),
             UNCHANGED tables, openRows' = RowsAdded(openRows, s, "orders", add)
      PROVE  CatalogInv'
  <2>1. callOf' = StageSet(callOf, s, "commit")
    BY <1>3 DEF ToStage, StageSet
  <2>2. /\ callOf' = [q \in CatalogSession |-> callOf'[q]]
        /\ \A q \in CatalogSession : callOf'[q] = [x \in CallFields |-> callOf'[q][x]]
        /\ callOf'[s].stage = "commit" /\ callOf'[s].row = callOf[s].row
        /\ \A q \in CatalogSession : q # s => callOf'[q] = callOf[q]
    BY <1>0, <2>1, StageFields
  <2>3. /\ openRows' = [q \in CatalogSession |-> openRows'[q]]
        /\ \A q \in CatalogSession : openRows'[q] = [u \in Tables |-> openRows'[q][u]]
        /\ openRows'[s]["orders"] = openRows[s]["orders"] \cup add
        /\ \A q \in CatalogSession, u \in Tables :
               q # s \/ u # "orders" => openRows'[q][u] = openRows[q][u]
    BY <1>0, <1>3, AddedFields
  <2>4. CatalogShape(tables, openRows', callOf')
    BY <1>0, <2>2, <2>3 DEF CatalogShape
  <2>5. Filled("orders") = {} /\ "orders" \in Filled("commit")
    BY DEF Filled
  <2>6. FilledInOrder(openRows', callOf')
    BY <1>0, <1>1, <2>2, <2>3, <2>5 DEF CatalogInv, CatalogOK, FilledInOrder
  <2>7. \A t \in CatalogTables, q \in CatalogSession : openRows'[q][t] = openRows[q][t]
    BY <1>0, <2>3
  <2>8. KeysUnique(tables, openRows')
    <3>1. SUFFICES ASSUME NEW u \in KeyedTables, NEW a \in AllRows(tables, openRows', u),
                          NEW b \in AllRows(tables, openRows', u), RowsClash(u, a, b)
                   PROVE  a = b
      BY DEF KeysUnique
    <3>2. \A x \in AllRows(tables, openRows', u) :
              x \in AllRows(tables, openRows, u) \/ (u = "orders" /\ x \in add)
      BY <1>0, <2>3, <2>7 DEF AllRows, KeyedTables
    <3>3. CASE a \in AllRows(tables, openRows, u) /\ b \in AllRows(tables, openRows, u)
      BY <3>1, <3>3 DEF CatalogInv, CatalogOK, KeysUnique
    <3>4. CASE u = "orders" /\ a \in add /\ b \in add
      BY <3>4
    <3>5. CASE u = "orders" /\ a \in add /\ b \in AllRows(tables, openRows, u)
      BY <1>3, <3>1, <3>5, ClashIsSymmetric
    <3>6. CASE u = "orders" /\ b \in add /\ a \in AllRows(tables, openRows, u)
      BY <1>3, <3>1, <3>6
    <3> QED BY <3>2, <3>3, <3>4, <3>5, <3>6
  <2>9. ASSUME NEW q \in CatalogSession, NEW r, NEW in, in \subseteq CatalogTables,
               HasRows(r, in, SeenBy(tables, openRows, q))
        PROVE  HasRows(r, in, SeenBy(tables, openRows', q))
    BY <1>0, <2>7, <2>9 DEF HasRows, SeenBy
  <2>10. \A t \in CatalogTables : Filled(t) \subseteq CatalogTables
    BY DEF Filled, CatalogTables, ParentTables
  <2>11. RowsOfRecords(tables, openRows', callOf')
    <3>1. ASSUME NEW q \in CatalogSession, NEW r \in openRows'[q]["identifier_map"]
          PROVE  HasRows(r, ParentTables, SeenBy(tables, openRows', q))
      BY <1>0, <2>7, <2>9, <3>1 DEF CatalogInv, CatalogOK, RowsOfRecords
    <3>2. ASSUME NEW q \in CatalogSession, callOf'[q].stage \in CatalogTables
          PROVE  HasRows(callOf'[q].row, Filled(callOf'[q].stage), SeenBy(tables, openRows', q))
      <4>1. callOf'[q] = callOf[q]
        BY <1>0, <2>2, <3>2
      <4>2. HasRows(callOf[q].row, Filled(callOf[q].stage), SeenBy(tables, openRows, q))
        BY <3>2, <4>1 DEF CatalogInv, CatalogOK, RowsOfRecords
      <4> QED BY <2>9, <2>10, <3>2, <4>1, <4>2
    <3> QED BY <3>1, <3>2 DEF CatalogInv, CatalogOK, RowsOfRecords
  <2> QED BY <1>3, <2>4, <2>6, <2>8, <2>11 DEF CatalogInv, CatalogOK
<1>4. CASE ToStage(s, "commit") /\ UNCHANGED <<tables, openRows>>
  <2>1. openRows' = RowsAdded(openRows, s, "orders", {})
    BY <1>0, <1>4 DEF RowsAdded, CatalogShape
  <2> QED BY <1>3, <1>4, <2>1
<1>5. CASE /\ \A x \in tables["orders"] : ~RowsClash("orders", x, o)
           /\ InsertRow(s, "orders", o) /\ ToStage(s, "commit") /\ UNCHANGED tables
  <2>1. openRows' = RowsAdded(openRows, s, "orders", {o})
    BY <1>0, <1>5 DEF InsertRow, RowsAdded, CatalogShape
  <2>2. openRows[s]["orders"] = {}
    BY <1>0, <1>1 DEF Filled, CatalogInv, CatalogOK, FilledInOrder
  <2>3. \A x \in AllRows(tables, openRows, "orders") : ~RowsClash("orders", x, o)
    <3>1. SUFFICES ASSUME NEW x \in AllRows(tables, openRows, "orders"), RowsClash("orders", x, o)
                   PROVE  FALSE
      OBVIOUS
    <3>2. x \notin tables["orders"]
      BY <1>5, <3>1
    <3>3. PICK q \in CatalogSession : x \in openRows[q]["orders"]
      BY <3>1, <3>2 DEF AllRows
    <3> QED BY <1>1, <2>2, <3>1, <3>3 DEF InsertBlocked
  <2> HIDE DEF o
  <2> QED BY <1>3, <1>5, <2>1, <2>3
<1> QED BY <1>1, <1>2, <1>4, <1>5

\* A commit makes the rows of one transaction those of everyone.
LEMMA CommitCallOK ==
    ASSUME CatalogInv, NEW s \in CatalogSession, CommitCall(s)
    PROVE  CatalogInv'
<1>0. /\ CatalogShape(tables, openRows, callOf) /\ "orders" \in Tables
      /\ CatalogTables \subseteq Tables /\ "identifier_map" \in Tables
      /\ ParentTables \subseteq Tables /\ "idle" \notin CatalogTables
  BY DEF CatalogTables, ParentTables, Tables, CatalogInv, CatalogOK
<1>1. /\ tables' = [t \in Tables |-> tables[t] \cup openRows[s][t]]
      /\ openRows' = [openRows EXCEPT ![s] = NoRows]
      /\ callOf' = [callOf EXCEPT ![s] = NoCall]
  BY DEF CommitCall
<1>2. CatalogOK(tables, openRows', callOf')
  BY <1>1, FailKeepsCatalog DEF CatalogInv
<1>3. \A t \in Tables : tables'[t] = tables[t] \cup openRows[s][t]
  BY <1>1
<1>4. /\ \A t \in Tables : openRows'[s][t] = {}
      /\ \A q \in CatalogSession : q # s => openRows'[q] = openRows[q] /\ callOf'[q] = callOf[q]
      /\ callOf'[s].stage = "idle"
  BY <1>0, <1>1 DEF CatalogShape, NoRows, NoCall
<1>5. CatalogShape(tables', openRows', callOf')
  BY <1>1, <1>2 DEF CatalogShape, CatalogOK
<1>6. FilledInOrder(openRows', callOf')
  BY <1>2 DEF CatalogOK
<1>7. KeysUnique(tables', openRows')
  <2>1. ASSUME NEW t \in KeyedTables PROVE AllRows(tables', openRows', t) \subseteq AllRows(tables, openRows, t)
    BY <1>0, <1>3, <1>4 DEF AllRows, KeyedTables
  <2> QED BY <2>1 DEF KeysUnique, CatalogInv, CatalogOK
<1>8. ASSUME NEW q \in CatalogSession, NEW r, NEW in, in \subseteq Tables,
             HasRows(r, in, SeenBy(tables, openRows', q))
      PROVE  HasRows(r, in, SeenBy(tables', openRows', q))
  BY <1>3, <1>8 DEF HasRows, SeenBy
<1>9. \A t \in CatalogTables : Filled(t) \subseteq Tables
  BY DEF Filled, CatalogTables, ParentTables, Tables
<1>10. RowsOfRecords(tables', openRows', callOf')
  <2>1. ASSUME NEW r \in tables'["identifier_map"] PROVE HasRows(r, ParentTables, tables')
    <3>1. CASE r \in tables["identifier_map"]
      <4>1. HasRows(r, ParentTables, tables)
        BY <3>1 DEF CatalogInv, CatalogOK, RowsOfRecords
      <4> QED BY <1>0, <1>3, <4>1 DEF HasRows
    <3>2. CASE r \in openRows[s]["identifier_map"]
      <4>1. HasRows(r, ParentTables, SeenBy(tables, openRows, s))
        BY <3>2 DEF CatalogInv, CatalogOK, RowsOfRecords
      <4> QED BY <1>0, <1>3, <4>1 DEF HasRows, SeenBy
    <3> QED BY <1>0, <1>3, <2>1, <3>1, <3>2
  <2>2. ASSUME NEW q \in CatalogSession, NEW r \in openRows'[q]["identifier_map"]
        PROVE  HasRows(r, ParentTables, SeenBy(tables', openRows', q))
    BY <1>0, <1>2, <1>8, <2>2 DEF CatalogOK, RowsOfRecords
  <2>3. ASSUME NEW q \in CatalogSession, callOf'[q].stage \in CatalogTables
        PROVE  HasRows(callOf'[q].row, Filled(callOf'[q].stage), SeenBy(tables', openRows', q))
    <3>1. HasRows(callOf'[q].row, Filled(callOf'[q].stage), SeenBy(tables, openRows', q))
      BY <1>2, <2>3 DEF CatalogOK, RowsOfRecords
    <3> QED BY <1>8, <1>9, <2>3, <3>1
  <2> QED BY <2>1, <2>2, <2>3 DEF RowsOfRecords
<1> QED BY <1>5, <1>6, <1>7, <1>10 DEF CatalogInv, CatalogOK

\* An account state is no part of the catalog.
LEMMA UpsertRowOK ==
    ASSUME CatalogInv, NEW row, UpsertRow("approval_states", row)
                                \/ UpsertRow("inventory_buckets", row)
                                \/ UpsertRow("resolution_states", row)
    PROVE  CatalogInv'
<1>1. PICK t \in Tables \ (CatalogTables \cup {"orders"}) : UpsertRow(t, row)
  BY DEF CatalogTables, ParentTables, Tables
<1>2. CatalogShape(tables, openRows, callOf) /\ openRows' = openRows /\ callOf' = callOf
  BY <1>1 DEF UpsertRow, CatalogInv, CatalogOK
<1>3. /\ tables' = [u \in Tables |-> tables'[u]]
      /\ \A u \in Tables : u # t => tables'[u] = tables[u]
  BY <1>1, <1>2 DEF UpsertRow, CatalogShape
<1>4. CatalogTables \subseteq Tables /\ ParentTables \subseteq CatalogTables
      /\ "identifier_map" \in CatalogTables /\ "orders" \in Tables
  BY DEF CatalogTables, ParentTables, Tables
<1>5. \A u \in CatalogTables \cup {"orders"} : tables'[u] = tables[u]
  BY <1>1, <1>3, <1>4
<1>6. CatalogShape(tables', openRows', callOf')
  BY <1>2, <1>3 DEF CatalogShape
<1>7. KeysUnique(tables', openRows')
  BY <1>2, <1>5 DEF CatalogInv, CatalogOK, KeysUnique, AllRows, KeyedTables
<1>8. \A u \in CatalogTables : Filled(u) \subseteq CatalogTables
  BY DEF Filled, CatalogTables, ParentTables
<1>9. ASSUME NEW q \in CatalogSession, NEW r, NEW in, in \subseteq CatalogTables,
             HasRows(r, in, SeenBy(tables, openRows, q))
      PROVE  HasRows(r, in, SeenBy(tables', openRows, q))
  BY <1>4, <1>5, <1>9 DEF HasRows, SeenBy
<1>10. RowsOfRecords(tables', openRows', callOf')
  <2>1. ASSUME NEW r \in tables'["identifier_map"] PROVE HasRows(r, ParentTables, tables')
    BY <1>4, <1>5, <2>1 DEF CatalogInv, CatalogOK, RowsOfRecords, HasRows
  <2>2. ASSUME NEW q \in CatalogSession, NEW r \in openRows[q]["identifier_map"]
        PROVE  HasRows(r, ParentTables, SeenBy(tables', openRows, q))
    BY <1>4, <1>9, <2>2 DEF CatalogInv, CatalogOK, RowsOfRecords
  <2>3. ASSUME NEW q \in CatalogSession, callOf[q].stage \in CatalogTables
        PROVE  HasRows(callOf[q].row, Filled(callOf[q].stage), SeenBy(tables', openRows, q))
    <3>1. HasRows(callOf[q].row, Filled(callOf[q].stage), SeenBy(tables, openRows, q))
      BY <2>3 DEF CatalogInv, CatalogOK, RowsOfRecords
    <3> QED BY <1>8, <1>9, <2>3, <3>1
  <2> QED BY <1>2, <2>1, <2>2, <2>3 DEF RowsOfRecords
<1> QED BY <1>2, <1>6, <1>7, <1>10 DEF CatalogInv, CatalogOK

---------------------------------------------------------------------------
(***************************************************************************)
(* The catalog: the theorems                                               *)
(***************************************************************************)

LEMMA StagesLead ==
    /\ LeadsTo("event_families", "events") /\ LeadsTo("events", "conditions")
    /\ LeadsTo("conditions", "markets") /\ LeadsTo("markets", "tokens")
    /\ LeadsTo("tokens", "identifier_map") /\ LeadsTo("identifier_map", "commit")
BY DEF LeadsTo, Filled, CatalogTables, ParentTables

LEMMA CatalogInitOK ==
    ASSUME CatalogInit PROVE CatalogInv
<1>1. /\ tables = NoRows /\ openRows = [s \in CatalogSession |-> NoRows]
      /\ callOf = [s \in CatalogSession |-> NoCall]
  BY DEF CatalogInit
<1>2. /\ NoRows = [t \in Tables |-> {}]
      /\ NoCall = [x \in CallFields |-> NoCall[x]] /\ NoCall.stage = "idle"
      /\ CatalogTables \subseteq Tables /\ "orders" \in Tables /\ "idle" \notin CatalogTables
      /\ "identifier_map" \in Tables
  BY DEF NoRows, NoCall, CallFields, CatalogTables, ParentTables, Tables
<1>3. CatalogShape(tables, openRows, callOf)
  BY <1>1, <1>2 DEF CatalogShape
<1>4. /\ \A t \in Tables : tables[t] = {} /\ \A s \in CatalogSession : openRows[s][t] = {}
      /\ \A s \in CatalogSession : callOf[s].stage = "idle"
  BY <1>1, <1>2
<1>5. FilledInOrder(openRows, callOf)
  BY <1>4 DEF FilledInOrder
<1>6. KeysUnique(tables, openRows)
  BY <1>2, <1>4 DEF KeysUnique, AllRows, KeyedTables
<1>7. RowsOfRecords(tables, openRows, callOf)
  BY <1>2, <1>4 DEF RowsOfRecords
<1> QED BY <1>3, <1>5, <1>6, <1>7 DEF CatalogInv, CatalogOK

LEMMA CatalogNextOK ==
    ASSUME CatalogInv, [CatalogNext]_catalogVars PROVE CatalogInv'
<1>1. CASE UNCHANGED catalogVars
  BY <1>1 DEF catalogVars, CatalogInv
<1>2. ASSUME NEW s \in CatalogSession, NEW r \in CatalogRecord, UpsertRecord(s, r) PROVE CatalogInv'
  BY <1>2, BeginKeepsCatalog DEF UpsertRecord
<1>3. ASSUME NEW s \in CatalogSession, NEW o \in SignedOrder, InsertSignedOrder(s, o)
      PROVE  CatalogInv'
  BY <1>3, BeginKeepsCatalog DEF InsertSignedOrder
<1>4. ASSUME NEW s \in CatalogSession,
             \/ InsertOrConfirmEventFamily(s) \/ InsertOrConfirmEvent(s)
             \/ InsertOrConfirmCondition(s) \/ InsertOrConfirmMarket(s)
             \/ InsertOrConfirmToken(s) \/ InsertOrConfirmIdentifierMap(s)
      PROVE  CatalogInv'
  <2>1. {"event_families", "events", "conditions", "markets", "tokens", "identifier_map"}
            \subseteq CatalogTables
    BY DEF CatalogTables, ParentTables
  <2> QED BY <1>4, <2>1, StagesLead, InsertOrConfirmOK
          DEF InsertOrConfirmEventFamily, InsertOrConfirmEvent, InsertOrConfirmCondition,
              InsertOrConfirmMarket, InsertOrConfirmToken, InsertOrConfirmIdentifierMap
<1>5. ASSUME NEW s \in CatalogSession, ConnectionLost(s) PROVE CatalogInv'
  BY <1>5, FailKeepsCatalog DEF ConnectionLost, FailCall, CatalogInv
<1>6. ASSUME NEW row \in AccountRow, UpsertApproval(row) \/ UpsertBucket(row) \/ UpsertResolution(row)
      PROVE  CatalogInv'
  BY <1>6, UpsertRowOK DEF UpsertApproval, UpsertBucket, UpsertResolution
<1> QED BY <1>1, <1>2, <1>3, <1>4, <1>5, <1>6, InsertOrderRowOK, CommitCallOK DEF CatalogNext

LEMMA CatalogInvariant == CatalogSpec => []CatalogInv
BY CatalogInitOK, CatalogNextOK, PTL DEF CatalogSpec

\* The committed identifier records always build an IdentifierMap: the statements
\* after the validation of upsert_record make up for what it could not see.
THEOREM IdentifierMapAlwaysLoads == CatalogSpec => []IdentifierMapLoads
<1>1. ASSUME CatalogInv PROVE IdentifierMapLoads
  <2>1. SUFFICES ASSUME NEW r \in tables["identifier_map"], NEW s \in tables["identifier_map"]
                 PROVE  TokenMetadataAgrees(r, s) /\ ConditionMetadataAgrees(r, s)
    BY DEF IdentifierMapLoads, FromRecords, ListRecords
  <2>2. \A t \in ParentTables : RowOf(t, r) \in tables[t] /\ RowOf(t, s) \in tables[t]
    BY <1>1 DEF CatalogInv, CatalogOK, RowsOfRecords, HasRows
  <2>3. ASSUME NEW t \in ParentTables, RowsClash(t, RowOf(t, r), RowOf(t, s))
        PROVE  RowOf(t, r) = RowOf(t, s)
    BY <1>1, <2>2, <2>3 DEF CatalogInv, CatalogOK, KeysUnique, AllRows, KeyedTables, CatalogTables
  <2>4. TokenMetadataAgrees(r, s)
    <3>1. SUFFICES ASSUME r.token = s.token PROVE r.condition = s.condition /\ r.label = s.label
      BY DEF TokenMetadataAgrees
    <3>2. /\ RowOf("tokens", r) = [token |-> r.token, condition |-> r.condition, label |-> r.label]
          /\ RowOf("tokens", s) = [token |-> s.token, condition |-> s.condition, label |-> s.label]
      BY DEF RowOf
    <3>3. RowsClash("tokens", RowOf("tokens", r), RowOf("tokens", s))
      BY <3>1, <3>2 DEF RowsClash
    <3>4. RowOf("tokens", r) = RowOf("tokens", s)
      BY <2>3, <3>3 DEF ParentTables
    <3> QED BY <3>2, <3>4
  <2>5. ConditionMetadataAgrees(r, s)
    <3>1. SUFFICES ASSUME r.condition = s.condition
                   PROVE  r.route = s.route /\ r.market = s.market /\ r.event = s.event
                          /\ r.family = s.family
      BY DEF ConditionMetadataAgrees
    <3>2. /\ RowOf("markets", r) = [market |-> r.market, condition |-> r.condition,
                                    event |-> r.event, route |-> r.route]
          /\ RowOf("markets", s) = [market |-> s.market, condition |-> s.condition,
                                    event |-> s.event, route |-> s.route]
          /\ RowOf("events", r) = [event |-> r.event, family |-> r.family]
          /\ RowOf("events", s) = [event |-> s.event, family |-> s.family]
      BY DEF RowOf
    <3>3. RowsClash("markets", RowOf("markets", r), RowOf("markets", s))
      BY <3>1, <3>2 DEF RowsClash, MarketsClash
    <3>4. RowOf("markets", r) = RowOf("markets", s)
      BY <2>3, <3>3 DEF ParentTables
    <3>5. r.route = s.route /\ r.market = s.market /\ r.event = s.event
      BY <3>2, <3>4
    <3>6. RowsClash("events", RowOf("events", r), RowOf("events", s))
      BY <3>2, <3>5 DEF RowsClash
    <3>7. RowOf("events", r) = RowOf("events", s)
      BY <2>3, <3>6 DEF ParentTables
    <3> QED BY <3>2, <3>5, <3>7
  <2> QED BY <2>4, <2>5
<1> QED BY <1>1, CatalogInvariant, PTL

\* What was acknowledged is committed; a call that has come to its commit has
\* its row where the caller asked for it.
AcknowledgedOK ==
    /\ acknowledged = [t \in StoredTables |-> acknowledged[t]]
    /\ \A t \in StoredTables : acknowledged[t] \subseteq tables[t]
    /\ \A s \in CatalogSession :
           /\ callOf[s].stage \in CatalogTables => callOf[s].into = "identifier_map"
           /\ callOf[s].stage = "orders" => callOf[s].into = "orders"
           /\ callOf[s].stage = "commit" =>
                  /\ callOf[s].into \in StoredTables
                  /\ callOf[s].row \in tables[callOf[s].into] \cup openRows[s][callOf[s].into]

\* The tables of the catalog only grow, and a step that concerns one session
\* leaves the calls and the open rows of the others alone.
LEMMA AcknowledgedStep ==
    ASSUME CatalogInv, AcknowledgedOK, NEW s \in CatalogSession,
           \A t \in StoredTables : tables[t] \subseteq tables'[t],
           \A q \in CatalogSession \ {s} : callOf'[q] = callOf[q] /\ openRows'[q] = openRows[q],
           acknowledged' = [t \in StoredTables |-> acknowledged'[t]],
           \A t \in StoredTables : acknowledged'[t] \subseteq tables'[t],
           /\ callOf'[s].stage \in CatalogTables => callOf'[s].into = "identifier_map"
           /\ callOf'[s].stage = "orders" => callOf'[s].into = "orders"
           /\ callOf'[s].stage = "commit" =>
                  /\ callOf'[s].into \in StoredTables
                  /\ callOf'[s].row \in tables'[callOf'[s].into] \cup openRows'[s][callOf'[s].into]
    PROVE  AcknowledgedOK'
BY DEF AcknowledgedOK

LEMMA AcknowledgedFail ==
    ASSUME CatalogInv, AcknowledgedOK, NEW s \in CatalogSession, FailCall(s)
    PROVE  AcknowledgedOK'
<1>1. CatalogShape(tables, openRows, callOf)
  BY DEF CatalogInv, CatalogOK
<1>2. /\ callOf'[s] = NoCall /\ UNCHANGED <<tables, acknowledged>>
      /\ \A q \in CatalogSession \ {s} : callOf'[q] = callOf[q] /\ openRows'[q] = openRows[q]
  BY <1>1 DEF FailCall, CatalogShape
<1>3. NoCall.stage = "idle" /\ "idle" \notin CatalogTables
  BY DEF NoCall, CatalogTables, ParentTables
<1> QED BY <1>2, <1>3, AcknowledgedStep DEF AcknowledgedOK

\* A statement that succeeds: its row is there, and the call goes on.
LEMMA AcknowledgedAdvance ==
    ASSUME CatalogInv, AcknowledgedOK, NEW s \in CatalogSession, NEW t \in KeyedTables,
           callOf[s].stage = t, NEW next, ToStage(s, next), UNCHANGED <<tables, acknowledged>>,
           \/ t \in StoredTables /\ next = "commit"
           \/ t \in ParentTables /\ next \in CatalogTables,
           \/ UNCHANGED openRows /\ (t \in StoredTables => callOf[s].row \in tables[t])
           \/ \E row : InsertRow(s, t, row) /\ (t \in StoredTables => row = callOf[s].row)
    PROVE  AcknowledgedOK'
<1>1. CatalogShape(tables, openRows, callOf)
  BY DEF CatalogInv, CatalogOK
<1>2. callOf' = StageSet(callOf, s, next)
  BY DEF ToStage, StageSet
<1>3. /\ callOf'[s].stage = next /\ callOf'[s].row = callOf[s].row
      /\ callOf'[s].into = callOf[s].into
      /\ \A q \in CatalogSession : q # s => callOf'[q] = callOf[q]
  BY <1>1, <1>2, StageFields
<1>4. KeyedTables \subseteq Tables /\ "commit" \notin KeyedTables /\ "orders" \notin CatalogTables
      /\ CatalogTables \subseteq KeyedTables /\ StoredTables \subseteq KeyedTables
      /\ ParentTables \subseteq CatalogTables /\ KeyedTables = CatalogTables \cup {"orders"}
  BY DEF KeyedTables, CatalogTables, ParentTables, Tables, StoredTables
<1>5. /\ \A q \in CatalogSession \ {s} : openRows'[q] = openRows[q]
      /\ t \in StoredTables => callOf[s].row \in tables[t] \cup openRows'[s][t]
  <2>1. CASE UNCHANGED openRows /\ (t \in StoredTables => callOf[s].row \in tables[t])
    BY <2>1
  <2>2. ASSUME NEW row, InsertRow(s, t, row), t \in StoredTables => row = callOf[s].row
        PROVE  /\ \A q \in CatalogSession \ {s} : openRows'[q] = openRows[q]
               /\ t \in StoredTables => callOf[s].row \in tables[t] \cup openRows'[s][t]
    <3>1. openRows' = RowsAdded(openRows, s, t, {row})
      BY <1>1, <1>4, <2>2 DEF InsertRow, RowsAdded, CatalogShape
    <3>2. openRows'[s][t] = openRows[s][t] \cup {row}
      BY <1>1, <1>4, <3>1, AddedFields
    <3>3. \A q \in CatalogSession \ {s} : openRows'[q] = openRows[q]
      BY <1>1, <3>1 DEF RowsAdded, CatalogShape
    <3> QED BY <2>2, <3>2, <3>3
  <2> QED BY <2>1, <2>2
<1>6. callOf[s].into = IF t = "orders" THEN "orders" ELSE "identifier_map"
  BY <1>4 DEF AcknowledgedOK
<1>7. t \in StoredTables => callOf[s].into = t
  BY <1>6 DEF StoredTables
<1>8. /\ callOf'[s].stage \in CatalogTables => callOf'[s].into = "identifier_map"
      /\ callOf'[s].stage # "orders"
      /\ callOf'[s].stage = "commit" =>
             /\ callOf'[s].into \in StoredTables
             /\ callOf'[s].row \in tables'[callOf'[s].into] \cup openRows'[s][callOf'[s].into]
  BY <1>3, <1>4, <1>5, <1>6, <1>7
<1> QED BY <1>3, <1>5, <1>8, AcknowledgedStep DEF AcknowledgedOK

LEMMA AcknowledgedNext ==
    ASSUME CatalogInv, AcknowledgedOK, [CatalogNext]_catalogVars PROVE AcknowledgedOK'
<1>0. CatalogShape(tables, openRows, callOf)
  BY DEF CatalogInv, CatalogOK
<1>1. CASE UNCHANGED catalogVars
  BY <1>1 DEF catalogVars, AcknowledgedOK
<1>2. ASSUME NEW s \in CatalogSession, NEW row, NEW stage \in {"event_families", "orders"},
             NEW into, into = IF stage = "orders" THEN "orders" ELSE "identifier_map",
             callOf' = [callOf EXCEPT ![s] = [stage |-> stage, row |-> row, into |-> into]],
             UNCHANGED <<tables, openRows, acknowledged>>
      PROVE  AcknowledgedOK'
  <2>1. callOf'[s].stage = stage /\ callOf'[s].into = into
        /\ \A q \in CatalogSession \ {s} : callOf'[q] = callOf[q]
    BY <1>0, <1>2 DEF CatalogShape
  <2>2. "orders" \notin CatalogTables
    BY DEF CatalogTables, ParentTables
  <2> QED BY <1>2, <2>1, <2>2, AcknowledgedStep DEF AcknowledgedOK
<1>3. ASSUME NEW s \in CatalogSession, NEW r, UpsertRecord(s, r) PROVE AcknowledgedOK'
  BY <1>2, <1>3 DEF UpsertRecord
<1>4. ASSUME NEW s \in CatalogSession, NEW o, InsertSignedOrder(s, o) PROVE AcknowledgedOK'
  BY <1>2, <1>4 DEF InsertSignedOrder
<1>5. ASSUME NEW s \in CatalogSession, NEW t \in CatalogTables, NEW next, InsertOrConfirm(s, t, next),
             \/ t \in StoredTables /\ next = "commit"
             \/ t \in ParentTables /\ next \in CatalogTables
      PROVE  AcknowledgedOK'
  <2> DEFINE row == RowOf(t, callOf[s].row)
  <2>1. /\ callOf[s].stage = t /\ UNCHANGED acknowledged
        /\ \/ InsertRow(s, t, row) /\ ToStage(s, next) /\ UNCHANGED tables
           \/ row \in tables[t] /\ ToStage(s, next) /\ UNCHANGED <<tables, openRows>>
           \/ FailCall(s)
    BY <1>5 DEF InsertOrConfirm
  <2>2. t \in StoredTables => row = callOf[s].row
    BY DEF RowOf, StoredTables
  <2>3. t \in KeyedTables
    BY DEF KeyedTables
  <2> HIDE DEF row
  <2>4. CASE InsertRow(s, t, row) /\ ToStage(s, next) /\ UNCHANGED tables
    BY <1>5, <2>1, <2>2, <2>3, <2>4, AcknowledgedAdvance
  <2>5. CASE row \in tables[t] /\ ToStage(s, next) /\ UNCHANGED <<tables, openRows>>
    BY <1>5, <2>1, <2>2, <2>3, <2>5, AcknowledgedAdvance
  <2> QED BY <2>1, <2>4, <2>5, AcknowledgedFail
<1>6. ASSUME NEW s \in CatalogSession,
             \/ InsertOrConfirmEventFamily(s) \/ InsertOrConfirmEvent(s)
             \/ InsertOrConfirmCondition(s) \/ InsertOrConfirmMarket(s)
             \/ InsertOrConfirmToken(s) \/ InsertOrConfirmIdentifierMap(s)
      PROVE  AcknowledgedOK'
  <2>1. /\ "event_families" \in ParentTables /\ "events" \in ParentTables /\ "conditions" \in ParentTables
        /\ "markets" \in ParentTables /\ "tokens" \in ParentTables /\ "identifier_map" \in CatalogTables
        /\ "identifier_map" \in StoredTables /\ ParentTables \subseteq CatalogTables
    BY DEF CatalogTables, ParentTables, StoredTables
  <2> QED BY <1>5, <1>6, <2>1
          DEF InsertOrConfirmEventFamily, InsertOrConfirmEvent, InsertOrConfirmCondition,
              InsertOrConfirmMarket, InsertOrConfirmToken, InsertOrConfirmIdentifierMap
<1>7. ASSUME NEW s \in CatalogSession, InsertOrderRow(s) PROVE AcknowledgedOK'
  <2> DEFINE o == callOf[s].row
  <2>1. /\ callOf[s].stage = "orders" /\ UNCHANGED acknowledged
        /\ \/ o \in tables["orders"] /\ ToStage(s, "commit") /\ UNCHANGED <<tables, openRows>>
           \/ InsertRow(s, "orders", o) /\ ToStage(s, "commit") /\ UNCHANGED tables
           \/ FailCall(s)
    BY <1>7 DEF InsertOrderRow
  <2>2. "orders" \in KeyedTables /\ "orders" \in StoredTables
    BY DEF KeyedTables, StoredTables
  <2>3. CASE o \in tables["orders"] /\ ToStage(s, "commit") /\ UNCHANGED <<tables, openRows>>
    BY <2>1, <2>2, <2>3, AcknowledgedAdvance
  <2>4. CASE InsertRow(s, "orders", o) /\ ToStage(s, "commit") /\ UNCHANGED tables
    BY <2>1, <2>2, <2>4, AcknowledgedAdvance
  <2> QED BY <2>1, <2>3, <2>4, AcknowledgedFail
<1>8. ASSUME NEW s \in CatalogSession, CommitCall(s) PROVE AcknowledgedOK'
  <2> DEFINE into == callOf[s].into
             row == callOf[s].row
  <2>1. /\ callOf[s].stage = "commit" /\ tables' = [t \in Tables |-> tables[t] \cup openRows[s][t]]
        /\ \/ acknowledged' = [acknowledged EXCEPT ![into] = @ \cup {row}]
           \/ UNCHANGED acknowledged
        /\ openRows' = [openRows EXCEPT ![s] = NoRows]
        /\ callOf' = [callOf EXCEPT ![s] = NoCall]
    BY <1>8 DEF CommitCall
  <2>2. into \in StoredTables /\ row \in tables[into] \cup openRows[s][into]
    BY <2>1 DEF AcknowledgedOK
  <2> HIDE DEF into, row
  <2>3. StoredTables \subseteq Tables
    BY DEF StoredTables, Tables
  <2>4. \A t \in StoredTables : tables[t] \subseteq tables'[t]
    BY <2>1, <2>3
  <2>5. row \in tables'[into]
    BY <2>1, <2>2, <2>3
  <2>6. /\ acknowledged' = [t \in StoredTables |-> acknowledged'[t]]
        /\ \A t \in StoredTables : acknowledged'[t] \subseteq tables'[t]
    <3>1. /\ acknowledged = [t \in StoredTables |-> acknowledged[t]]
          /\ \A t \in StoredTables : acknowledged[t] \subseteq tables[t]
      BY DEF AcknowledgedOK
    <3>2. CASE UNCHANGED acknowledged
      BY <2>4, <3>1, <3>2
    <3>3. CASE acknowledged' = [acknowledged EXCEPT ![into] = @ \cup {row}]
      <4>1. /\ acknowledged'[into] = acknowledged[into] \cup {row}
            /\ acknowledged' = [t \in StoredTables |-> acknowledged'[t]]
            /\ \A t \in StoredTables : t # into => acknowledged'[t] = acknowledged[t]
        BY <2>2, <3>1, <3>3
      <4> QED BY <2>4, <2>5, <3>1, <4>1
    <3> QED BY <2>1, <3>2, <3>3
  <2>7. /\ callOf'[s] = NoCall
        /\ \A q \in CatalogSession \ {s} : callOf'[q] = callOf[q] /\ openRows'[q] = openRows[q]
    BY <1>0, <2>1 DEF CatalogShape
  <2>8. NoCall.stage = "idle" /\ "idle" \notin CatalogTables
    BY DEF NoCall, CatalogTables, ParentTables
  <2> QED BY <2>4, <2>6, <2>7, <2>8, AcknowledgedStep
<1>9. ASSUME NEW s \in CatalogSession, ConnectionLost(s) PROVE AcknowledgedOK'
  BY <1>9, AcknowledgedFail DEF ConnectionLost
<1>10. ASSUME NEW row, UpsertApproval(row) \/ UpsertBucket(row) \/ UpsertResolution(row)
       PROVE  AcknowledgedOK'
  <2>1. PICK t \in {"approval_states", "inventory_buckets", "resolution_states"} : UpsertRow(t, row)
    BY <1>10 DEF UpsertApproval, UpsertBucket, UpsertResolution
  <2>2. UNCHANGED <<openRows, callOf, acknowledged>>
    BY <2>1 DEF UpsertRow
  <2>3. tables = [u \in Tables |-> tables[u]] /\ StoredTables \subseteq Tables /\ t \notin StoredTables
    BY <1>0 DEF CatalogShape, StoredTables, Tables
  <2>4. \A u \in StoredTables : tables'[u] = tables[u]
    BY <2>1, <2>3 DEF UpsertRow
  <2> QED BY <2>2, <2>4 DEF AcknowledgedOK
<1> QED BY <1>1, <1>3, <1>4, <1>6, <1>7, <1>8, <1>9, <1>10 DEF CatalogNext

\* Whoever was told Ok has exactly its row in the database, and no two callers were
\* told Ok for rows that exclude each other, whatever transactions overlapped,
\* failed or lost their answer.
THEOREM AcknowledgedAlwaysStored == CatalogSpec => []AcknowledgedIsStored
<1>1. ASSUME CatalogInit PROVE AcknowledgedOK
  <2>1. /\ acknowledged = [t \in StoredTables |-> {}]
        /\ \A s \in CatalogSession : callOf[s].stage = "idle"
    BY <1>1 DEF CatalogInit, NoCall
  <2>2. "idle" \notin CatalogTables
    BY DEF CatalogTables, ParentTables
  <2> QED BY <2>1, <2>2 DEF AcknowledgedOK
<1>2. ASSUME CatalogInv, AcknowledgedOK PROVE AcknowledgedIsStored
  <2>1. ASSUME NEW t \in StoredTables, NEW a \in acknowledged[t], NEW b \in acknowledged[t],
               RowsClash(t, a, b)
        PROVE  a = b
    <3>1. t \in KeyedTables /\ a \in AllRows(tables, openRows, t) /\ b \in AllRows(tables, openRows, t)
      BY <1>2, <2>1 DEF AcknowledgedOK, AllRows, StoredTables, KeyedTables, CatalogTables
    <3> QED BY <1>2, <2>1, <3>1 DEF CatalogInv, CatalogOK, KeysUnique
  <2> QED BY <1>2, <2>1 DEF AcknowledgedOK, AcknowledgedIsStored
<1> QED BY <1>1, <1>2, AcknowledgedNext, CatalogInvariant, PTL DEF CatalogSpec

---------------------------------------------------------------------------
(***************************************************************************)
(* The family view: the inductive invariant                                *)
(***************************************************************************)

LockingStages == {"upsert_locked", "journal", "commit"}
ChangingStages == LockingStages \cup {"upsert"}
EntryStages == {"commit", "snapshot"}

\* Journal numbers are not above those taken.
EntriesNumbered(log, n) == n \in Nat /\ \A x \in log : x.seq \in 1..n

WriterOK(m, n) ==
    /\ m = [x \in {"stage", "change", "entry", "keep"} |-> m[x]]
    /\ m.stage \in ChangingStages => m.change \in FamilyChange
    /\ m.stage \in EntryStages => m.entry.seq \in 1..n
    /\ m.stage = "commit" =>
           m.entry = JournalEntry(m.entry.seq, m.change.kind, RowOfChange(m.change), m.change.source)
    /\ m.stage = "snapshot" => m.entry.kind = "neg_risk_discovery_snapshot"

WritersOK(ws, n) ==
    /\ ws = [w \in FamilyWriter |-> ws[w]]
    /\ \A w \in FamilyWriter : WriterOK(ws[w], n)

\* Two writers hold the same row, or will.
SameRow(m, o) == m.change.kind = o.change.kind /\ m.change.family = o.change.family

\* A row that is written, or not there yet, is locked by one transaction.
LocksExclusive(ws) ==
    \A w, q \in FamilyWriter :
        ws[w].stage \in LockingStages /\ ws[q].stage \in LockingStages /\ SameRow(ws[w], ws[q]) => w = q

IsAbout(x, kind, family) == x.kind = kind /\ x.payload.family = family

\* An entry that is not committed is newer than the committed ones of its row.
CommitsAreNewest(log, ws) ==
    \A w \in FamilyWriter :
        ws[w].stage = "commit" =>
            \A y \in log : IsAbout(y, ws[w].change.kind, ws[w].change.family) => y.seq < ws[w].entry.seq

\* x holds the row and is the newest entry about it.
IsNewestOf(x, log, r) ==
    /\ x.kind = r.kind /\ x.payload = r
    /\ \A y \in log : IsAbout(y, r.kind, r.family) => y = x \/ y.seq < x.seq

RowsJournalled(log, rows) ==
    \A r \in rows : r.kind \in FamilyKinds /\ \E x \in log : IsNewestOf(x, log, r)

\* x has the members of the row.
Describes(x, r) == x.kind = r.kind /\ x.payload.family = r.family /\ x.payload.hash = r.hash

SummaryOK(log, s) ==
    /\ s = [x \in {"stage", "snapshot", "rows", "paths"} |-> s[x]]
    /\ s.stage = "paths" => \A r \in s.rows : r.kind \in FamilyKinds /\ \E x \in log : Describes(x, r)
    /\ s.stage = "done" => \A r \in s.rows : \E x \in s.paths : Describes(x, r)

FamilyOK(log, n, rows, ws, s) ==
    /\ EntriesNumbered(log, n)
    /\ WritersOK(ws, n)
    /\ LocksExclusive(ws)
    /\ CommitsAreNewest(log, ws)
    /\ RowsJournalled(log, rows)
    /\ SummaryOK(log, s)

FamilyInv == FamilyOK(journal, taken, view, writing, summary)

---------------------------------------------------------------------------
(***************************************************************************)
(* The family view: what a step does to a writer                           *)
(***************************************************************************)

LEMMA NoWriteOK ==
    ASSUME NEW n
    PROVE  WriterOK(NoWrite, n)
BY DEF WriterOK, NoWrite, ChangingStages, LockingStages, EntryStages

\* A writer may move on when the row it locks is not locked by another and its
\* entry is newer than those that are committed.
LEMMA WriterMoves ==
    ASSUME NEW log, NEW n, NEW rows, NEW ws, NEW s, FamilyOK(log, n, rows, ws, s),
           NEW w \in FamilyWriter, NEW m, NEW k \in Nat, n <= k, WriterOK(m, k),
           m.stage \in LockingStages =>
               \A q \in FamilyWriter \ {w} : ws[q].stage \in LockingStages => ~SameRow(m, ws[q]),
           m.stage = "commit" =>
               \A y \in log : IsAbout(y, m.change.kind, m.change.family) => y.seq < m.entry.seq
    PROVE  FamilyOK(log, k, rows, [ws EXCEPT ![w] = m], s)
<1> DEFINE us == [ws EXCEPT ![w] = m]
<1>1. ws = [q \in FamilyWriter |-> ws[q]]
  BY DEF FamilyOK, WritersOK
<1>2. us = [q \in FamilyWriter |-> us[q]] /\ us[w] = m /\ \A q \in FamilyWriter \ {w} : us[q] = ws[q]
  BY <1>1
<1> HIDE DEF us
<1>3. EntriesNumbered(log, k)
  BY DEF FamilyOK, EntriesNumbered
<1>4. n \in Nat
  BY DEF FamilyOK, EntriesNumbered
<1>5. ASSUME NEW q \in FamilyWriter PROVE WriterOK(us[q], k)
  <2>1. CASE q = w
    BY <2>1, <1>2
  <2>2. CASE q # w
    <3>1. us[q] = ws[q] /\ WriterOK(ws[q], n)
      BY <1>2, <2>2 DEF FamilyOK, WritersOK
    <3>2. \A i : i \in 1..n => i \in 1..k
      BY <1>4
    <3> QED BY <3>1, <3>2 DEF WriterOK
  <2> QED BY <2>1, <2>2
<1>6. WritersOK(us, k)
  BY <1>2, <1>5 DEF WritersOK
<1>7. LocksExclusive(us)
  BY <1>2 DEF FamilyOK, LocksExclusive, SameRow
<1>8. CommitsAreNewest(log, us)
  BY <1>2 DEF FamilyOK, CommitsAreNewest
<1> QED BY <1>3, <1>6, <1>7, <1>8 DEF FamilyOK, us

\* An entry is committed with what it says of a row, and is newer than the
\* committed ones about that row; its writer has ended.
LEMMA RowCommitted ==
    ASSUME NEW log, NEW n, NEW rows, NEW ws, NEW s, FamilyOK(log, n, rows, ws, s),
           NEW w \in FamilyWriter, ws[w].stage = "commit"
    PROVE  FamilyOK(log \cup {ws[w].entry}, n,
                    (rows \ {r \in rows : r.kind = ws[w].change.kind /\ r.family = ws[w].change.family})
                        \cup {RowOfChange(ws[w].change)},
                    [ws EXCEPT ![w] = NoWrite], s)
<1> DEFINE c == ws[w].change
           e == ws[w].entry
           row == RowOfChange(c)
           new == log \cup {e}
           kept == rows \ {r \in rows : r.kind = c.kind /\ r.family = c.family}
           us == [ws EXCEPT ![w] = NoWrite]
<1>1. FamilyOK(log, n, rows, us, s)
  <2>1. n \in Nat /\ n <= n
    BY DEF FamilyOK, EntriesNumbered
  <2>2. WriterOK(NoWrite, n) /\ NoWrite.stage \notin LockingStages /\ NoWrite.stage # "commit"
    BY NoWriteOK DEF NoWrite, LockingStages
  <2> QED BY <2>1, <2>2, WriterMoves
<1>2. WriterOK(ws[w], n)
  BY DEF FamilyOK, WritersOK
<1>3. /\ c \in FamilyChange /\ e.seq \in 1..n
      /\ e = JournalEntry(e.seq, c.kind, row, c.source)
  BY <1>2 DEF WriterOK, ChangingStages, LockingStages, EntryStages
<1>4. e.kind = c.kind /\ e.payload = row
  BY <1>3 DEF JournalEntry
<1>5. row.kind = c.kind /\ row.family = c.family /\ c.kind \in FamilyKinds
  BY <1>3, FamilyAssumption DEF RowOfChange, FamilyKinds
<1>6. \A y \in log : IsAbout(y, c.kind, c.family) => y.seq < e.seq
  BY DEF FamilyOK, CommitsAreNewest
<1>7. EntriesNumbered(new, n)
  BY <1>1, <1>3 DEF FamilyOK, EntriesNumbered
<1>8. CommitsAreNewest(new, us)
  <2>1. SUFFICES ASSUME NEW q \in FamilyWriter, us[q].stage = "commit"
                 PROVE  ~IsAbout(e, us[q].change.kind, us[q].change.family)
    BY <1>1 DEF FamilyOK, CommitsAreNewest
  <2>2. ws = [x \in FamilyWriter |-> ws[x]]
    BY DEF FamilyOK, WritersOK
  <2>3. q # w /\ us[q] = ws[q]
    BY <2>1, <2>2 DEF NoWrite
  <2>4. ~SameRow(ws[w], ws[q])
    BY <2>1, <2>3 DEF FamilyOK, LocksExclusive, LockingStages
  <2> QED BY <2>3, <2>4, <1>4, <1>5 DEF SameRow, IsAbout
<1>9. RowsJournalled(new, kept \cup {row})
  <2>1. ASSUME NEW r \in kept PROVE r.kind \in FamilyKinds /\ \E x \in new : IsNewestOf(x, new, r)
    <3>1. r \in rows /\ ~(r.kind = c.kind /\ r.family = c.family)
      BY <2>1
    <3>2. PICK x \in log : r.kind \in FamilyKinds /\ IsNewestOf(x, log, r)
      BY <3>1 DEF FamilyOK, RowsJournalled
    <3>3. ~IsAbout(e, r.kind, r.family)
      BY <3>1, <1>4, <1>5 DEF IsAbout
    <3>4. IsNewestOf(x, new, r)
      BY <3>2, <3>3 DEF IsNewestOf
    <3> QED BY <3>2, <3>4
  <2>2. IsNewestOf(e, new, row)
    BY <1>4, <1>5, <1>6 DEF IsNewestOf
  <2> QED BY <2>1, <2>2, <1>5 DEF RowsJournalled
<1>10. SummaryOK(new, s)
  BY DEF FamilyOK, SummaryOK
<1> HIDE DEF us, kept, new
<1>11. FamilyOK(new, n, kept \cup {row}, us, s)
  BY <1>1, <1>7, <1>8, <1>9, <1>10 DEF FamilyOK
<1> QED BY <1>11 DEF us, kept, new

\* A snapshot is committed; it is about no row.
LEMMA SnapshotCommitted ==
    ASSUME NEW log, NEW n, NEW rows, NEW ws, NEW s, FamilyOK(log, n, rows, ws, s),
           NEW w \in FamilyWriter, ws[w].stage = "snapshot"
    PROVE  FamilyOK(log \cup {ws[w].entry}, n, rows, [ws EXCEPT ![w] = NoWrite], s)
<1> DEFINE e == ws[w].entry
           new == log \cup {e}
           us == [ws EXCEPT ![w] = NoWrite]
<1>1. FamilyOK(log, n, rows, us, s)
  <2>1. n \in Nat /\ n <= n
    BY DEF FamilyOK, EntriesNumbered
  <2>2. WriterOK(NoWrite, n) /\ NoWrite.stage \notin LockingStages /\ NoWrite.stage # "commit"
    BY NoWriteOK DEF NoWrite, LockingStages
  <2> QED BY <2>1, <2>2, WriterMoves
<1>2. WriterOK(ws[w], n)
  BY DEF FamilyOK, WritersOK
<1>3. e.seq \in 1..n /\ e.kind \notin FamilyKinds
  BY <1>2 DEF WriterOK, EntryStages, FamilyKinds
<1>4. EntriesNumbered(new, n)
  BY <1>1, <1>3 DEF FamilyOK, EntriesNumbered
<1>5. CommitsAreNewest(new, us)
  <2>1. SUFFICES ASSUME NEW q \in FamilyWriter, us[q].stage = "commit"
                 PROVE  ~IsAbout(e, us[q].change.kind, us[q].change.family)
    BY <1>1 DEF FamilyOK, CommitsAreNewest
  <2>2. WriterOK(us[q], n)
    BY <1>1 DEF FamilyOK, WritersOK
  <2>3. us[q].change \in FamilyChange
    BY <2>1, <2>2 DEF WriterOK, ChangingStages, LockingStages
  <2>4. us[q].change.kind \in FamilyKinds
    BY <2>3, FamilyAssumption DEF FamilyKinds
  <2> QED BY <2>4, <1>3 DEF IsAbout
<1>6. RowsJournalled(new, rows)
  <2>1. SUFFICES ASSUME NEW r \in rows
                 PROVE  r.kind \in FamilyKinds /\ \E x \in new : IsNewestOf(x, new, r)
    BY DEF RowsJournalled
  <2>2. PICK x \in log : r.kind \in FamilyKinds /\ IsNewestOf(x, log, r)
    BY DEF FamilyOK, RowsJournalled
  <2>3. ~IsAbout(e, r.kind, r.family)
    BY <2>2, <1>3 DEF IsAbout
  <2> QED BY <2>2, <2>3 DEF IsNewestOf
<1>7. SummaryOK(new, s)
  BY DEF FamilyOK, SummaryOK
<1> HIDE DEF us, new
<1>8. FamilyOK(new, n, rows, us, s)
  BY <1>1, <1>4, <1>5, <1>6, <1>7 DEF FamilyOK
<1> QED BY <1>8 DEF us, new

---------------------------------------------------------------------------
(***************************************************************************)
(* The family view: what a summary reads                                   *)
(***************************************************************************)

\* A set of numbers up to n that is not empty has a greatest element.
LEMMA GreatestNumber ==
    ASSUME NEW n \in Nat, NEW S, S \subseteq 1..n, S # {}
    PROVE  \E k \in S : \A j \in S : j <= k
<1> DEFINE T == {n - j : j \in S}
<1>1. T \subseteq Nat /\ T # {}
  <2>1. ASSUME NEW j \in S PROVE n - j \in Nat
    <3>1. j \in 1..n
      OBVIOUS
    <3> QED BY <3>1
  <2>2. PICK j \in S : TRUE
    OBVIOUS
  <2>3. n - j \in T
    BY <2>2
  <2> QED BY <2>1, <2>3
<1>2. PICK t \in T : \A u \in T : ~(<<u, t>> \in OpToRel(<, Nat))
  BY <1>1, NatLessThanWellFounded, WFMin
<1>3. PICK k \in S : t = n - k
  BY <1>2
<1>4. ASSUME NEW j \in S PROVE j <= k
  <2>1. n - j \in T /\ n - j \in Nat /\ t \in Nat
    BY <1>1, <1>2
  <2>2. ~(n - j < t)
    BY <1>2, <2>1 DEF OpToRel
  <2> QED BY <1>3, <2>2
<1> QED BY <1>3, <1>4

\* The entries latest_member_vector_paths returns.
PathsOf(log) ==
    {x \in log : /\ x.kind \in FamilyKinds
                 /\ \A y \in log : /\ y.kind = x.kind /\ y.payload.family = x.payload.family
                                   /\ y.payload.hash = x.payload.hash
                                   => y.seq <= x.seq}

\* A row that has an entry with its members is shown with one.
LEMMA PathsDescribe ==
    ASSUME NEW log, NEW n, EntriesNumbered(log, n), NEW r, r.kind \in FamilyKinds,
           NEW z \in log, Describes(z, r)
    PROVE  \E x \in PathsOf(log) : Describes(x, r)
<1> DEFINE mine == {x \in log : Describes(x, r)}
           S == {x.seq : x \in mine}
<1>1. n \in Nat /\ S \subseteq 1..n /\ S # {}
  BY DEF EntriesNumbered
<1>2. PICK k \in S : \A j \in S : j <= k
  BY <1>1, GreatestNumber
<1>3. PICK x \in mine : x.seq = k
  BY <1>2
<1>4. ASSUME NEW y \in log, y.kind = x.kind /\ y.payload.family = x.payload.family
                            /\ y.payload.hash = x.payload.hash
      PROVE  y.seq <= x.seq
  <2>1. y \in mine
    BY <1>3, <1>4 DEF Describes
  <2> QED BY <2>1, <1>2, <1>3
<1>5. x \in log /\ x.kind \in FamilyKinds /\ Describes(x, r)
  BY <1>3 DEF Describes
<1> QED BY <1>4, <1>5 DEF PathsOf

---------------------------------------------------------------------------
(***************************************************************************)
(* The family view: the proof                                              *)
(***************************************************************************)

LEMMA FamilyInitOK == FamilyInit => FamilyInv
<1> SUFFICES ASSUME FamilyInit PROVE FamilyInv
  OBVIOUS
<1>1. EntriesNumbered(journal, taken)
  BY DEF FamilyInit, EntriesNumbered
<1>2. WritersOK(writing, taken)
  BY NoWriteOK DEF FamilyInit, WritersOK
<1>3. \A w \in FamilyWriter : writing[w].stage = "idle"
  BY DEF FamilyInit, NoWrite
<1>4. LocksExclusive(writing) /\ CommitsAreNewest(journal, writing)
  BY <1>3 DEF LocksExclusive, CommitsAreNewest, LockingStages
<1>5. RowsJournalled(journal, view)
  BY DEF FamilyInit, RowsJournalled
<1>6. SummaryOK(journal, summary)
  BY DEF FamilyInit, SummaryOK, NoSummary
<1> QED BY <1>1, <1>2, <1>4, <1>5, <1>6 DEF FamilyInv, FamilyOK

\* A step of a writer that commits nothing.
LEMMA WriterStep ==
    ASSUME FamilyInv, NEW w \in FamilyWriter, NEW m, writing' = [writing EXCEPT ![w] = m],
           taken' \in {taken, taken + 1}, UNCHANGED <<journal, view, summary>>, WriterOK(m, taken'),
           m.stage \in LockingStages =>
               \A q \in FamilyWriter \ {w} :
                   writing[q].stage \in LockingStages => ~SameRow(m, writing[q]),
           m.stage = "commit" =>
               \A y \in journal : IsAbout(y, m.change.kind, m.change.family) => y.seq < m.entry.seq
    PROVE  FamilyInv'
<1>1. taken \in Nat /\ taken' \in Nat /\ taken <= taken'
  BY DEF FamilyInv, FamilyOK, EntriesNumbered
<1>2. FamilyOK(journal, taken', view, [writing EXCEPT ![w] = m], summary)
  BY <1>1, WriterMoves DEF FamilyInv
<1> QED BY <1>2 DEF FamilyInv

LEMMA FamilyWriterOK ==
    ASSUME FamilyInv, NEW w \in FamilyWriter,
           \/ \E c \in FamilyChange : SelectForUpdate(w, c)
           \/ WriteRow(w) \/ AppendJournalEntry(w) \/ CommitUpsert(w) \/ LoseTransaction(w)
           \/ \E s \in FamilySnapshot : PersistDiscoverySnapshot(w, s)
           \/ CommitSnapshot(w) \/ ReadLatestSnapshot(w) \/ DeleteOtherFamilies(w)
    PROVE  FamilyInv'
<1> DEFINE m == writing[w]
<1>1. /\ taken \in Nat /\ writing = [q \in FamilyWriter |-> writing[q]]
      /\ WriterOK(m, taken)
      /\ m = [x \in {"stage", "change", "entry", "keep"} |-> m[x]]
  BY DEF FamilyInv, FamilyOK, EntriesNumbered, WritersOK, WriterOK
<1>2. NoWrite.stage = "idle" /\ \A n : WriterOK(NoWrite, n)
  BY NoWriteOK DEF NoWrite
<1>3. ASSUME NEW c \in FamilyChange, SelectForUpdate(w, c) PROVE FamilyInv'
  <2> DEFINE stage == IF RowsAt(c.kind, c.family) = {} THEN "upsert" ELSE "upsert_locked"
             o == [NoWrite EXCEPT !.stage = stage, !.change = c]
  <2>1. o.stage = stage /\ o.change = c /\ stage \in {"upsert", "upsert_locked"}
    BY DEF NoWrite
  <2>2. o = [x \in {"stage", "change", "entry", "keep"} |-> o[x]]
    BY DEF NoWrite
  <2>3. writing' = [writing EXCEPT ![w] = o] /\ taken' = taken /\ UNCHANGED <<journal, view, summary>>
    BY <1>3 DEF SelectForUpdate
  <2>4. stage \in LockingStages => ~LockedByOther(w, c.kind, c.family)
    BY <1>3 DEF SelectForUpdate, LockingStages
  <2> HIDE DEF o, stage
  <2>5. WriterOK(o, taken')
    BY <2>1, <2>2 DEF WriterOK, EntryStages
  <2>6. o.stage \in LockingStages =>
            \A q \in FamilyWriter \ {w} :
                writing[q].stage \in LockingStages => ~SameRow(o, writing[q])
    BY <2>1, <2>4 DEF LockedByOther, HoldsRow, LockingStages, SameRow
  <2>7. o.stage # "commit"
    BY <2>1
  <2> QED BY <2>3, <2>5, <2>6, <2>7, WriterStep
<1>4. ASSUME WriteRow(w) PROVE FamilyInv'
  <2> DEFINE o == [m EXCEPT !.stage = "journal"]
  <2>1. o.stage = "journal" /\ o.change = m.change
    BY <1>1
  <2>2. o = [x \in {"stage", "change", "entry", "keep"} |-> o[x]]
    BY <1>1
  <2>3. writing' = [writing EXCEPT ![w] = o] /\ taken' = taken /\ UNCHANGED <<journal, view, summary>>
    BY <1>4, <1>1 DEF WriteRow
  <2>4. m.stage \in ChangingStages
    BY <1>4 DEF WriteRow, ChangingStages, LockingStages
  <2>5. \A q \in FamilyWriter \ {w} : writing[q].stage \in LockingStages => ~SameRow(m, writing[q])
    <3>1. CASE m.stage = "upsert_locked"
      BY <3>1 DEF FamilyInv, FamilyOK, LocksExclusive, LockingStages
    <3>2. CASE ~LockedByOther(w, m.change.kind, m.change.family)
      BY <3>2 DEF LockedByOther, HoldsRow, LockingStages, SameRow
    <3> QED BY <1>4, <3>1, <3>2 DEF WriteRow
  <2> HIDE DEF o
  <2>6. WriterOK(o, taken')
    BY <2>1, <2>2, <2>4, <1>1 DEF WriterOK, EntryStages
  <2>7. \A q \in FamilyWriter \ {w} : writing[q].stage \in LockingStages => ~SameRow(o, writing[q])
    BY <2>1, <2>5 DEF SameRow
  <2>8. o.stage # "commit"
    BY <2>1
  <2> QED BY <2>3, <2>6, <2>7, <2>8, WriterStep
<1>5. ASSUME AppendJournalEntry(w) PROVE FamilyInv'
  <2> DEFINE c == m.change
             e == JournalEntry(taken + 1, c.kind, RowOfChange(c), c.source)
             o == [m EXCEPT !.stage = "commit", !.entry = e]
  <2>1. m.stage = "journal" /\ taken' = taken + 1 /\ UNCHANGED <<journal, view, summary>>
    BY <1>5 DEF AppendJournalEntry, AbortWrite
  <2>2. writing' = [writing EXCEPT ![w] = NoWrite] \/ writing' = [writing EXCEPT ![w] = o]
    BY <1>5, <1>1 DEF AppendJournalEntry, AbortWrite
  <2>3. CASE writing' = [writing EXCEPT ![w] = NoWrite]
    <3>1. NoWrite.stage \notin LockingStages /\ NoWrite.stage # "commit"
      BY <1>2 DEF LockingStages
    <3> QED BY <2>1, <2>3, <3>1, <1>2, WriterStep
  <2>4. CASE writing' = [writing EXCEPT ![w] = o]
    <3>1. o.stage = "commit" /\ o.change = c /\ o.entry = e
      BY <1>1
    <3>2. o = [x \in {"stage", "change", "entry", "keep"} |-> o[x]]
      BY <1>1
    <3>3. e.seq = taken + 1
      BY DEF JournalEntry
    <3>4. c \in FamilyChange
      BY <1>1, <2>1 DEF WriterOK, ChangingStages, LockingStages
    <3>5. e = JournalEntry(e.seq, c.kind, RowOfChange(c), c.source)
      BY <3>3
    <3> HIDE DEF o, e
    <3>6. e.seq \in 1..taken'
      BY <3>3, <2>1, <1>1
    <3>7. WriterOK(o, taken')
      BY <3>1, <3>2, <3>4, <3>5, <3>6 DEF WriterOK
    <3>8. \A q \in FamilyWriter \ {w} : writing[q].stage \in LockingStages => ~SameRow(m, writing[q])
      BY <2>1 DEF FamilyInv, FamilyOK, LocksExclusive, LockingStages
    <3>9. \A q \in FamilyWriter \ {w} : writing[q].stage \in LockingStages => ~SameRow(o, writing[q])
      BY <3>1, <3>8 DEF SameRow
    <3>10. \A y \in journal : y.seq < o.entry.seq
      BY <3>1, <3>3, <1>1 DEF FamilyInv, FamilyOK, EntriesNumbered
    <3> QED BY <2>1, <2>4, <3>7, <3>9, <3>10, WriterStep
  <2> QED BY <2>2, <2>3, <2>4
<1>6. ASSUME CommitUpsert(w) PROVE FamilyInv'
  <2>1. FamilyOK(journal \cup {m.entry}, taken,
                 (view \ {r \in view : r.kind = m.change.kind /\ r.family = m.change.family})
                     \cup {RowOfChange(m.change)},
                 [writing EXCEPT ![w] = NoWrite], summary)
    BY <1>6, RowCommitted DEF CommitUpsert, FamilyInv
  <2> QED BY <1>6, <2>1 DEF CommitUpsert, RowsAt, FamilyInv
<1>7. ASSUME LoseTransaction(w) PROVE FamilyInv'
  <2>1. /\ writing' = [writing EXCEPT ![w] = NoWrite] /\ taken' = taken
        /\ UNCHANGED <<journal, view, summary>>
    BY <1>7 DEF LoseTransaction, AbortWrite
  <2>2. NoWrite.stage \notin LockingStages /\ NoWrite.stage # "commit"
    BY <1>2 DEF LockingStages
  <2> QED BY <2>1, <2>2, <1>2, WriterStep
<1>8. ASSUME NEW s \in FamilySnapshot, PersistDiscoverySnapshot(w, s) PROVE FamilyInv'
  <2> DEFINE e == JournalEntry(taken + 1, "neg_risk_discovery_snapshot", s, s.source)
             o == [NoWrite EXCEPT !.stage = "snapshot", !.entry = e]
  <2>1. /\ writing' = [writing EXCEPT ![w] = o] /\ taken' = taken + 1
        /\ UNCHANGED <<journal, view, summary>>
    BY <1>8 DEF PersistDiscoverySnapshot
  <2>2. o.stage = "snapshot" /\ o.entry = e
    BY DEF NoWrite
  <2>3. o = [x \in {"stage", "change", "entry", "keep"} |-> o[x]]
    BY DEF NoWrite
  <2>4. e.seq \in 1..taken' /\ e.kind = "neg_risk_discovery_snapshot"
    BY <2>1, <1>1 DEF JournalEntry
  <2> HIDE DEF o, e
  <2>5. WriterOK(o, taken')
    BY <2>2, <2>3, <2>4 DEF WriterOK, ChangingStages, LockingStages
  <2>6. o.stage \notin LockingStages /\ o.stage # "commit"
    BY <2>2 DEF LockingStages
  <2> QED BY <2>1, <2>5, <2>6, WriterStep
<1>9. ASSUME CommitSnapshot(w) PROVE FamilyInv'
  BY <1>9, SnapshotCommitted DEF CommitSnapshot, FamilyInv
<1>10. ASSUME ReadLatestSnapshot(w) PROVE FamilyInv'
  <2> DEFINE o == [NoWrite EXCEPT !.stage = "delete", !.keep = LatestDiscoverySnapshot.families]
  <2>1. writing' = [writing EXCEPT ![w] = o] /\ taken' = taken /\ UNCHANGED <<journal, view, summary>>
    BY <1>10 DEF ReadLatestSnapshot
  <2>2. o.stage = "delete"
    BY DEF NoWrite
  <2>3. o = [x \in {"stage", "change", "entry", "keep"} |-> o[x]]
    BY DEF NoWrite
  <2> HIDE DEF o
  <2>4. WriterOK(o, taken')
    BY <2>2, <2>3 DEF WriterOK, ChangingStages, LockingStages, EntryStages
  <2>5. o.stage \notin LockingStages /\ o.stage # "commit"
    BY <2>2 DEF LockingStages
  <2> QED BY <2>1, <2>4, <2>5, WriterStep
<1>11. ASSUME DeleteOtherFamilies(w) PROVE FamilyInv'
  <2>1. /\ writing' = [writing EXCEPT ![w] = NoWrite] /\ UNCHANGED <<journal, taken, summary>>
        /\ view' \subseteq view
    BY <1>11 DEF DeleteOtherFamilies
  <2>2. NoWrite.stage \notin LockingStages /\ NoWrite.stage # "commit"
    BY <1>2 DEF LockingStages
  <2>3. taken <= taken /\ WriterOK(NoWrite, taken)
    BY <1>1, <1>2
  <2>4. FamilyOK(journal, taken, view, [writing EXCEPT ![w] = NoWrite], summary)
    BY <2>2, <2>3, <1>1, WriterMoves DEF FamilyInv
  <2>5. RowsJournalled(journal, view')
    BY <2>1, <2>4 DEF FamilyOK, RowsJournalled
  <2> QED BY <2>1, <2>4, <2>5 DEF FamilyOK, FamilyInv
<1> QED BY <1>3, <1>4, <1>5, <1>6, <1>7, <1>8, <1>9, <1>10, <1>11

LEMMA FamilyNextOK == FamilyInv /\ [FamilyNext]_familyVars => FamilyInv'
<1> SUFFICES ASSUME FamilyInv, [FamilyNext]_familyVars PROVE FamilyInv'
  OBVIOUS
<1>1. ASSUME UNCHANGED <<journal, taken, view, writing>>, SummaryOK(journal, summary') PROVE FamilyInv'
  BY <1>1 DEF FamilyInv, FamilyOK
<1>2. CASE LoadSnapshot
  <2>1. summary' = [NoSummary EXCEPT !.stage = "rows", !.snapshot = LatestDiscoverySnapshot]
    BY <1>2 DEF LoadSnapshot
  <2>2. SummaryOK(journal, summary')
    BY <2>1 DEF NoSummary, SummaryOK
  <2> QED BY <1>1, <1>2, <2>2 DEF LoadSnapshot
<1>3. CASE LoadRows
  <2> DEFINE found == {r \in view : r.family \in summary.snapshot.families
                                    /\ r.revision = summary.snapshot.revision}
  <2>1. summary' = [summary EXCEPT !.stage = "paths", !.rows = found]
    BY <1>3 DEF LoadRows
  <2>2. summary = [x \in {"stage", "snapshot", "rows", "paths"} |-> summary[x]]
    BY DEF FamilyInv, FamilyOK, SummaryOK
  <2>3. ASSUME NEW r \in found PROVE r.kind \in FamilyKinds /\ \E x \in journal : Describes(x, r)
    BY DEF FamilyInv, FamilyOK, RowsJournalled, IsNewestOf, Describes
  <2> HIDE DEF found
  <2>4. summary'.stage = "paths" /\ summary'.rows = found
        /\ summary' = [x \in {"stage", "snapshot", "rows", "paths"} |-> summary'[x]]
    BY <2>1, <2>2
  <2>5. SummaryOK(journal, summary')
    BY <2>3, <2>4 DEF SummaryOK
  <2> QED BY <1>1, <1>3, <2>5 DEF LoadRows
<1>4. CASE LoadMemberVectorPaths
  <2>1. summary' = [summary EXCEPT !.stage = "done", !.paths = PathsOf(journal)]
    BY <1>4 DEF LoadMemberVectorPaths, PathsOf
  <2>2. summary = [x \in {"stage", "snapshot", "rows", "paths"} |-> summary[x]]
    BY DEF FamilyInv, FamilyOK, SummaryOK
  <2>3. summary'.stage = "done" /\ summary'.rows = summary.rows /\ summary'.paths = PathsOf(journal)
        /\ summary' = [x \in {"stage", "snapshot", "rows", "paths"} |-> summary'[x]]
    BY <2>1, <2>2
  <2>4. ASSUME NEW r \in summary.rows PROVE \E x \in PathsOf(journal) : Describes(x, r)
    <3>1. PICK z \in journal : r.kind \in FamilyKinds /\ Describes(z, r)
      BY <1>4 DEF LoadMemberVectorPaths, FamilyInv, FamilyOK, SummaryOK
    <3>2. EntriesNumbered(journal, taken)
      BY DEF FamilyInv, FamilyOK
    <3> QED BY <3>1, <3>2, PathsDescribe
  <2>5. SummaryOK(journal, summary')
    BY <2>3, <2>4 DEF SummaryOK
  <2> QED BY <1>1, <1>4, <2>5 DEF LoadMemberVectorPaths
<1>5. CASE UNCHANGED familyVars
  BY <1>5 DEF familyVars, FamilyInv
<1> QED BY <1>2, <1>3, <1>4, <1>5, FamilyWriterOK DEF FamilyNext

LEMMA FamilyInvariant == FamilySpec => []FamilyInv
BY FamilyInitOK, FamilyNextOK, PTL DEF FamilySpec

\* A row of the current view is what the newest entry of its family and kind
\* says, though an upsert journals after the row is locked and commits after
\* both: two upserts of a row never hold it together.
THEOREM RowsAreAlwaysLatest == FamilySpec => []RowIsLatestJournalled
<1>1. ASSUME FamilyInv PROVE RowIsLatestJournalled
  <2> DEFINE mine(r) == {x \in EntriesOf(r.kind) : x.payload.family = r.family}
  <2>1. ASSUME NEW r \in view PROVE mine(r) # {} /\ Newest(mine(r)).payload = r
    <3>1. PICK x \in journal : IsNewestOf(x, journal, r)
      BY <1>1 DEF FamilyInv, FamilyOK, RowsJournalled
    <3>2. \A y \in journal : y.seq \in Int
      BY <1>1 DEF FamilyInv, FamilyOK, EntriesNumbered
    <3>3. x \in mine(r) /\ mine(r) \subseteq journal
      BY <3>1 DEF IsNewestOf, EntriesOf
    <3>4. ASSUME NEW y \in mine(r) PROVE y = x \/ y.seq < x.seq
      BY <3>1, <3>3 DEF IsNewestOf, IsAbout, EntriesOf
    <3> HIDE DEF mine
    <3>5. \A y \in mine(r) : y.seq <= x.seq
      BY <3>2, <3>3, <3>4
    <3>6. Newest(mine(r)) \in mine(r) /\ \A y \in mine(r) : y.seq <= Newest(mine(r)).seq
      BY <3>3, <3>5 DEF Newest
    <3>7. Newest(mine(r)) = x
      BY <3>2, <3>3, <3>4, <3>6
    <3> QED BY <3>1, <3>3, <3>7 DEF IsNewestOf
  <2> QED BY <2>1 DEF RowIsLatestJournalled
<1> QED BY <1>1, FamilyInvariant, PTL

\* Every row of a finished summary has the entry with its members, whatever was
\* committed or deleted between the queries of load_neg_risk_foundation_summary.
THEOREM SummariesAlwaysHaveMembers == FamilySpec => []SummaryHasMemberVectors
<1>1. ASSUME FamilyInv PROVE SummaryHasMemberVectors
  BY <1>1 DEF FamilyInv, FamilyOK, SummaryOK, Describes, SummaryHasMemberVectors
<1> QED BY <1>1, FamilyInvariant, PTL

---------------------------------------------------------------------------
(***************************************************************************)
(* Execution records: the inductive invariant                              *)
(***************************************************************************)

AttemptIds(rows) == {a.attempt.id : a \in rows}

HasArtifact(artifacts, id) == \E i \in DOMAIN artifacts : artifacts[i].attempt = id

\* The artifacts that batches record.
Artifact == UNION {{ArtifactOf(b.rows[i]) : i \in {j \in DOMAIN b.rows : b.rows[j].kind = "artifact"}} :
                   b \in ShadowBatch}

\* An attempt has one artifact at most.
OneEach(artifacts) ==
    \A i, j \in DOMAIN artifacts : artifacts[i].attempt = artifacts[j].attempt => i = j

BatchField == {"batch", "step", "attempts", "artifacts", "begun"}

\* The rows a transaction has recorded, or found recorded.
HandledOK(t, rows, artifacts) ==
    \A i \in DOMAIN t.batch.rows : i < t.step =>
        LET row == t.batch.rows[i] IN
        /\ row.kind = "attempt" =>
              \E a \in rows \cup t.attempts : a.attempt.id = row.attempt.id /\ a.attempt.mode = "shadow"
        /\ row.kind = "artifact" =>
              HasArtifact(artifacts, row.attempt.id) \/ HasArtifact(t.artifacts, row.attempt.id)

\* The attempts of a transaction are new; its artifacts are of them.
OwnOK(batch, attempts, artifacts, rows) ==
    /\ \A a \in attempts :
          /\ a.attempt.mode = "shadow" /\ a.attempt.id \notin AttemptIds(rows)
          /\ \E i \in DOMAIN batch.rows : batch.rows[i].kind = "attempt" /\ batch.rows[i].attempt = a.attempt
    /\ \A a, b \in attempts : a.attempt.id = b.attempt.id => a = b
    /\ artifacts \in Seq(Artifact)
    /\ \A i \in DOMAIN artifacts : artifacts[i].attempt \in AttemptIds(attempts)
    /\ OneEach(artifacts)

OwnRowsOK(t, rows) == OwnOK(t.batch, t.attempts, t.artifacts, rows)

BatchOK(t, rows, artifacts) ==
    /\ t = [x \in BatchField |-> t[x]]
    /\ t.step \in Nat
    /\ t.step = 0 => t = NoBatch
    /\ t.step # 0 => t.batch \in ShadowBatch /\ HandledOK(t, rows, artifacts) /\ OwnRowsOK(t, rows)

\* What is committed: a shadow attempt has its artifact, and an artifact its
\* shadow attempt.
TablesOK(rows, artifacts) ==
    /\ \A a \in rows : a.attempt.mode \in {"shadow", "live"}
    /\ \A a, b \in rows : a.attempt.id = b.attempt.id => a = b
    /\ \A a \in rows : a.attempt.mode = "shadow" => HasArtifact(artifacts, a.attempt.id)
    /\ artifacts \in Seq(Artifact)
    /\ \A i \in DOMAIN artifacts : artifacts[i].attempt \in AttemptIds(rows)
    /\ OneEach(artifacts)

\* No two transactions have inserted an attempt.
OwnedOnce(bs) ==
    \A w, q \in BatchWriter : w # q => AttemptIds(bs[w].attempts) \cap AttemptIds(bs[q].attempts) = {}

RecordsOK(rows, artifacts, bs) ==
    /\ TablesOK(rows, artifacts)
    /\ bs = [w \in BatchWriter |-> bs[w]]
    /\ \A w \in BatchWriter : BatchOK(bs[w], rows, artifacts)
    /\ OwnedOnce(bs)

RecordsInv == RecordsOK(attemptRows, shadowArtifacts, batches)

---------------------------------------------------------------------------
(***************************************************************************)
(* Execution records: rows and artifacts                                   *)
(***************************************************************************)

LEMMA NoBatchIs ==
    /\ NoBatch = [x \in BatchField |-> NoBatch[x]]
    /\ NoBatch.step = 0 /\ NoBatch.attempts = {} /\ NoBatch.artifacts = <<>>
BY DEF NoBatch, BatchField

LEMMA NoBatchOK == \A rows, artifacts : BatchOK(NoBatch, rows, artifacts)
BY NoBatchIs DEF BatchOK

LEMMA BatchRows ==
    ASSUME NEW b \in ShadowBatch
    PROVE  /\ Len(b.rows) \in Nat /\ DOMAIN b.rows = 1..Len(b.rows)
           /\ \A i, j \in DOMAIN b.rows : b.rows[i].kind = "attempt" /\ b.rows[j].kind = "artifact" => i < j
           /\ \A i \in DOMAIN b.rows :
                 /\ b.rows[i].kind \in {"attempt", "artifact"} /\ b.rows[i].attempt.mode = "shadow"
                 /\ b.rows[i].kind = "artifact" => b.rows[i].stream = ShadowArtifactStream
                 /\ \E j \in DOMAIN b.rows :
                        b.rows[j].kind # b.rows[i].kind /\ b.rows[j].attempt = b.rows[i].attempt
<1>1. WellFormedBatch(b)
  BY RecordsAssumption
<1>2. b.rows \in Seq(ToSet(b.rows))
  BY <1>1 DEF WellFormedBatch
<1>3. Len(b.rows) \in Nat /\ DOMAIN b.rows = 1..Len(b.rows)
  BY <1>2
<1> QED BY <1>1, <1>3 DEF WellFormedBatch

LEMMA ArtifactStream == \A x \in Artifact : x.stream = ShadowArtifactStream
<1> SUFFICES ASSUME NEW x \in Artifact PROVE x.stream = ShadowArtifactStream
  OBVIOUS
<1>1. PICK b \in ShadowBatch :
        \E i \in DOMAIN b.rows : b.rows[i].kind = "artifact" /\ x = ArtifactOf(b.rows[i])
  BY DEF Artifact
<1> QED BY <1>1, BatchRows DEF ArtifactOf

\* Artifacts that come last.
LEMMA MoreArtifacts ==
    ASSUME NEW s \in Seq(Artifact), NEW t \in Seq(Artifact), OneEach(s), OneEach(t),
           \A i \in DOMAIN s, j \in DOMAIN t : s[i].attempt # t[j].attempt
    PROVE  /\ s \o t \in Seq(Artifact)
           /\ OneEach(s \o t)
           /\ \A id : HasArtifact(s \o t, id) <=> HasArtifact(s, id) \/ HasArtifact(t, id)
           /\ \A k \in DOMAIN (s \o t) :
                 \/ \E i \in DOMAIN s : (s \o t)[k] = s[i]
                 \/ \E j \in DOMAIN t : (s \o t)[k] = t[j]
<1> DEFINE m == Len(s)
           n == Len(t)
<1>1. m \in Nat /\ n \in Nat /\ DOMAIN s = 1..m /\ DOMAIN t = 1..n
  OBVIOUS
<1>2. s \o t \in Seq(Artifact) /\ Len(s \o t) = m + n /\ DOMAIN (s \o t) = 1..(m + n)
  OBVIOUS
<1>3. \A k \in 1..(m + n) : (s \o t)[k] = IF k <= m THEN s[k] ELSE t[k - m]
  OBVIOUS
<1> HIDE DEF m, n
<1>4. ASSUME NEW k \in 1..(m + n), ~(k <= m) PROVE k - m \in 1..n /\ (s \o t)[k] = t[k - m]
  BY <1>1, <1>3, <1>4
<1>5. ASSUME NEW k \in 1..(m + n), k <= m PROVE k \in 1..m /\ (s \o t)[k] = s[k]
  BY <1>1, <1>3, <1>5
<1>6. ASSUME NEW k \in 1..(m + n), NEW l \in 1..(m + n), (s \o t)[k].attempt = (s \o t)[l].attempt
      PROVE  k = l
  <2>1. CASE k <= m /\ l <= m
    BY <1>1, <1>5, <1>6, <2>1 DEF OneEach
  <2>2. CASE k <= m /\ ~(l <= m)
    BY <1>1, <1>4, <1>5, <1>6, <2>2
  <2>3. CASE ~(k <= m) /\ l <= m
    BY <1>1, <1>4, <1>5, <1>6, <2>3
  <2>4. CASE ~(k <= m) /\ ~(l <= m)
    <3> DEFINE i == k - m
               j == l - m
    <3>1. i \in DOMAIN t /\ (s \o t)[k] = t[i] /\ j \in DOMAIN t /\ (s \o t)[l] = t[j]
      BY <1>1, <1>4, <2>4
    <3> HIDE DEF i, j
    <3>2. i = j
      BY <1>6, <3>1 DEF OneEach
    <3> QED BY <1>1, <3>2 DEF i, j
  <2> QED BY <2>1, <2>2, <2>3, <2>4
<1>7. OneEach(s \o t)
  BY <1>2, <1>6 DEF OneEach
<1>8. \A k \in DOMAIN (s \o t) :
        \/ \E i \in DOMAIN s : (s \o t)[k] = s[i]
        \/ \E j \in DOMAIN t : (s \o t)[k] = t[j]
  BY <1>1, <1>2, <1>4, <1>5
<1>9. \A i \in DOMAIN s : i \in DOMAIN (s \o t) /\ (s \o t)[i] = s[i]
  BY <1>1, <1>2, <1>3
<1>10. \A j \in DOMAIN t : \E k \in DOMAIN (s \o t) : (s \o t)[k] = t[j]
  <2> SUFFICES ASSUME NEW j \in DOMAIN t PROVE m + j \in 1..(m + n) /\ (s \o t)[m + j] = t[j]
    BY <1>2
  <2>1. m + j \in 1..(m + n) /\ ~(m + j <= m) /\ (m + j) - m = j
    BY <1>1
  <2> QED BY <1>4, <2>1
<1>11. ASSUME NEW id PROVE HasArtifact(s \o t, id) <=> HasArtifact(s, id) \/ HasArtifact(t, id)
  <2> HIDE DEF HasArtifact
  <2>1. HasArtifact(s \o t, id) => HasArtifact(s, id) \/ HasArtifact(t, id)
    BY <1>8 DEF HasArtifact
  <2>2. HasArtifact(s, id) => HasArtifact(s \o t, id)
    BY <1>9 DEF HasArtifact
  <2>3. HasArtifact(t, id) => HasArtifact(s \o t, id)
    BY <1>10 DEF HasArtifact
  <2> QED BY <2>1, <2>2, <2>3
<1> QED BY <1>2, <1>7, <1>8, <1>11

\* An artifact that comes last.
LEMMA OneArtifactMore ==
    ASSUME NEW s \in Seq(Artifact), NEW x \in Artifact, OneEach(s), ~HasArtifact(s, x.attempt)
    PROVE  /\ Append(s, x) \in Seq(Artifact)
           /\ OneEach(Append(s, x))
           /\ \A id : HasArtifact(Append(s, x), id) <=> HasArtifact(s, id) \/ id = x.attempt
           /\ \A k \in DOMAIN Append(s, x) : Append(s, x)[k] = x \/ \E i \in DOMAIN s : Append(s, x)[k] = s[i]
<1>1. Append(s, x) = s \o <<x>>
  BY AppendIsConcat
<1>2. <<x>> \in Seq(Artifact) /\ DOMAIN <<x>> = {1} /\ <<x>>[1] = x
  OBVIOUS
<1>3. OneEach(<<x>>)
  BY <1>2 DEF OneEach
<1>4. \A i \in DOMAIN s, j \in DOMAIN <<x>> : s[i].attempt # <<x>>[j].attempt
  BY <1>2 DEF HasArtifact
<1>5. \A id : HasArtifact(<<x>>, id) <=> id = x.attempt
  BY <1>2 DEF HasArtifact
<1> DEFINE last == <<x>>
<1> HIDE DEF last
<1>6. /\ s \o last \in Seq(Artifact) /\ OneEach(s \o last)
      /\ \A id : HasArtifact(s \o last, id) <=> HasArtifact(s, id) \/ HasArtifact(last, id)
      /\ \A k \in DOMAIN (s \o last) :
            \/ \E i \in DOMAIN s : (s \o last)[k] = s[i]
            \/ \E j \in DOMAIN last : (s \o last)[k] = last[j]
  BY <1>2, <1>3, <1>4, MoreArtifacts DEF last
<1> QED BY <1>1, <1>2, <1>5, <1>6 DEF last

---------------------------------------------------------------------------
(***************************************************************************)
(* Execution records: steps                                                *)
(***************************************************************************)

\* A writer moves, and the tables do not.
LEMMA BatchMoves ==
    ASSUME NEW rows, NEW artifacts, NEW bs, RecordsOK(rows, artifacts, bs),
           NEW w \in BatchWriter, NEW t, BatchOK(t, rows, artifacts),
           \A q \in BatchWriter \ {w} : AttemptIds(t.attempts) \cap AttemptIds(bs[q].attempts) = {}
    PROVE  RecordsOK(rows, artifacts, [bs EXCEPT ![w] = t])
<1> DEFINE new == [bs EXCEPT ![w] = t]
<1>1. bs = [q \in BatchWriter |-> bs[q]]
  BY DEF RecordsOK
<1>2. new = [q \in BatchWriter |-> IF q = w THEN t ELSE bs[q]]
  BY <1>1
<1>3. new = [q \in BatchWriter |-> new[q]]
  BY <1>2
<1>4. \A q \in BatchWriter : new[q] = IF q = w THEN t ELSE bs[q]
  BY <1>2
<1> HIDE DEF new
<1>5. \A q \in BatchWriter : BatchOK(new[q], rows, artifacts)
  BY <1>4 DEF RecordsOK
<1>6. OwnedOnce(new)
  BY <1>4 DEF RecordsOK, OwnedOnce
<1>7. TablesOK(rows, artifacts)
  BY DEF RecordsOK
<1>8. RecordsOK(rows, artifacts, new)
  BY <1>3, <1>5, <1>6, <1>7 DEF RecordsOK
<1> QED BY <1>8 DEF new

\* The tables grow under a transaction.
LEMMA TablesGrow ==
    ASSUME NEW t, NEW rows, NEW artifacts, BatchOK(t, rows, artifacts),
           NEW more, rows \subseteq more, NEW longer,
           \A id : HasArtifact(artifacts, id) => HasArtifact(longer, id),
           \A a \in t.attempts : a.attempt.id \notin AttemptIds(more)
    PROVE  BatchOK(t, more, longer)
<1>1. CASE t.step = 0
  BY <1>1 DEF BatchOK
<1>2. CASE t.step # 0
  <2>1. HandledOK(t, rows, artifacts) /\ OwnRowsOK(t, rows) /\ t.batch \in ShadowBatch
    BY <1>2 DEF BatchOK
  <2>2. HandledOK(t, more, longer)
    BY <2>1 DEF HandledOK
  <2>3. OwnRowsOK(t, more)
    BY <2>1 DEF OwnRowsOK, OwnOK
  <2> QED BY <1>2, <2>1, <2>2, <2>3 DEF BatchOK
<1> QED BY <1>1, <1>2

\* A transaction that has handled its next row.
LEMMA RowHandled ==
    ASSUME NEW t, NEW rows, NEW artifacts, BatchOK(t, rows, artifacts), t.step # 0,
           NEW u, u = [x \in BatchField |-> u[x]],
           u.batch = t.batch, u.step = t.step + 1, t.attempts \subseteq u.attempts,
           \A id : HasArtifact(t.artifacts, id) => HasArtifact(u.artifacts, id),
           OwnRowsOK(u, rows),
           t.batch.rows[t.step].kind = "attempt" =>
               \E a \in rows \cup u.attempts :
                   a.attempt.id = t.batch.rows[t.step].attempt.id /\ a.attempt.mode = "shadow",
           t.batch.rows[t.step].kind = "artifact" =>
               HasArtifact(artifacts, t.batch.rows[t.step].attempt.id)
               \/ HasArtifact(u.artifacts, t.batch.rows[t.step].attempt.id)
    PROVE  BatchOK(u, rows, artifacts)
<1>1. t.step \in Nat /\ t.batch \in ShadowBatch /\ HandledOK(t, rows, artifacts)
  BY DEF BatchOK
<1>2. DOMAIN t.batch.rows = 1..Len(t.batch.rows) /\ Len(t.batch.rows) \in Nat
  BY <1>1, BatchRows
<1>3. ASSUME NEW i \in DOMAIN t.batch.rows, i < t.step + 1
      PROVE  LET row == t.batch.rows[i] IN
             /\ row.kind = "attempt" =>
                   \E a \in rows \cup u.attempts : a.attempt.id = row.attempt.id /\ a.attempt.mode = "shadow"
             /\ row.kind = "artifact" =>
                   HasArtifact(artifacts, row.attempt.id) \/ HasArtifact(u.artifacts, row.attempt.id)
  <2>1. CASE i = t.step
    BY <2>1
  <2>2. CASE i # t.step
    <3>1. i < t.step
      BY <1>1, <1>2, <1>3, <2>2
    <3> QED BY <1>1, <3>1 DEF HandledOK
  <2> QED BY <2>1, <2>2
<1>4. HandledOK(u, rows, artifacts)
  BY <1>3 DEF HandledOK
<1>5. u.step \in Nat /\ u.step # 0
  BY <1>1
<1> QED BY <1>1, <1>4, <1>5 DEF BatchOK

\* The fields of a transaction that a statement assigns.
Assigned(t, step, attempts, artifacts) ==
    [t EXCEPT !.step = step, !.attempts = attempts, !.artifacts = artifacts]

LEMMA BatchAssigned ==
    ASSUME NEW t, t = [x \in BatchField |-> t[x]], NEW s, NEW rs, NEW xs
    PROVE  /\ Assigned(t, s, rs, xs) = [x \in BatchField |-> Assigned(t, s, rs, xs)[x]]
           /\ Assigned(t, s, rs, xs).batch = t.batch /\ Assigned(t, s, rs, xs).step = s
           /\ Assigned(t, s, rs, xs).attempts = rs /\ Assigned(t, s, rs, xs).artifacts = xs
BY DEF BatchField, Assigned

LEMMA BatchSame ==
    ASSUME NEW t, t = [x \in BatchField |-> t[x]], NEW s
    PROVE  /\ [t EXCEPT !.step = s] = Assigned(t, s, t.attempts, t.artifacts)
           /\ \A rs : [t EXCEPT !.step = s, !.attempts = rs] = Assigned(t, s, rs, t.artifacts)
BY DEF BatchField, Assigned

LEMMA BatchSameAttempts ==
    ASSUME NEW t, t = [x \in BatchField |-> t[x]], NEW s, NEW xs
    PROVE  [t EXCEPT !.step = s, !.artifacts = xs] = Assigned(t, s, t.attempts, xs)
BY DEF BatchField, Assigned

LEMMA RecordsInitOK == VerifyInit => RecordsInv
<1> SUFFICES ASSUME VerifyInit PROVE RecordsOK({}, <<>>, [w \in BatchWriter |-> NoBatch])
  BY DEF VerifyInit, RecordsInit, RecordsInv
<1>1. TablesOK({}, <<>>)
  BY DEF TablesOK, OneEach
<1> DEFINE bs == [w \in BatchWriter |-> NoBatch]
<1>2. bs = [w \in BatchWriter |-> bs[w]] /\ \A w \in BatchWriter : bs[w] = NoBatch
  OBVIOUS
<1> HIDE DEF bs
<1>3. OwnedOnce(bs)
  BY <1>2, NoBatchIs DEF OwnedOnce, AttemptIds
<1>4. RecordsOK({}, <<>>, bs)
  BY <1>1, <1>2, <1>3, NoBatchOK DEF RecordsOK
<1> QED BY <1>4 DEF bs

LEMMA RollBackOK ==
    ASSUME RecordsInv, NEW w \in BatchWriter, RollBack(w)
    PROVE  RecordsInv'
<1>1. \A q \in BatchWriter \ {w} : AttemptIds(NoBatch.attempts) \cap AttemptIds(batches[q].attempts) = {}
  BY NoBatchIs DEF AttemptIds
<1>2. RecordsOK(attemptRows, shadowArtifacts, [batches EXCEPT ![w] = NoBatch])
  BY <1>1, NoBatchOK, BatchMoves DEF RecordsInv
<1> QED BY <1>2 DEF RollBack, RecordsInv

\* What a writer at a row of its batch knows.
LEMMA AtRowFacts ==
    ASSUME RecordsInv, NEW w \in BatchWriter, NEW kind, AtRow(w, kind)
    PROVE  LET t == batches[w] IN
           /\ BatchOK(t, attemptRows, shadowArtifacts) /\ t = [x \in BatchField |-> t[x]]
           /\ t.step \in Nat \ {0} /\ t.batch \in ShadowBatch
           /\ HandledOK(t, attemptRows, shadowArtifacts) /\ OwnRowsOK(t, attemptRows)
           /\ t.step \in DOMAIN t.batch.rows
           /\ NextRow(w) = t.batch.rows[t.step] /\ NextRow(w).kind = kind
           /\ NextRow(w).attempt.mode = "shadow"
<1> DEFINE t == batches[w]
<1>1. BatchOK(t, attemptRows, shadowArtifacts)
  BY DEF RecordsInv, RecordsOK
<1>2. t # NoBatch /\ t.step <= Len(t.batch.rows) /\ NextRow(w).kind = kind
  BY DEF AtRow
<1>3. NextRow(w) = t.batch.rows[t.step]
  BY DEF NextRow
<1> HIDE DEF t
<1>4. t.step \in Nat /\ t.step # 0 /\ t.batch \in ShadowBatch
  BY <1>1, <1>2 DEF BatchOK
<1>5. t.step \in DOMAIN t.batch.rows
  BY <1>2, <1>4, BatchRows
<1>6. NextRow(w).attempt.mode = "shadow"
  BY <1>3, <1>4, <1>5, BatchRows
<1>7. /\ t = [x \in BatchField |-> t[x]]
      /\ HandledOK(t, attemptRows, shadowArtifacts) /\ OwnRowsOK(t, attemptRows)
  BY <1>1, <1>4 DEF BatchOK
<1> QED BY <1>1, <1>2, <1>3, <1>4, <1>5, <1>6, <1>7 DEF t

\* The row is there already.
LEMMA NextStatementOK ==
    ASSUME RecordsInv, NEW w \in BatchWriter, NEW kind, AtRow(w, kind), NextStatement(w),
           kind = "attempt" =>
               \E a \in attemptRows \cup batches[w].attempts :
                   a.attempt.id = NextRow(w).attempt.id /\ a.attempt.mode = "shadow",
           kind = "artifact" =>
               HasArtifact(shadowArtifacts, NextRow(w).attempt.id)
               \/ HasArtifact(batches[w].artifacts, NextRow(w).attempt.id)
    PROVE  RecordsInv'
<1> DEFINE t == batches[w]
           u == Assigned(t, t.step + 1, t.attempts, t.artifacts)
<1>1. /\ BatchOK(t, attemptRows, shadowArtifacts) /\ t = [x \in BatchField |-> t[x]]
      /\ t.step \in Nat \ {0} /\ OwnRowsOK(t, attemptRows)
      /\ NextRow(w) = t.batch.rows[t.step] /\ NextRow(w).kind = kind
  BY AtRowFacts
<1>2. batches' = [batches EXCEPT ![w] = [t EXCEPT !.step = t.step + 1]]
      /\ UNCHANGED <<attemptRows, shadowArtifacts>>
  BY DEF NextStatement
<1> HIDE DEF t
<1>3. [t EXCEPT !.step = t.step + 1] = u
  BY <1>1, BatchSame
<1>4. /\ u = [x \in BatchField |-> u[x]]
      /\ u.batch = t.batch /\ u.step = t.step + 1 /\ u.attempts = t.attempts /\ u.artifacts = t.artifacts
  BY <1>1, BatchAssigned
<1> HIDE DEF u
<1>5. OwnRowsOK(u, attemptRows)
  BY <1>1, <1>4 DEF OwnRowsOK
<1>6. BatchOK(u, attemptRows, shadowArtifacts)
  <2>1. t.step # 0 /\ t.attempts \subseteq u.attempts
    BY <1>1, <1>4
  <2>2. \A id : HasArtifact(t.artifacts, id) => HasArtifact(u.artifacts, id)
    BY <1>4
  <2>3. t.batch.rows[t.step].kind = "attempt" =>
            \E a \in attemptRows \cup u.attempts :
                a.attempt.id = t.batch.rows[t.step].attempt.id /\ a.attempt.mode = "shadow"
    BY <1>1, <1>4 DEF t
  <2>4. t.batch.rows[t.step].kind = "artifact" =>
            HasArtifact(shadowArtifacts, t.batch.rows[t.step].attempt.id)
            \/ HasArtifact(u.artifacts, t.batch.rows[t.step].attempt.id)
    BY <1>1, <1>4 DEF t
  <2>5. BatchOK(t, attemptRows, shadowArtifacts) /\ u = [x \in BatchField |-> u[x]]
        /\ u.batch = t.batch /\ u.step = t.step + 1
    BY <1>1, <1>4
  <2> QED BY <1>5, <2>1, <2>2, <2>3, <2>4, <2>5, RowHandled
<1>7. \A q \in BatchWriter \ {w} : AttemptIds(u.attempts) \cap AttemptIds(batches[q].attempts) = {}
  BY <1>4 DEF RecordsInv, RecordsOK, OwnedOnce, t
<1>8. RecordsOK(attemptRows, shadowArtifacts, [batches EXCEPT ![w] = u])
  BY <1>6, <1>7, BatchMoves DEF RecordsInv
<1> QED BY <1>2, <1>3, <1>8 DEF RecordsInv

LEMMA BeginBatchOK ==
    ASSUME RecordsInv, NEW w \in BatchWriter, NEW b \in ShadowBatch, BeginBatch(w, b)
    PROVE  RecordsInv'
<1> DEFINE begun == Cardinality(attemptRows)
           u == [NoBatch EXCEPT !.batch = b, !.step = 1, !.begun = begun]
<1>1. batches' = [batches EXCEPT ![w] = u] /\ UNCHANGED <<attemptRows, shadowArtifacts>>
  BY DEF BeginBatch
<1>2. /\ u = [x \in BatchField |-> u[x]] /\ u.batch = b /\ u.step = 1 /\ u.attempts = {} /\ u.artifacts = <<>>
  <2> HIDE DEF begun
  <2> QED BY DEF NoBatch, BatchField
<1> HIDE DEF u
<1>3. HandledOK(u, attemptRows, shadowArtifacts)
  <2>1. \A i \in DOMAIN b.rows : ~(i < 1)
    BY BatchRows
  <2> QED BY <1>2, <2>1 DEF HandledOK
<1>4. OwnRowsOK(u, attemptRows)
  <2>1. OwnOK(b, {}, <<>>, attemptRows)
    BY DEF OwnOK, OneEach
  <2> QED BY <1>2, <2>1 DEF OwnRowsOK
<1>5. BatchOK(u, attemptRows, shadowArtifacts)
  BY <1>2, <1>3, <1>4 DEF BatchOK
<1>6. \A q \in BatchWriter \ {w} : AttemptIds(u.attempts) \cap AttemptIds(batches[q].attempts) = {}
  BY <1>2 DEF AttemptIds
<1>7. RecordsOK(attemptRows, shadowArtifacts, [batches EXCEPT ![w] = u])
  BY <1>5, <1>6, BatchMoves DEF RecordsInv
<1> QED BY <1>1, <1>7 DEF RecordsInv

LEMMA ShadowAttemptOK ==
    ASSUME RecordsInv, NEW w \in BatchWriter, AppendShadowAttempt(w)
    PROVE  RecordsInv'
<1> DEFINE t == batches[w]
           row == NextRow(w).attempt
           a0 == [attempt |-> row, at |-> t.begun]
           rs == t.attempts \cup {a0}
           u == Assigned(t, t.step + 1, rs, t.artifacts)
           existing == AttemptsWithId(VisibleAttempts(w), row.id)
<1>1. AtRow(w, "attempt") /\ ~InsertedByOther(w, row.id)
  BY DEF AppendShadowAttempt
<1>2. /\ BatchOK(t, attemptRows, shadowArtifacts) /\ t = [x \in BatchField |-> t[x]]
      /\ t.step \in Nat \ {0} /\ t.batch \in ShadowBatch /\ OwnRowsOK(t, attemptRows)
      /\ t.step \in DOMAIN t.batch.rows
      /\ NextRow(w) = t.batch.rows[t.step] /\ NextRow(w).kind = "attempt" /\ row.mode = "shadow"
  BY <1>1, AtRowFacts
<1>3. existing = {a \in attemptRows \cup t.attempts : a.attempt.id = row.id}
  BY DEF AttemptsWithId, VisibleAttempts
<1>4. CASE existing = {}
  <2>1. batches' = [batches EXCEPT ![w] = [t EXCEPT !.step = t.step + 1, !.attempts = rs]]
        /\ UNCHANGED <<attemptRows, shadowArtifacts>>
    BY <1>4 DEF AppendShadowAttempt
  <2>2. a0.attempt = row
    OBVIOUS
  <2> HIDE DEF t, row, existing, a0
  <2>3. \A a \in attemptRows \cup t.attempts : a.attempt.id # row.id
    BY <1>3, <1>4
  <2>4. [t EXCEPT !.step = t.step + 1, !.attempts = rs] = u
    BY <1>2, BatchSame
  <2>5. /\ u = [x \in BatchField |-> u[x]]
        /\ u.batch = t.batch /\ u.step = t.step + 1 /\ u.attempts = rs /\ u.artifacts = t.artifacts
    <3> HIDE DEF rs, u
    <3>1. t = [x \in BatchField |-> t[x]]
      BY <1>2
    <3>2. \A n, r, x : LET v == Assigned(t, n, r, x) IN
            /\ v = [y \in BatchField |-> v[y]]
            /\ v.batch = t.batch /\ v.step = n /\ v.attempts = r /\ v.artifacts = x
      BY <3>1, BatchAssigned
    <3> QED BY <3>2 DEF u
  <2> HIDE DEF u
  <2>6. AttemptIds(rs) = AttemptIds(t.attempts) \cup {row.id}
    BY <2>2 DEF AttemptIds
  <2>7. OwnRowsOK(u, attemptRows)
    <3>1. row.id \notin AttemptIds(attemptRows)
      BY <2>3 DEF AttemptIds
    <3>2. ASSUME NEW a \in rs
          PROVE  /\ a.attempt.mode = "shadow" /\ a.attempt.id \notin AttemptIds(attemptRows)
                 /\ \E i \in DOMAIN t.batch.rows :
                        t.batch.rows[i].kind = "attempt" /\ t.batch.rows[i].attempt = a.attempt
      <4>1. CASE a \in t.attempts
        BY <1>2, <4>1 DEF OwnRowsOK, OwnOK
      <4>2. CASE a = a0
        BY <1>2, <2>2, <3>1, <4>2 DEF row
      <4> QED BY <4>1, <4>2
    <3>3. \A a, c \in rs : a.attempt.id = c.attempt.id => a = c
      <4>1. \A a, c \in t.attempts : a.attempt.id = c.attempt.id => a = c
        BY <1>2 DEF OwnRowsOK, OwnOK
      <4> QED BY <2>2, <2>3, <4>1
    <3>4. t.artifacts \in Seq(Artifact) /\ OneEach(t.artifacts)
          /\ \A i \in DOMAIN t.artifacts : t.artifacts[i].attempt \in AttemptIds(t.attempts)
      BY <1>2 DEF OwnRowsOK, OwnOK
    <3> HIDE DEF rs
    <3>5. OwnOK(t.batch, rs, t.artifacts, attemptRows)
      BY <2>6, <3>2, <3>3, <3>4 DEF OwnOK
    <3> QED BY <2>5, <3>5 DEF OwnRowsOK
  <2>8. \E a \in attemptRows \cup u.attempts :
          a.attempt.id = t.batch.rows[t.step].attempt.id /\ a.attempt.mode = "shadow"
    BY <1>2, <2>2, <2>5 DEF row
  <2>9. t.batch.rows[t.step].kind # "artifact"
    BY <1>2
  <2>10. BatchOK(u, attemptRows, shadowArtifacts)
    <3>1. t.attempts \subseteq u.attempts /\ t.step # 0
      BY <1>2, <2>5
    <3> QED BY <1>2, <2>5, <2>7, <2>8, <2>9, <3>1, RowHandled
  <2>11. ASSUME NEW q \in BatchWriter \ {w}
         PROVE  AttemptIds(u.attempts) \cap AttemptIds(batches[q].attempts) = {}
    <3>1. AttemptIds(t.attempts) \cap AttemptIds(batches[q].attempts) = {}
      BY DEF RecordsInv, RecordsOK, OwnedOnce, t
    <3>2. row.id \notin AttemptIds(batches[q].attempts)
      BY <1>1 DEF InsertedByOther, AttemptsWithId, AttemptIds
    <3> QED BY <2>5, <2>6, <3>1, <3>2
  <2>12. RecordsOK(attemptRows, shadowArtifacts, [batches EXCEPT ![w] = u])
    BY <2>10, <2>11, BatchMoves DEF RecordsInv
  <2> QED BY <2>1, <2>4, <2>12 DEF RecordsInv
<1>5. CASE existing # {}
  <2>1. CASE \E a \in existing : ShadowAttemptRowsAreEquivalent(a.attempt, row)
    <3>1. NextStatement(w)
      BY <1>5, <2>1 DEF AppendShadowAttempt
    <3>2. \E a \in attemptRows \cup t.attempts : a.attempt.id = row.id /\ a.attempt.mode = "shadow"
      BY <1>2, <1>3, <2>1 DEF ShadowAttemptRowsAreEquivalent
    <3> QED BY <1>1, <3>1, <3>2, NextStatementOK
  <2>2. CASE ~\E a \in existing : ShadowAttemptRowsAreEquivalent(a.attempt, row)
    <3>1. RollBack(w)
      BY <1>5, <2>2 DEF AppendShadowAttempt
    <3> QED BY <3>1, RollBackOK
  <2> QED BY <2>1, <2>2
<1> QED BY <1>4, <1>5

LEMMA ShadowArtifactOK ==
    ASSUME RecordsInv, NEW w \in BatchWriter, AppendShadowArtifact(w)
    PROVE  RecordsInv'
<1> DEFINE t == batches[w]
           x0 == ArtifactOf(NextRow(w))
           visible == shadowArtifacts \o t.artifacts
           existing == {i \in DOMAIN visible : visible[i].attempt = x0.attempt /\ visible[i].stream = x0.stream}
           xs == Append(t.artifacts, x0)
           u == Assigned(t, t.step + 1, t.attempts, xs)
           id == NextRow(w).attempt.id
<1>1. AtRow(w, "artifact")
  BY DEF AppendShadowArtifact
<1>2. /\ BatchOK(t, attemptRows, shadowArtifacts) /\ t = [x \in BatchField |-> t[x]]
      /\ t.step \in Nat \ {0} /\ t.batch \in ShadowBatch /\ OwnRowsOK(t, attemptRows)
      /\ HandledOK(t, attemptRows, shadowArtifacts)
      /\ t.step \in DOMAIN t.batch.rows
      /\ NextRow(w) = t.batch.rows[t.step] /\ NextRow(w).kind = "artifact"
  BY <1>1, AtRowFacts
<1>3. x0.attempt = id
  BY DEF ArtifactOf
<1>4. x0 \in Artifact /\ x0.stream = ShadowArtifactStream
  <2>1. x0 \in Artifact
    BY <1>2 DEF Artifact
  <2> QED BY <2>1, ArtifactStream
<1>5. /\ shadowArtifacts \in Seq(Artifact) /\ t.artifacts \in Seq(Artifact)
      /\ OneEach(shadowArtifacts) /\ OneEach(t.artifacts)
      /\ \A i \in DOMAIN shadowArtifacts, j \in DOMAIN t.artifacts :
            shadowArtifacts[i].attempt # t.artifacts[j].attempt
  <2>1. TablesOK(attemptRows, shadowArtifacts)
    BY DEF RecordsInv, RecordsOK
  <2>2. \A j \in DOMAIN t.artifacts : t.artifacts[j].attempt \notin AttemptIds(attemptRows)
    BY <1>2 DEF OwnRowsOK, OwnOK, AttemptIds
  <2> QED BY <1>2, <2>1, <2>2 DEF TablesOK, OwnRowsOK, OwnOK
<1>6. /\ visible \in Seq(Artifact)
      /\ \A i : HasArtifact(visible, i) <=> HasArtifact(shadowArtifacts, i) \/ HasArtifact(t.artifacts, i)
  BY <1>5, MoreArtifacts
<1>7. existing # {} <=> HasArtifact(visible, id)
  <2>1. \A i \in DOMAIN visible : visible[i].stream = ShadowArtifactStream
    <3> HIDE DEF visible
    <3> QED BY <1>6, ArtifactStream
  <2> HIDE DEF visible, x0, id
  <2> QED BY <1>3, <1>4, <2>1 DEF HasArtifact
<1>8. CASE existing # {}
  <2>1. NextStatement(w) \/ RollBack(w)
    BY <1>8 DEF AppendShadowArtifact, VisibleArtifacts
  <2>2. HasArtifact(shadowArtifacts, id) \/ HasArtifact(t.artifacts, id)
    BY <1>6, <1>7, <1>8
  <2> QED BY <1>1, <2>1, <2>2, NextStatementOK, RollBackOK
<1>9. CASE existing = {}
  <2>1. \/ RollBack(w)
        \/ /\ batches' = [batches EXCEPT ![w] = [t EXCEPT !.step = t.step + 1, !.artifacts = xs]]
           /\ UNCHANGED <<attemptRows, shadowArtifacts>>
    BY <1>9 DEF AppendShadowArtifact, VisibleArtifacts
  <2>2. ~HasArtifact(shadowArtifacts, id) /\ ~HasArtifact(t.artifacts, id)
    BY <1>6, <1>7, <1>9
  <2>3. id \in AttemptIds(t.attempts)
    <3> DEFINE b == t.batch
               k == t.step
    <3>0. b \in ShadowBatch /\ k \in DOMAIN b.rows /\ b.rows[k].kind = "artifact"
          /\ b.rows[k].attempt = NextRow(w).attempt
      BY <1>2
    <3> HIDE DEF b, k
    <3>1. PICK j \in DOMAIN b.rows : b.rows[j].kind # "artifact" /\ b.rows[j].attempt = NextRow(w).attempt
      BY <3>0, BatchRows
    <3>2. b.rows[j].kind = "attempt" /\ j < k
      BY <3>0, <3>1, BatchRows
    <3>3. PICK a \in attemptRows \cup t.attempts : a.attempt.id = id /\ a.attempt.mode = "shadow"
      BY <1>2, <3>1, <3>2 DEF HandledOK, b, k
    <3>4. a \notin attemptRows
      BY <2>2, <3>3 DEF RecordsInv, RecordsOK, TablesOK
    <3> QED BY <3>3, <3>4 DEF AttemptIds
  <2> HIDE DEF t, x0, visible, existing, id
  <2>4. /\ xs \in Seq(Artifact) /\ OneEach(xs)
        /\ \A i : HasArtifact(xs, i) <=> HasArtifact(t.artifacts, i) \/ i = x0.attempt
        /\ \A k \in DOMAIN xs : xs[k] = x0 \/ \E i \in DOMAIN t.artifacts : xs[k] = t.artifacts[i]
    BY <1>3, <1>4, <1>5, <2>2, OneArtifactMore
  <2> HIDE DEF xs
  <2>5. [t EXCEPT !.step = t.step + 1, !.artifacts = xs] = u
    <3>1. t = [x \in BatchField |-> t[x]]
      BY <1>2
    <3> QED BY <3>1, BatchSameAttempts
  <2>6. /\ u = [x \in BatchField |-> u[x]]
        /\ u.batch = t.batch /\ u.step = t.step + 1 /\ u.attempts = t.attempts /\ u.artifacts = xs
    BY <1>2, BatchAssigned
  <2> HIDE DEF u
  <2>7. OwnRowsOK(u, attemptRows)
    <3>1. \A k \in DOMAIN xs : xs[k].attempt \in AttemptIds(t.attempts)
      BY <1>2, <1>3, <2>3, <2>4 DEF OwnRowsOK, OwnOK
    <3>2. OwnOK(t.batch, t.attempts, xs, attemptRows)
      BY <1>2, <2>4, <3>1 DEF OwnRowsOK, OwnOK
    <3> QED BY <2>6, <3>2 DEF OwnRowsOK
  <2>8. HasArtifact(u.artifacts, t.batch.rows[t.step].attempt.id)
    BY <1>2, <1>3, <2>4, <2>6 DEF id
  <2>9. BatchOK(u, attemptRows, shadowArtifacts)
    <3>1. t.attempts \subseteq u.attempts /\ t.step # 0 /\ t.batch.rows[t.step].kind # "attempt"
          /\ \A i : HasArtifact(t.artifacts, i) => HasArtifact(u.artifacts, i)
      BY <1>2, <2>4, <2>6
    <3> QED BY <1>2, <2>6, <2>7, <2>8, <3>1, RowHandled
  <2>10. \A q \in BatchWriter \ {w} : AttemptIds(u.attempts) \cap AttemptIds(batches[q].attempts) = {}
    BY <2>6 DEF RecordsInv, RecordsOK, OwnedOnce, t
  <2>11. RecordsOK(attemptRows, shadowArtifacts, [batches EXCEPT ![w] = u])
    BY <2>9, <2>10, BatchMoves DEF RecordsInv
  <2>12. CASE RollBack(w)
    BY <2>12, RollBackOK
  <2>13. CASE /\ batches' = [batches EXCEPT ![w] = [t EXCEPT !.step = t.step + 1, !.artifacts = xs]]
              /\ UNCHANGED <<attemptRows, shadowArtifacts>>
    BY <2>5, <2>11, <2>13 DEF RecordsInv
  <2> QED BY <2>1, <2>12, <2>13
<1> QED BY <1>8, <1>9

\* What a transaction that has handled all its rows commits.
LEMMA CommittedTables ==
    ASSUME NEW rows, NEW artifacts, NEW t, TablesOK(rows, artifacts), BatchOK(t, rows, artifacts),
           t # NoBatch, t.step > Len(t.batch.rows)
    PROVE  /\ TablesOK(rows \cup t.attempts, artifacts \o t.artifacts)
           /\ \A id : HasArtifact(artifacts, id) => HasArtifact(artifacts \o t.artifacts, id)
<1> DEFINE more == rows \cup t.attempts
           longer == artifacts \o t.artifacts
           b == t.batch
<1>1. /\ t.step \in Nat /\ t.step # 0 /\ b \in ShadowBatch
      /\ HandledOK(t, rows, artifacts) /\ OwnOK(b, t.attempts, t.artifacts, rows)
  BY DEF BatchOK, OwnRowsOK
<1>2. /\ artifacts \in Seq(Artifact) /\ OneEach(artifacts)
      /\ \A i \in DOMAIN artifacts : artifacts[i].attempt \in AttemptIds(rows)
  BY DEF TablesOK
<1>3. /\ t.artifacts \in Seq(Artifact) /\ OneEach(t.artifacts)
      /\ \A i \in DOMAIN t.artifacts : t.artifacts[i].attempt \in AttemptIds(t.attempts)
      /\ \A a \in t.attempts : a.attempt.id \notin AttemptIds(rows)
  BY <1>1 DEF OwnOK
<1>4. \A i \in DOMAIN artifacts, j \in DOMAIN t.artifacts : artifacts[i].attempt # t.artifacts[j].attempt
  BY <1>2, <1>3 DEF AttemptIds
<1>5. /\ longer \in Seq(Artifact) /\ OneEach(longer)
      /\ \A id : HasArtifact(longer, id) <=> HasArtifact(artifacts, id) \/ HasArtifact(t.artifacts, id)
      /\ \A k \in DOMAIN longer :
            \/ \E i \in DOMAIN artifacts : longer[k] = artifacts[i]
            \/ \E j \in DOMAIN t.artifacts : longer[k] = t.artifacts[j]
  BY <1>2, <1>3, <1>4, MoreArtifacts
<1>6. t.step > Len(b.rows)
  OBVIOUS
<1> HIDE DEF longer, b
<1>7. AttemptIds(more) = AttemptIds(rows) \cup AttemptIds(t.attempts)
  BY DEF AttemptIds
<1>8. \A k \in DOMAIN longer : longer[k].attempt \in AttemptIds(more)
  BY <1>2, <1>3, <1>5, <1>7
<1>9. ASSUME NEW a \in more, a.attempt.mode = "shadow" PROVE HasArtifact(longer, a.attempt.id)
  <2>1. CASE a \in rows
    BY <1>5, <1>9, <2>1 DEF TablesOK
  <2>2. CASE a \in t.attempts
    <3>1. PICK i \in DOMAIN b.rows : b.rows[i].kind = "attempt" /\ b.rows[i].attempt = a.attempt
      BY <1>1, <2>2 DEF OwnOK
    <3>2. PICK j \in DOMAIN b.rows : b.rows[j].kind # "attempt" /\ b.rows[j].attempt = a.attempt
      BY <1>1, <3>1, BatchRows
    <3>3. b.rows[j].kind = "artifact" /\ j < t.step
      <4>1. b \in ShadowBatch /\ t.step \in Nat
        BY <1>1
      <4>2. Len(b.rows) \in Nat /\ DOMAIN b.rows = 1..Len(b.rows)
        BY <4>1, BatchRows
      <4>3. b.rows[j].kind \in {"attempt", "artifact"}
        BY <4>1, <3>2, BatchRows
      <4>4. j < t.step
        BY <1>6, <4>1, <4>2
      <4> QED BY <3>2, <4>3, <4>4
    <3>4. HasArtifact(artifacts, a.attempt.id) \/ HasArtifact(t.artifacts, a.attempt.id)
      BY <1>1, <3>2, <3>3 DEF HandledOK, b
    <3> QED BY <1>5, <3>4
  <2> QED BY <2>1, <2>2
<1>10. \A a \in more : a.attempt.mode \in {"shadow", "live"}
  BY <1>1 DEF TablesOK, OwnOK
<1>11. ASSUME NEW a \in more, NEW c \in more, a.attempt.id = c.attempt.id PROVE a = c
  <2>1. CASE a \in rows /\ c \in rows
    BY <1>11, <2>1 DEF TablesOK
  <2>2. CASE a \in t.attempts /\ c \in t.attempts
    BY <1>1, <1>11, <2>2 DEF OwnOK
  <2>3. CASE a \in rows /\ c \in t.attempts
    BY <1>3, <1>11, <2>3 DEF AttemptIds
  <2>4. CASE a \in t.attempts /\ c \in rows
    BY <1>3, <1>11, <2>4 DEF AttemptIds
  <2> QED BY <2>1, <2>2, <2>3, <2>4
<1> HIDE DEF more
<1>12. TablesOK(more, longer)
  BY <1>5, <1>8, <1>9, <1>10, <1>11 DEF TablesOK
<1> QED BY <1>5, <1>12 DEF more, longer

LEMMA CommitBatchOK ==
    ASSUME RecordsInv, NEW w \in BatchWriter, CommitBatch(w)
    PROVE  RecordsInv'
<1> DEFINE t == batches[w]
           more == attemptRows \cup t.attempts
           longer == shadowArtifacts \o t.artifacts
           new == [batches EXCEPT ![w] = NoBatch]
<1>1. /\ t # NoBatch /\ t.step > Len(t.batch.rows)
      /\ attemptRows' = more /\ shadowArtifacts' = longer /\ batches' = new
  BY DEF CommitBatch
<1>2. /\ TablesOK(attemptRows, shadowArtifacts) /\ batches = [q \in BatchWriter |-> batches[q]]
      /\ OwnedOnce(batches) /\ \A q \in BatchWriter : BatchOK(batches[q], attemptRows, shadowArtifacts)
  BY DEF RecordsInv, RecordsOK
<1>3. /\ TablesOK(more, longer)
      /\ \A id : HasArtifact(shadowArtifacts, id) => HasArtifact(longer, id)
  BY <1>1, <1>2, CommittedTables
<1>4. \A q \in BatchWriter : new[q] = IF q = w THEN NoBatch ELSE batches[q]
  BY <1>2
<1>5. new = [q \in BatchWriter |-> new[q]]
  BY <1>2
<1> HIDE DEF new, longer
<1>6. ASSUME NEW q \in BatchWriter PROVE BatchOK(new[q], more, longer)
  <2>1. CASE q = w
    BY <1>4, <2>1, NoBatchOK
  <2>2. CASE q # w
    <3>1. AttemptIds(batches[q].attempts) \cap AttemptIds(t.attempts) = {}
      BY <1>2, <2>2 DEF OwnedOnce
    <3>2. \A a \in batches[q].attempts : a.attempt.id \notin AttemptIds(attemptRows)
      <4>1. CASE batches[q].step = 0
        BY <1>2, <4>1, NoBatchIs DEF BatchOK
      <4>2. CASE batches[q].step # 0
        BY <1>2, <4>2 DEF BatchOK, OwnRowsOK, OwnOK
      <4> QED BY <4>1, <4>2
    <3>3. \A a \in batches[q].attempts : a.attempt.id \notin AttemptIds(more)
      BY <3>1, <3>2 DEF AttemptIds
    <3>4. attemptRows \subseteq more
      OBVIOUS
    <3> HIDE DEF more
    <3>5. BatchOK(batches[q], more, longer)
      BY <1>2, <1>3, <3>3, <3>4, TablesGrow
    <3> QED BY <1>4, <2>2, <3>5
  <2> QED BY <2>1, <2>2
<1>7. OwnedOnce(new)
  BY <1>2, <1>4, NoBatchIs DEF OwnedOnce, AttemptIds
<1>8. RecordsOK(more, longer, new)
  BY <1>3, <1>5, <1>6, <1>7 DEF RecordsOK
<1> QED BY <1>1, <1>8 DEF RecordsInv

LEMMA LiveAttemptOK ==
    ASSUME RecordsInv, NEW l \in RecordedLiveAttempt, AppendLiveAttempt(l)
    PROVE  RecordsInv'
<1> DEFINE a0 == [attempt |-> l, at |-> Cardinality(attemptRows)]
           more == attemptRows \cup {a0}
<1>1. /\ attemptRows' = more /\ UNCHANGED <<shadowArtifacts, batches>>
      /\ \A a \in attemptRows : a.attempt.id # l.id
      /\ \A w \in BatchWriter : \A a \in batches[w].attempts : a.attempt.id # l.id
  BY DEF AppendLiveAttempt, AttemptsWithId
<1>2. a0.attempt = l /\ l.mode = "live"
  BY RecordsAssumption
<1> HIDE DEF a0
<1>3. AttemptIds(more) = AttemptIds(attemptRows) \cup {l.id}
  BY <1>2 DEF AttemptIds
<1>4. /\ TablesOK(attemptRows, shadowArtifacts) /\ batches = [q \in BatchWriter |-> batches[q]]
      /\ OwnedOnce(batches) /\ \A q \in BatchWriter : BatchOK(batches[q], attemptRows, shadowArtifacts)
  BY DEF RecordsInv, RecordsOK
<1>5. TablesOK(more, shadowArtifacts)
  <2>1. \A a, c \in more : a.attempt.id = c.attempt.id => a = c
    BY <1>1, <1>2, <1>4 DEF TablesOK
  <2>2. \A a \in more : a.attempt.mode \in {"shadow", "live"}
    BY <1>2, <1>4 DEF TablesOK
  <2>3. \A a \in more : a.attempt.mode = "shadow" => HasArtifact(shadowArtifacts, a.attempt.id)
    BY <1>2, <1>4 DEF TablesOK
  <2>4. \A i \in DOMAIN shadowArtifacts : shadowArtifacts[i].attempt \in AttemptIds(more)
    BY <1>3, <1>4 DEF TablesOK
  <2>5. shadowArtifacts \in Seq(Artifact) /\ OneEach(shadowArtifacts)
    BY <1>4 DEF TablesOK
  <2> HIDE DEF more
  <2> QED BY <2>1, <2>2, <2>3, <2>4, <2>5 DEF TablesOK
<1>6. ASSUME NEW q \in BatchWriter PROVE BatchOK(batches[q], more, shadowArtifacts)
  <2>1. \A a \in batches[q].attempts : a.attempt.id \notin AttemptIds(attemptRows)
    <3>1. CASE batches[q].step = 0
      BY <1>4, <3>1, NoBatchIs DEF BatchOK
    <3>2. CASE batches[q].step # 0
      BY <1>4, <3>2 DEF BatchOK, OwnRowsOK, OwnOK
    <3> QED BY <3>1, <3>2
  <2>2. \A a \in batches[q].attempts : a.attempt.id \notin AttemptIds(more)
    BY <1>1, <1>3, <2>1
  <2>3. attemptRows \subseteq more
    OBVIOUS
  <2> HIDE DEF more
  <2> QED BY <1>4, <2>2, <2>3, TablesGrow
<1>7. RecordsOK(more, shadowArtifacts, batches)
  BY <1>4, <1>5, <1>6 DEF RecordsOK
<1> QED BY <1>1, <1>7 DEF RecordsInv

LEMMA RecordsNextOK ==
    ASSUME RecordsInv, [VerifyNext]_verifyVars
    PROVE  RecordsInv'
<1>1. ASSUME NEW w \in BatchWriter, NEW b \in ShadowBatch, BeginBatch(w, b) PROVE RecordsInv'
  BY <1>1, BeginBatchOK
<1>2. ASSUME NEW w \in BatchWriter, AppendShadowAttempt(w) PROVE RecordsInv'
  BY <1>2, ShadowAttemptOK
<1>3. ASSUME NEW w \in BatchWriter, AppendShadowArtifact(w) PROVE RecordsInv'
  BY <1>3, ShadowArtifactOK
<1>4. ASSUME NEW w \in BatchWriter, CommitBatch(w) PROVE RecordsInv'
  BY <1>4, CommitBatchOK
<1>5. ASSUME NEW w \in BatchWriter, LoseBatch(w) PROVE RecordsInv'
  BY <1>5, RollBackOK DEF LoseBatch
<1>6. ASSUME NEW l \in RecordedLiveAttempt, AppendLiveAttempt(l) PROVE RecordsInv'
  BY <1>6, LiveAttemptOK
<1>7. ASSUME NEW r \in LiveFollowUp, AppendLiveFollowUp(r) PROVE RecordsInv'
  BY <1>7 DEF AppendLiveFollowUp, RecordsInv
<1>8. CASE RecordsNext
  BY <1>1, <1>2, <1>3, <1>4, <1>5, <1>6, <1>7, <1>8 DEF RecordsNext
<1>9. CASE UNCHANGED recordVars
  BY <1>9 DEF recordVars, RecordsInv
<1>10. VerifyNext => RecordsNext \/ UNCHANGED recordVars
  BY DEF VerifyNext, StartVerify, LoadSelected, LoadObserved, LoadReplay, LoadShadowArtifacts,
         LoadLiveRecordsAndJudge, LoadEvidence
<1> QED BY <1>8, <1>9, <1>10 DEF verifyVars

---------------------------------------------------------------------------
(***************************************************************************)
(* Verify: the evidence of a smoke run                                     *)
(***************************************************************************)

EvidenceField == {"selected", "live", "shadow", "replay", "shadowArtifacts", "liveRecords", "journal"}

\* Every shadow attempt that was selected has an artifact.
ArtifactsCover(ev) ==
    \A a \in ev.selected : a.attempt.mode = "shadow" => \E x \in ev.shadowArtifacts : x.attempt = a.attempt.id

\* What is loaded after the attempts were selected is about them.
AboutSelected(ev) ==
    /\ \A a \in ev.selected : a.attempt.mode \in {"shadow", "live"}
    /\ ev.shadow \subseteq ev.selected
    /\ ev.selected # {} => \A r \in ev.replay : \E a \in ev.selected : a.attempt = r.attempt

LEMMA SmokePasses ==
    ASSUME NEW ctx, NEW ev, ForbiddenLive(ev) = {}, ev.liveRecords = {}, ShadowIn(ev) # {}, ArtifactsCover(ev)
    PROVE  SmokeVerdict(ctx, ev) = "pass"
<1>1. ShadowIn(ev) \subseteq {x.attempt : x \in ev.shadowArtifacts}
  BY DEF ShadowIn, ArtifactsCover
<1>2. ConsistentArtifacts(ev)
  BY <1>1 DEF ConsistentArtifacts
<1> QED BY <1>2 DEF SmokeVerdict

\* The rows of a route.
OfRoute(rows, route) == {a \in rows : a.attempt.route = route}

LEMMA RouteWindow ==
    ASSUME NEW ev, ev = [x \in EvidenceField |-> ev[x]], NEW route
    PROVE  LET win == WindowForRoute(ev, route)
               ids == Ids(OfRoute(ev.selected, route) \cup OfRoute(ev.live, route)
                          \cup OfRoute(ev.shadow, route))
           IN  /\ win.selected = OfRoute(ev.selected, route)
               /\ win.live = OfRoute(ev.live, route)
               /\ win.shadow = OfRoute(ev.shadow, route)
               /\ win.replay = OfRoute(ev.replay, route)
               /\ win.shadowArtifacts = {x \in ev.shadowArtifacts : x.attempt \in ids}
               /\ win.liveRecords \subseteq ev.liveRecords
BY DEF WindowForRoute, OfRoute, EvidenceField

\* A route that has evidence has a shadow attempt, and passes.
LEMMA RoutePasses ==
    ASSUME NEW ctx, NEW ev, ev = [x \in EvidenceField |-> ev[x]], NEW route,
           ForbiddenLive(ev) = {}, ev.liveRecords = {}, ShadowIn(ev) # {},
           ArtifactsCover(ev), AboutSelected(ev), HasLocalEvidence(WindowForRoute(ev, route))
    PROVE  SmokeVerdict(ctx, WindowForRoute(ev, route)) = "pass"
<1> DEFINE win == WindowForRoute(ev, route)
           ids == Ids(OfRoute(ev.selected, route) \cup OfRoute(ev.live, route)
                      \cup OfRoute(ev.shadow, route))
<1>1. /\ win.selected = OfRoute(ev.selected, route)
      /\ win.live = OfRoute(ev.live, route)
      /\ win.shadow = OfRoute(ev.shadow, route)
      /\ win.replay = OfRoute(ev.replay, route)
      /\ win.shadowArtifacts = {x \in ev.shadowArtifacts : x.attempt \in ids}
      /\ win.liveRecords \subseteq ev.liveRecords
  BY RouteWindow
<1>2. HasLocalEvidence(win)
  OBVIOUS
<1> HIDE DEF win
<1>3. win.liveRecords = {}
  BY <1>1
<1>4. ev.live = {} /\ \A a \in ev.selected : a.attempt.mode # "live"
  BY DEF ForbiddenLive, Ids, LiveIn
<1>5. ForbiddenLive(win) = {}
  BY <1>1, <1>4 DEF ForbiddenLive, Ids, LiveIn, OfRoute
<1>6. ev.selected # {}
  BY DEF ShadowIn
<1>7. win.selected # {}
  <2>1. SUFFICES ASSUME win.selected = {} PROVE FALSE
    OBVIOUS
  <2>2. win.shadow = {} /\ win.live = {}
    BY <1>1, <1>4, <2>1 DEF AboutSelected, OfRoute
  <2>3. win.replay = {}
    BY <1>1, <1>6, <2>1 DEF AboutSelected, OfRoute
  <2>4. ids = {}
    BY <1>1, <2>1, <2>2 DEF Ids
  <2>5. win.shadowArtifacts = {}
    BY <1>1, <2>4
  <2> QED BY <1>2, <1>3, <2>1, <2>2, <2>3, <2>5 DEF HasLocalEvidence
<1>8. ShadowIn(win) # {}
  BY <1>1, <1>4, <1>7 DEF AboutSelected, ShadowIn, OfRoute
<1>9. ArtifactsCover(win)
  <2>1. SUFFICES ASSUME NEW a \in win.selected, a.attempt.mode = "shadow"
                 PROVE  \E x \in win.shadowArtifacts : x.attempt = a.attempt.id
    BY DEF ArtifactsCover
  <2>2. a \in ev.selected
    BY <1>1, <2>1 DEF OfRoute
  <2>3. PICK x \in ev.shadowArtifacts : x.attempt = a.attempt.id
    BY <2>1, <2>2 DEF ArtifactsCover
  <2>4. x.attempt \in ids
    BY <1>1, <2>1, <2>3 DEF Ids
  <2> QED BY <1>1, <2>3, <2>4
<1>10. SmokeVerdict(ctx, win) = "pass"
  BY <1>3, <1>5, <1>8, <1>9, SmokePasses
<1> QED BY <1>10 DEF win

\* The verdict of a smoke verify with shadow attempts and no live side effect.
LEMMA SmokeVerdictPasses ==
    ASSUME NEW ctx, ctx.scenario = "smoke", ~Refused(ctx), NEW routes,
           NEW ev, ev = [x \in EvidenceField |-> ev[x]],
           ForbiddenLive(ev) = {}, ev.liveRecords = {}, ShadowIn(ev) # {}, ArtifactsCover(ev), AboutSelected(ev)
    PROVE  Verdict(ctx, TRUE, routes, ev) = "pass"
<1>1. \A e : ModeVerdict(ctx, e) = SmokeVerdict(ctx, e)
  BY DEF ModeVerdict
<1>2. FoundationVerdict(ctx, TRUE, ev) = "pass"
  BY <1>1, SmokePasses DEF FoundationVerdict
<1>3. \A v \in RouteVerdicts(ctx, TRUE, routes, ev) : v = "pass"
  <2> DEFINE withEvidence == {a.attempt.route : a \in ev.selected \cup ev.live \cup ev.shadow \cup ev.replay}
             judged == IF routes = {} THEN withEvidence ELSE routes
             reported == {r \in judged : ctx.scenario = "live" \/ HasLocalEvidence(WindowForRoute(ev, r))}
  <2>1. RouteVerdicts(ctx, TRUE, routes, ev) \subseteq
          {IF HasLocalEvidence(WindowForRoute(ev, r)) THEN ModeVerdict(ctx, WindowForRoute(ev, r))
           ELSE "warn" : r \in reported}
    BY DEF RouteVerdicts
  <2>2. \A r \in reported : HasLocalEvidence(WindowForRoute(ev, r))
    OBVIOUS
  <2> HIDE DEF reported
  <2>3. \A r \in reported : ModeVerdict(ctx, WindowForRoute(ev, r)) = "pass"
    BY <1>1, <2>2, RoutePasses
  <2> QED BY <2>1, <2>2, <2>3
<1>4. \A v \in {FoundationVerdict(ctx, TRUE, ev)} \cup RouteVerdicts(ctx, TRUE, routes, ev) : v = "pass"
  BY <1>2, <1>3
<1> QED BY <1>4 DEF Verdict, AggregateVerdicts

---------------------------------------------------------------------------
(***************************************************************************)
(* Verify: the queries                                                     *)
(***************************************************************************)

VerifyField == {"stage", "context", "window", "routes", "session", "comparable", "evidence", "verdict"}

\* What was loaded is about committed attempts, and of a smoke verify about the
\* selected ones.
EvidenceOK(ctx, ev, rows) ==
    /\ ev = [x \in EvidenceField |-> ev[x]]
    /\ ev.selected \subseteq rows
    /\ ctx.scenario = "smoke" => ev.shadow \subseteq ev.selected
    /\ ev.selected # {} => \A r \in ev.replay : \E a \in ev.selected : a.attempt = r.attempt

\* The attempts are selected first; their artifacts are all there once they were
\* loaded, since no attempt is committed without them.
StageOK(stage, ev) ==
    /\ stage = "attempts" => ev.shadow = {} /\ ev.replay = {}
    /\ stage \in {"live_records", "done"} => ArtifactsCover(ev)

VerifyOK(v, rows) ==
    v.stage # "idle" =>
        /\ v = [x \in VerifyField |-> v[x]]
        /\ v.context.scenario \in {"paper", "live", "smoke"}
        /\ v.window.kind \in {"latest", "attempt", "since", "seq"}
        /\ v.comparable \in BOOLEAN
        /\ EvidenceOK(v.context, v.evidence, rows)
        /\ StageOK(v.stage, v.evidence)
        /\ v.stage = "done" => v.verdict = Verdict(v.context, v.comparable, v.routes, v.evidence)

VerifyInv == RecordsInv /\ VerifyOK(verify, attemptRows)

LEMMA SelectedAreRows ==
    ASSUME NEW ctx, ctx.scenario \in {"paper", "live", "smoke"},
           NEW w, w.kind \in {"latest", "attempt", "since", "seq"}, NEW session, NEW routes
    PROVE  AttemptsToVerify(ctx, w, session, routes) \subseteq attemptRows
<1>1. \A rows, n : RecentOf(rows, n) \subseteq rows
  BY DEF RecentOf
<1>2. \A rows : FilterByActiveRoutes(rows, routes) \subseteq rows
  BY DEF FilterByActiveRoutes
<1>3. \A mode, n : RecentForActiveRoutes(mode, routes, n) \subseteq attemptRows
  <2>1. \A mode : ListAttemptsByMode(mode) \subseteq attemptRows
    BY DEF ListAttemptsByMode
  <2>2. \A mode, n : ListRecentByMode(mode, n) \subseteq attemptRows
    BY <1>1, <2>1 DEF ListRecentByMode
  <2>3. \A mode, route, n : ListRecentByModeAndRoute(mode, route, n) \subseteq attemptRows
    <3> TAKE mode, route, n
    <3> DEFINE some == {a \in ListAttemptsByMode(mode) : a.attempt.route = route}
    <3>1. some \subseteq attemptRows
      BY <2>1
    <3>2. RecentOf(some, n) \subseteq some
      BY <1>1
    <3> QED BY <3>1, <3>2 DEF ListRecentByModeAndRoute
  <2> QED BY <2>2, <2>3 DEF RecentForActiveRoutes
<1>4. LatestSmokeAttempts(routes) \subseteq attemptRows
  <2> DEFINE latest == RecentOf(RecentForActiveRoutes("shadow", routes, 1), 1)
             run == UNION {ListBySnapshotId(a.attempt.snapshot) : a \in latest}
  <2>1. run \subseteq attemptRows
    BY DEF ListBySnapshotId
  <2>2. FilterByActiveRoutes(run, routes) \subseteq run
    BY <1>2
  <2>3. LatestSmokeAttempts(routes) \subseteq FilterByActiveRoutes(run, routes)
    BY DEF LatestSmokeAttempts
  <2> QED BY <2>1, <2>2, <2>3
<1>5. /\ ListByRunSessionId(session) \subseteq attemptRows
      /\ AttemptsWithId(attemptRows, w.attempt) \subseteq attemptRows
      /\ ListCreatedSince(w.since) \subseteq attemptRows
  BY DEF ListByRunSessionId, AttemptsWithId, ListCreatedSince
<1>6. CASE session # None
  BY <1>2, <1>5, <1>6 DEF AttemptsToVerify
<1>7. CASE session = None /\ w.kind = "latest"
  BY <1>3, <1>4, <1>7 DEF AttemptsToVerify
<1>8. CASE session = None /\ w.kind = "attempt"
  BY <1>2, <1>5, <1>8 DEF AttemptsToVerify
<1>9. CASE session = None /\ w.kind = "since"
  BY <1>2, <1>5, <1>9 DEF AttemptsToVerify
<1>10. CASE session = None /\ w.kind = "seq"
  BY <1>10 DEF AttemptsToVerify
<1> QED BY <1>6, <1>7, <1>8, <1>9, <1>10

LEMMA ObservedAreSelected ==
    ASSUME NEW ctx, ctx.scenario = "smoke", NEW w, NEW session, NEW routes, NEW selected
    PROVE  ObservedShadow(ctx, w, session, routes, selected) \subseteq selected
BY DEF ObservedShadow

\* A replayed attempt is the selected one of its id.
LEMMA ReplayedAreSelected ==
    ASSUME TablesOK(attemptRows, shadowArtifacts), NEW ctx, NEW w,
           NEW selected, selected \subseteq attemptRows, selected # {}
    PROVE  \A r \in ReplayRows(ctx, w, selected) : \E a \in selected : a.attempt = r.attempt
<1> DEFINE rows == {[attempt |-> a.attempt,
                     artifacts |-> {x \in Range(shadowArtifacts) : x.attempt = a.attempt.id}] :
                    a \in {x \in ListAttemptsByMode("shadow") : x.attempt.route = "neg-risk"}}
<1>1. ReplayRows(ctx, w, selected) = {r \in rows : AttemptsWithId(selected, r.attempt.id) # {}}
  BY DEF ReplayRows
<1>2. \A r \in rows : \E a \in attemptRows : r.attempt = a.attempt
  BY DEF ListAttemptsByMode
<1> HIDE DEF rows
<1>3. \A a, b \in attemptRows : a.attempt.id = b.attempt.id => a = b
  BY DEF TablesOK
<1> QED BY <1>1, <1>2, <1>3 DEF AttemptsWithId

\* The artifacts of every selected shadow attempt are loaded.
LEMMA ArtifactsLoaded ==
    ASSUME TablesOK(attemptRows, shadowArtifacts), NEW selected, selected \subseteq attemptRows,
           NEW ids, Ids(selected) \subseteq ids,
           NEW a \in selected, a.attempt.mode = "shadow"
    PROVE  \E x \in {y \in Range(shadowArtifacts) : y.attempt \in ids} : x.attempt = a.attempt.id
<1>1. PICK i \in DOMAIN shadowArtifacts : shadowArtifacts[i].attempt = a.attempt.id
  BY DEF TablesOK, HasArtifact
<1>2. shadowArtifacts[i] \in Range(shadowArtifacts)
  BY <1>1 DEF Range
<1>3. a.attempt.id \in ids
  BY DEF Ids
<1> QED BY <1>1, <1>2, <1>3

\* A query that loads evidence keeps the invariant if the evidence it makes is right.
LEMMA LoadOK ==
    ASSUME VerifyInv, NEW stage, NEW next, NEW ev, LoadEvidence(stage, next, ev),
           stage # "idle", next # "done",
           EvidenceOK(verify.context, ev, attemptRows), StageOK(next, ev)
    PROVE  VerifyOK(verify', attemptRows')
<1>1. /\ verify.stage # "idle"
      /\ verify' = [verify EXCEPT !.stage = next, !.evidence = ev] /\ attemptRows' = attemptRows
  BY DEF LoadEvidence, recordVars
<1>2. /\ verify = [x \in VerifyField |-> verify[x]]
      /\ verify.context.scenario \in {"paper", "live", "smoke"}
      /\ verify.window.kind \in {"latest", "attempt", "since", "seq"}
      /\ verify.comparable \in BOOLEAN
  BY <1>1 DEF VerifyInv, VerifyOK
<1> DEFINE v == [verify EXCEPT !.stage = next, !.evidence = ev]
<1>3. /\ v = [x \in VerifyField |-> v[x]]
      /\ v.stage = next /\ v.evidence = ev /\ v.context = verify.context /\ v.window = verify.window
      /\ v.comparable = verify.comparable
  BY <1>2 DEF VerifyField
<1> HIDE DEF v
<1>4. VerifyOK(v, attemptRows)
  BY <1>2, <1>3 DEF VerifyOK
<1> QED BY <1>1, <1>4 DEF v

LEMMA StartVerifyOK ==
    ASSUME NEW ask \in VerifyAsk, NEW sessions, StartVerify(ask, sessions)
    PROVE  VerifyOK(verify', attemptRows')
<1> DEFINE w == ask.window
           historical == HistoricalSession(w, sessions)
           start == [NoEvidence EXCEPT !.journal = w.kind \in {"seq", "since"} /\ sessions # {}]
           comparable == ~IsHistoricalExplicit(w) \/ (historical # None /\ ask.routes # {})
           session == SelectedSession(ask.context, w, historical)
<1>1. start = [x \in EvidenceField |-> start[x]] /\ start.selected = {} /\ start.shadow = {} /\ start.replay = {}
  BY DEF NoEvidence, EvidenceField
<1>2. comparable \in BOOLEAN
  OBVIOUS
<1>3. ask.context.scenario \in {"paper", "live", "smoke"} /\ w.kind \in {"latest", "attempt", "since", "seq"}
  BY VerifyAssumption
<1>4. verify' = [stage |-> "attempts", context |-> ask.context, window |-> w, routes |-> ask.routes,
                 session |-> session, comparable |-> comparable, evidence |-> start, verdict |-> None]
  BY DEF StartVerify
<1> HIDE DEF start, comparable, session, historical, w
<1>5. /\ verify' = [x \in VerifyField |-> verify'[x]]
      /\ verify'.stage = "attempts" /\ verify'.context = ask.context /\ verify'.window = w
      /\ verify'.comparable = comparable /\ verify'.evidence = start
  BY <1>4 DEF VerifyField
<1>6. EvidenceOK(ask.context, start, attemptRows') /\ StageOK("attempts", start)
  BY <1>1 DEF EvidenceOK, StageOK
<1> QED BY <1>2, <1>3, <1>5, <1>6 DEF VerifyOK

LEMMA LoadSelectedOK ==
    ASSUME VerifyInv, LoadSelected
    PROVE  VerifyOK(verify', attemptRows')
<1> DEFINE rows == AttemptsToVerify(verify.context, verify.window, verify.session, verify.routes)
           ev == verify.evidence
           o == [ev EXCEPT !.selected = rows]
<1>1. LoadEvidence("attempts", "observed", o)
  BY DEF LoadSelected
<1>2. verify.stage = "attempts"
  BY <1>1 DEF LoadEvidence
<1>3. /\ verify.context.scenario \in {"paper", "live", "smoke"}
      /\ verify.window.kind \in {"latest", "attempt", "since", "seq"}
      /\ ev = [x \in EvidenceField |-> ev[x]]
      /\ ev.shadow = {} /\ ev.replay = {}
  BY <1>2 DEF VerifyInv, VerifyOK, EvidenceOK, StageOK
<1>4. rows \subseteq attemptRows
  BY <1>3, SelectedAreRows
<1> HIDE DEF rows, ev
<1>5. /\ o = [x \in EvidenceField |-> o[x]]
      /\ o.selected = rows /\ o.shadow = {} /\ o.replay = {}
  BY <1>3 DEF EvidenceField
<1> HIDE DEF o
<1>6. EvidenceOK(verify.context, o, attemptRows) /\ StageOK("observed", o)
  BY <1>4, <1>5 DEF EvidenceOK, StageOK
<1> QED BY <1>1, <1>6, LoadOK

LEMMA LoadObservedOK ==
    ASSUME VerifyInv, LoadObserved
    PROVE  VerifyOK(verify', attemptRows')
<1> DEFINE ev == verify.evidence
           live == ObservedLive(verify.context, verify.window, verify.session, verify.routes, ev.selected)
           shadow == ObservedShadow(verify.context, verify.window, verify.session, verify.routes, ev.selected)
           o == [ev EXCEPT !.live = live, !.shadow = shadow]
<1>1. LoadEvidence("observed", "replay", o)
  BY DEF LoadObserved
<1>2. verify.stage = "observed"
  BY <1>1 DEF LoadEvidence
<1>3. EvidenceOK(verify.context, ev, attemptRows)
  BY <1>2 DEF VerifyInv, VerifyOK
<1>4. verify.context.scenario = "smoke" => shadow \subseteq ev.selected
  BY ObservedAreSelected
<1> HIDE DEF live, shadow, ev
<1>5. /\ o = [x \in EvidenceField |-> o[x]]
      /\ o.selected = ev.selected /\ o.shadow = shadow /\ o.replay = ev.replay
  BY <1>3 DEF EvidenceOK, EvidenceField
<1> HIDE DEF o
<1>6. EvidenceOK(verify.context, o, attemptRows) /\ StageOK("replay", o)
  BY <1>3, <1>4, <1>5 DEF EvidenceOK, StageOK
<1> QED BY <1>1, <1>6, LoadOK

LEMMA LoadReplayOK ==
    ASSUME VerifyInv, LoadReplay
    PROVE  VerifyOK(verify', attemptRows')
<1> DEFINE ev == verify.evidence
           rows == ReplayRows(verify.context, verify.window, ev.selected)
           o == [ev EXCEPT !.replay = rows]
<1>1. LoadEvidence("replay", "shadow_artifacts", o)
  BY DEF LoadReplay
<1>2. verify.stage = "replay"
  BY <1>1 DEF LoadEvidence
<1>3. EvidenceOK(verify.context, ev, attemptRows) /\ TablesOK(attemptRows, shadowArtifacts)
  BY <1>2 DEF VerifyInv, VerifyOK, RecordsInv, RecordsOK
<1>4. ev.selected # {} => \A r \in rows : \E a \in ev.selected : a.attempt = r.attempt
  <2>1. ev.selected \subseteq attemptRows
    BY <1>3 DEF EvidenceOK
  <2> QED BY <1>3, <2>1, ReplayedAreSelected
<1> HIDE DEF rows, ev
<1>5. /\ o = [x \in EvidenceField |-> o[x]]
      /\ o.selected = ev.selected /\ o.shadow = ev.shadow /\ o.replay = rows
  BY <1>3 DEF EvidenceOK, EvidenceField
<1> HIDE DEF o
<1>6. EvidenceOK(verify.context, o, attemptRows) /\ StageOK("shadow_artifacts", o)
  BY <1>3, <1>4, <1>5 DEF EvidenceOK, StageOK
<1> QED BY <1>1, <1>6, LoadOK

LEMMA LoadShadowArtifactsOK ==
    ASSUME VerifyInv, LoadShadowArtifacts
    PROVE  VerifyOK(verify', attemptRows')
<1> DEFINE ev == verify.evidence
           rows == {x \in Range(shadowArtifacts) : x.attempt \in EvidenceIds}
           o == [ev EXCEPT !.shadowArtifacts = rows]
<1>1. LoadEvidence("shadow_artifacts", "live_records", o)
  BY DEF LoadShadowArtifacts
<1>2. verify.stage = "shadow_artifacts"
  BY <1>1 DEF LoadEvidence
<1>3. EvidenceOK(verify.context, ev, attemptRows) /\ TablesOK(attemptRows, shadowArtifacts)
  BY <1>2 DEF VerifyInv, VerifyOK, RecordsInv, RecordsOK
<1>4. \A a \in ev.selected : a.attempt.mode = "shadow" => \E x \in rows : x.attempt = a.attempt.id
  <2>1. ev.selected \subseteq attemptRows
    BY <1>3 DEF EvidenceOK
  <2>2. Ids(ev.selected) \subseteq EvidenceIds
    BY DEF EvidenceIds, Ids
  <2> QED BY <1>3, <2>1, <2>2, ArtifactsLoaded
<1> HIDE DEF rows, ev
<1>5. /\ o = [x \in EvidenceField |-> o[x]]
      /\ o.selected = ev.selected /\ o.shadow = ev.shadow /\ o.replay = ev.replay
      /\ o.shadowArtifacts = rows
  BY <1>3 DEF EvidenceOK, EvidenceField
<1> HIDE DEF o
<1>6. EvidenceOK(verify.context, o, attemptRows)
  BY <1>3, <1>5 DEF EvidenceOK
<1>7. StageOK("live_records", o)
  BY <1>4, <1>5 DEF StageOK, ArtifactsCover
<1> QED BY <1>1, <1>6, <1>7, LoadOK

LEMMA JudgeOK ==
    ASSUME VerifyInv, LoadLiveRecordsAndJudge
    PROVE  VerifyOK(verify', attemptRows')
<1> DEFINE ev == verify.evidence
           rows == {x \in liveRecords : x.table # "pending_reconcile_items" /\ x.attempt \in EvidenceIds}
           o == [ev EXCEPT !.liveRecords = rows]
           verdict == Verdict(verify.context, verify.comparable, verify.routes, o)
           v == [verify EXCEPT !.stage = "done", !.evidence = o, !.verdict = verdict]
<1>1. verify.stage = "live_records" /\ verify' = v /\ attemptRows' = attemptRows
  BY DEF LoadLiveRecordsAndJudge, recordVars
<1>2. /\ EvidenceOK(verify.context, ev, attemptRows) /\ ArtifactsCover(ev)
      /\ verify = [x \in VerifyField |-> verify[x]]
      /\ verify.context.scenario \in {"paper", "live", "smoke"}
      /\ verify.window.kind \in {"latest", "attempt", "since", "seq"}
      /\ verify.comparable \in BOOLEAN
  BY <1>1 DEF VerifyInv, VerifyOK, StageOK
<1> HIDE DEF rows, ev
<1>3. /\ o = [x \in EvidenceField |-> o[x]]
      /\ o.selected = ev.selected /\ o.shadow = ev.shadow /\ o.replay = ev.replay
      /\ o.shadowArtifacts = ev.shadowArtifacts
  BY <1>2 DEF EvidenceOK, EvidenceField
<1> HIDE DEF o
<1>4. EvidenceOK(verify.context, o, attemptRows)
  BY <1>2, <1>3 DEF EvidenceOK
<1>5. StageOK("done", o)
  BY <1>2, <1>3 DEF StageOK, ArtifactsCover
<1> HIDE DEF verdict
<1>6. /\ v = [x \in VerifyField |-> v[x]]
      /\ v.stage = "done" /\ v.evidence = o /\ v.context = verify.context /\ v.window = verify.window
      /\ v.routes = verify.routes /\ v.comparable = verify.comparable
      /\ v.verdict = verdict
  BY <1>2 DEF VerifyField
<1> HIDE DEF v
<1>7. v.verdict = Verdict(v.context, v.comparable, v.routes, v.evidence)
  BY <1>6 DEF verdict
<1>8. VerifyOK(v, attemptRows)
  BY <1>2, <1>4, <1>5, <1>6, <1>7 DEF VerifyOK
<1> QED BY <1>1, <1>8

\* Attempts are never deleted, so the evidence keeps being about committed ones.
LEMMA RowsOnlyGrow ==
    ASSUME RecordsNext
    PROVE  attemptRows \subseteq attemptRows'
BY DEF RecordsNext, BeginBatch, AppendShadowAttempt, AppendShadowArtifact, CommitBatch, LoseBatch,
       AppendLiveAttempt, AppendLiveFollowUp, NextStatement, RollBack

LEMMA VerifyNextOK == VerifyInv /\ [VerifyNext]_verifyVars => VerifyInv'
<1> SUFFICES ASSUME VerifyInv, [VerifyNext]_verifyVars PROVE VerifyInv'
  OBVIOUS
<1>1. RecordsInv'
  BY RecordsNextOK DEF VerifyInv
<1>2. ASSUME UNCHANGED verify, attemptRows \subseteq attemptRows' PROVE VerifyOK(verify', attemptRows')
  BY <1>2 DEF VerifyInv, VerifyOK, EvidenceOK
<1>3. RecordsNext /\ UNCHANGED verify => VerifyOK(verify', attemptRows')
  BY <1>2, RowsOnlyGrow
<1>4. UNCHANGED verifyVars => VerifyOK(verify', attemptRows')
  BY <1>2 DEF verifyVars, recordVars
<1>5. ASSUME NEW ask \in VerifyAsk, NEW sessions \in SUBSET VerifySession, StartVerify(ask, sessions)
      PROVE  VerifyOK(verify', attemptRows')
  BY <1>5, StartVerifyOK
<1>6. VerifyOK(verify', attemptRows')
  BY <1>3, <1>4, <1>5, LoadSelectedOK, LoadObservedOK, LoadReplayOK, LoadShadowArtifactsOK, JudgeOK
     DEF VerifyNext
<1> QED BY <1>1, <1>6 DEF VerifyInv

\* The inductive invariant of the execution records and of the verify that reads them.
LEMMA VerifyInvariant == VerifySpec => []VerifyInv
<1>1. VerifyInit => VerifyInv
  BY RecordsInitOK DEF VerifyInit, VerifyInv, VerifyOK, NoVerify
<1> QED BY <1>1, VerifyNextOK, PTL DEF VerifySpec

\* Whatever the batches and the runs that record them, and however their statements
\* interleave with the queries of a verify (execute and load_evidence): a smoke verify
\* that finds shadow attempts and no live side effect passes, and
\* shadow_execution_artifacts holds no artifact twice.
THEOREM ShadowEvidenceIsAlwaysWhole == VerifySpec => []ShadowEvidenceIsWhole
<1>1. ASSUME VerifyInv PROVE ShadowEvidenceIsWhole
  <2>1. TablesOK(attemptRows, shadowArtifacts)
    BY <1>1 DEF VerifyInv, RecordsInv, RecordsOK
  <2>2. \A i, j \in DOMAIN shadowArtifacts : shadowArtifacts[i].attempt = shadowArtifacts[j].attempt => i = j
    BY <2>1 DEF TablesOK, OneEach
  <2>3. ASSUME verify.stage = "done", verify.context.scenario = "smoke", verify.comparable,
               ~Refused(verify.context), ShadowIn(verify.evidence) # {},
               ForbiddenLive(verify.evidence) = {}, verify.evidence.liveRecords = {}
        PROVE  verify.verdict = "pass"
    <3>1. /\ EvidenceOK(verify.context, verify.evidence, attemptRows) /\ ArtifactsCover(verify.evidence)
          /\ verify.comparable \in BOOLEAN
          /\ verify.verdict = Verdict(verify.context, verify.comparable, verify.routes, verify.evidence)
      BY <1>1, <2>3 DEF VerifyInv, VerifyOK, StageOK
    <3>2. verify.comparable = TRUE
      BY <2>3, <3>1
    <3>3. AboutSelected(verify.evidence)
      BY <2>1, <2>3, <3>1 DEF EvidenceOK, AboutSelected, TablesOK
    <3>4. verify.evidence = [x \in EvidenceField |-> verify.evidence[x]]
      BY <3>1 DEF EvidenceOK
    <3>5. Verdict(verify.context, TRUE, verify.routes, verify.evidence) = "pass"
      BY <2>3, <3>1, <3>3, <3>4, SmokeVerdictPasses
    <3> QED BY <3>1, <3>2, <3>5
  <2> QED BY <2>2, <2>3 DEF ShadowEvidenceIsWhole
<1> QED BY <1>1, VerifyInvariant, PTL
=============================================================================
