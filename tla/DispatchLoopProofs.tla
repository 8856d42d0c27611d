------------------------- MODULE DispatchLoopProofs -------------------------
(***************************************************************************)
(* Proofs that the dispatcher forgets no latest change and keeps none that *)
(* a ready snapshot covers, for every sequence of reports and any versions.*)
(***************************************************************************)
EXTENDS DispatchLoop, TLAPS

---------------------------------------------------------------------------
(***************************************************************************)
(* The inductive invariant, of a dispatcher d, the version v of the store  *)
(* and the version dt[route] that last dirtied each route.                 *)
(***************************************************************************)

CoveredBy(d, route, v) == d.ready[route] # None /\ v <= d.ready[route]

TypesOK(d, v, dt) == d \in DispatchType /\ v \in Nat /\ dt \in [Route -> OptionOf(Nat)]

\* Nothing is ready or dirty ahead of the store.
WithinVersion(d, v, dt) ==
    \A route \in Route : /\ d.ready[route] # None => d.ready[route] <= v
                         /\ dt[route] # None => dt[route] <= v

LatestKept(d, dt) ==
    \A route \in Route :
        dt[route] # None /\ ~CoveredBy(d, route, dt[route]) =>
            \E r \in d.dirty : r.version = dt[route] /\ Touches(r, route)

Clean(d, dt) ==
    \A r \in d.dirty, route \in Route :
        Touches(r, route) => /\ ~CoveredBy(d, route, r.version)
                             /\ dt[route] # None
                             /\ r.version <= dt[route]

DispatchOK(d, v, dt) ==
    /\ TypesOK(d, v, dt) /\ WithinVersion(d, v, dt) /\ LatestKept(d, dt) /\ Clean(d, dt)

\* The snapshot a route is ready at only gets newer.
ReadyGrows(r, d) ==
    \A route \in Route : d.ready[route] # None =>
        r.ready[route] # None /\ d.ready[route] <= r.ready[route]

---------------------------------------------------------------------------
(***************************************************************************)
(* Domains and records                                                     *)
(***************************************************************************)

\* Each route has domains of its own.
LEMMA RouteDomains ==
    /\ \A route \in Route : DomainsOf(route) # {} /\ DomainsOf(route) \subseteq DirtyDomain
    /\ \A a, b \in Route : a # b => DomainsOf(a) \cap DomainsOf(b) = {}
<1>1. DomainsOf("fullset") = FullSetDomains
  BY DEF DomainsOf
<1>2. DomainsOf("negrisk") = NegRiskDomains
  BY DEF DomainsOf
<1>3. FullSetDomains # {} /\ NegRiskDomains # {} /\ FullSetDomains \cap NegRiskDomains = {}
  BY DEF FullSetDomains, NegRiskDomains
<1>4. FullSetDomains \subseteq DirtyDomain /\ NegRiskDomains \subseteq DirtyDomain
  BY DEF DirtyDomain, AllDomains
<1> QED BY <1>1, <1>2, <1>3, <1>4 DEF Route

\* A record without the domains of one route touches the others as before.
LEMMA WithoutRoute ==
    ASSUME NEW q \in DirtyRecord, NEW a \in Route, NEW r,
           r = [q EXCEPT !.domains = q.domains \ DomainsOf(a)]
    PROVE  /\ r.version = q.version
           /\ ~Touches(r, a)
           /\ \A b \in Route : b # a => (Touches(r, b) <=> Touches(q, b))
           /\ r.domains # {} => r \in DirtyRecord
<1>1. r.version = q.version /\ r.domains = q.domains \ DomainsOf(a)
  BY DEF DirtyRecord
<1>2. ASSUME NEW b \in Route, b # a
      PROVE  r.domains \cap DomainsOf(b) = q.domains \cap DomainsOf(b)
  BY <1>1, <1>2, RouteDomains
<1>3. r.domains # {} => r \in DirtyRecord
  BY <1>1 DEF DirtyRecord
<1> QED BY <1>1, <1>2, <1>3 DEF Touches

---------------------------------------------------------------------------
(***************************************************************************)
(* The operations keep the invariant                                       *)
(***************************************************************************)

\* record_apply at the next version.
LEMMA ApplyKeepsOK ==
    ASSUME NEW d, NEW v, NEW dt, DispatchOK(d, v, dt),
           NEW domains \in (SUBSET DirtyDomain) \ {{}},
           NEW r, r = RecordApply(d, v + 1, domains),
           NEW et, et = [route \in Route |-> IF domains \cap DomainsOf(route) # {}
                                             THEN v + 1 ELSE dt[route]]
    PROVE  DispatchOK(r, v + 1, et) /\ r.ready = d.ready
<1> DEFINE new == [version |-> v + 1, domains |-> domains]
<1> USE NoneIsNoNumber
<1>0. d \in DispatchType /\ v \in Nat /\ dt \in [Route -> OptionOf(Nat)]
  BY DEF DispatchOK, TypesOK
<1>1. new \in DirtyRecord /\ new.version = v + 1 /\ new.domains = domains
  BY <1>0 DEF DirtyRecord
<1>2. r.ready = d.ready /\ r.dirty = d.dirty \cup {new}
  BY <1>0 DEF RecordApply, DispatchType
<1>3. TypesOK(r, v + 1, et)
  <2>1. r \in DispatchType
    BY <1>0, <1>1, <1>2 DEF RecordApply, DispatchType
  <2>2. et \in [Route -> OptionOf(Nat)]
    BY <1>0 DEF OptionOf
  <2> QED BY <1>0, <2>1, <2>2 DEF TypesOK
<1>4. WithinVersion(r, v + 1, et)
  BY <1>0, <1>2 DEF DispatchOK, WithinVersion, DispatchType, OptionOf
<1>5. LatestKept(r, et)
  <2> SUFFICES ASSUME NEW route \in Route, et[route] # None, ~CoveredBy(r, route, et[route])
               PROVE  \E q \in r.dirty : q.version = et[route] /\ Touches(q, route)
    BY DEF LatestKept
  <2>1. CASE domains \cap DomainsOf(route) # {}
    BY <2>1, <1>1, <1>2 DEF Touches
  <2>2. CASE domains \cap DomainsOf(route) = {}
    BY <2>2, <1>2 DEF DispatchOK, LatestKept, CoveredBy
  <2> QED BY <2>1, <2>2
<1>6. Clean(r, et)
  <2> SUFFICES ASSUME NEW q \in r.dirty, NEW route \in Route, Touches(q, route)
               PROVE  /\ ~CoveredBy(r, route, q.version)
                      /\ et[route] # None /\ q.version <= et[route]
    BY DEF Clean
  <2>1. CASE q = new
    <3>1. et[route] = v + 1 /\ q.version = v + 1
      BY <2>1, <1>1 DEF Touches
    <3>2. ~CoveredBy(r, route, v + 1)
      BY <1>0, <1>2 DEF CoveredBy, DispatchOK, WithinVersion, DispatchType, OptionOf
    <3> QED BY <3>1, <3>2, <1>0
  <2>2. CASE q \in d.dirty
    <3>1. /\ ~CoveredBy(d, route, q.version) /\ dt[route] # None /\ q.version <= dt[route]
          /\ dt[route] <= v
      BY <2>2 DEF DispatchOK, Clean, WithinVersion
    <3>2. q.version \in Nat /\ dt[route] \in Nat
      BY <2>2, <3>1, <1>0 DEF DispatchType, DirtyRecord, OptionOf
    <3>3. ~CoveredBy(r, route, q.version)
      BY <3>1, <1>2 DEF CoveredBy
    <3> QED BY <3>1, <3>2, <3>3, <1>0
  <2> QED BY <2>1, <2>2, <1>2
<1> QED BY <1>2, <1>3, <1>4, <1>5, <1>6 DEF DispatchOK

\* A snapshot of the current version that is ready for one route.
LEMMA ReadyKeepsOK ==
    ASSUME NEW d, NEW v, NEW dt, DispatchOK(d, v, dt), NEW a \in Route,
           NEW r, r = ObserveReady(d, v, a)
    PROVE  DispatchOK(r, v, dt) /\ ReadyGrows(r, d)
<1> DEFINE left(q) == IF q.version <= v
                      THEN [q EXCEPT !.domains = q.domains \ DomainsOf(a)] ELSE q
<1> USE NoneIsNoNumber
<1>0. d \in DispatchType /\ v \in Nat /\ dt \in [Route -> OptionOf(Nat)]
  BY DEF DispatchOK, TypesOK
<1>1. /\ r.ready = [d.ready EXCEPT ![a] = v]
      /\ r.dirty = {q \in {left(p) : p \in d.dirty} : q.domains # {}}
      /\ r = [ready |-> r.ready, dirty |-> r.dirty]
  BY <1>0 DEF ObserveReady, ClearDirtyDomains, DispatchType
<1>2. ASSUME NEW q \in d.dirty
      PROVE  /\ q \in DirtyRecord
             /\ left(q).version = q.version
             /\ left(q).domains # {} => left(q) \in DirtyRecord
             /\ \A b \in Route : b # a => (Touches(left(q), b) <=> Touches(q, b))
             /\ q.version <= v => ~Touches(left(q), a)
             /\ ~(q.version <= v) => left(q) = q
  <2>1. q \in DirtyRecord
    BY <1>0 DEF DispatchType
  <2>2. CASE q.version <= v
    <3> DEFINE r1 == [q EXCEPT !.domains = q.domains \ DomainsOf(a)]
    <3>1. left(q) = r1
      BY <2>2
    <3>2. /\ r1.version = q.version
          /\ ~Touches(r1, a)
          /\ \A b \in Route : b # a => (Touches(r1, b) <=> Touches(q, b))
          /\ r1.domains # {} => r1 \in DirtyRecord
      BY <2>1, WithoutRoute
    <3> HIDE DEF r1
    <3> QED BY <2>1, <2>2, <3>1, <3>2
  <2>3. CASE ~(q.version <= v)
    BY <2>1, <2>3
  <2> QED BY <2>1, <2>2, <2>3
<1>3. TypesOK(r, v, dt)
  <2>1. r.ready \in [Route -> OptionOf(Nat)]
    BY <1>0, <1>1 DEF DispatchType, OptionOf
  <2>2. r.dirty \subseteq DirtyRecord
    BY <1>1, <1>2
  <2> QED BY <1>0, <1>1, <2>1, <2>2 DEF TypesOK, DispatchType
<1>4. WithinVersion(r, v, dt)
  BY <1>0, <1>1 DEF DispatchOK, WithinVersion, DispatchType
<1>5. ReadyGrows(r, d)
  BY <1>0, <1>1 DEF ReadyGrows, DispatchOK, WithinVersion, DispatchType, OptionOf
<1>6. LatestKept(r, dt)
  <2> SUFFICES ASSUME NEW route \in Route, dt[route] # None, ~CoveredBy(r, route, dt[route])
               PROVE  \E q \in r.dirty : q.version = dt[route] /\ Touches(q, route)
    BY DEF LatestKept
  <2>1. route # a
    BY <1>0, <1>1 DEF CoveredBy, DispatchOK, WithinVersion, DispatchType
  <2>2. ~CoveredBy(d, route, dt[route])
    BY <2>1, <1>0, <1>1 DEF CoveredBy, DispatchType
  <2>3. PICK q \in d.dirty : q.version = dt[route] /\ Touches(q, route)
    BY <2>2 DEF DispatchOK, LatestKept
  <2>4. left(q).version = dt[route] /\ Touches(left(q), route)
    BY <2>1, <2>3, <1>2
  <2>5. left(q).domains # {}
    BY <2>4 DEF Touches
  <2> QED BY <2>4, <2>5, <1>1
<1>7. Clean(r, dt)
  <2> SUFFICES ASSUME NEW q \in r.dirty, NEW route \in Route, Touches(q, route)
               PROVE  /\ ~CoveredBy(r, route, q.version)
                      /\ dt[route] # None /\ q.version <= dt[route]
    BY DEF Clean
  <2>1. PICK p \in d.dirty : q = left(p)
    BY <1>1
  <2>2. q.version = p.version /\ p.version \in Nat
    BY <2>1, <1>2 DEF DirtyRecord
  <2>3. CASE route = a
    <3>1. ~(p.version <= v) /\ q = p
      BY <2>1, <2>3, <1>2
    <3>2. dt[a] # None /\ p.version <= dt[a] /\ dt[a] <= v
      BY <3>1, <2>3 DEF DispatchOK, Clean, WithinVersion
    <3>3. dt[a] \in Nat
      BY <3>2, <1>0 DEF OptionOf
    <3> QED BY <3>1, <3>2, <3>3, <2>2, <1>0
  <2>4. CASE route # a
    <3>1. Touches(p, route)
      BY <2>1, <2>4, <1>2
    <3>2. ~CoveredBy(d, route, p.version) /\ dt[route] # None /\ p.version <= dt[route]
      BY <3>1 DEF DispatchOK, Clean
    <3> QED BY <3>2, <2>2, <2>4, <1>0, <1>1 DEF CoveredBy, DispatchType
  <2> QED BY <2>3, <2>4
<1> QED BY <1>3, <1>4, <1>5, <1>6, <1>7 DEF DispatchOK

\* observe_snapshot for any set of routes.
LEMMA ObserveKeepsOK ==
    ASSUME NEW d, NEW v, NEW dt, DispatchOK(d, v, dt), NEW routes \in SUBSET Route,
           NEW r, r = ObserveSnapshot(d, v, routes)
    PROVE  DispatchOK(r, v, dt) /\ ReadyGrows(r, d)
<1> DEFINE fullset == IF "fullset" \in routes THEN ObserveReady(d, v, "fullset") ELSE d
<1> USE NoneIsNoNumber
<1>1. DispatchOK(fullset, v, dt) /\ ReadyGrows(fullset, d)
  <2>1. CASE "fullset" \in routes
    BY <2>1, ReadyKeepsOK
  <2>2. CASE "fullset" \notin routes
    BY <2>2 DEF ReadyGrows, DispatchOK, TypesOK, DispatchType, OptionOf
  <2> QED BY <2>1, <2>2
<1>2. CASE "negrisk" \in routes
  <2>1. r = ObserveReady(fullset, v, "negrisk")
    BY <1>2 DEF ObserveSnapshot
  <2>2. DispatchOK(r, v, dt) /\ ReadyGrows(r, fullset)
    <3> HIDE DEF fullset
    <3> QED BY <2>1, <1>1, <1>2, ReadyKeepsOK
  <2>3. d \in DispatchType /\ fullset \in DispatchType /\ r \in DispatchType
    BY <1>1, <2>2 DEF DispatchOK, TypesOK
  <2>4. ReadyGrows(r, d)
    <3> HIDE DEF fullset
    <3> QED BY <1>1, <2>2, <2>3 DEF ReadyGrows, DispatchType, OptionOf
  <2> QED BY <2>2, <2>4
<1>3. CASE "negrisk" \notin routes
  BY <1>1, <1>3 DEF ObserveSnapshot
<1> QED BY <1>2, <1>3

\* flush: coalescing keeps the latest dirty version of each route and nothing
\* that was not dirty.
LEMMA FlushKeepsOK ==
    ASSUME NEW d, NEW v, NEW dt, DispatchOK(d, v, dt), NEW r, r = Flush(d)
    PROVE  DispatchOK(r, v, dt) /\ r.ready = d.ready
<1> DEFINE routesAt(w) == {route \in Route : LatestDirty(d, route, w)}
           merged(w) == [version |-> w, domains |-> UNION {DomainsOf(route) : route \in routesAt(w)}]
<1> USE NoneIsNoNumber
<1>0. d \in DispatchType /\ v \in Nat /\ dt \in [Route -> OptionOf(Nat)]
  BY DEF DispatchOK, TypesOK
<1>1. /\ r.ready = d.ready
      /\ r.dirty = CoalescedDirtyRecords(d)
      /\ r = [ready |-> r.ready, dirty |-> r.dirty]
  BY <1>0 DEF Flush, DispatchType
<1>2. r.dirty = {merged(w) : w \in {p.version : p \in {q \in d.dirty : routesAt(q.version) # {}}}}
  BY <1>1 DEF CoalescedDirtyRecords
<1>3. ASSUME NEW q \in r.dirty
      PROVE  /\ q.version \in Nat /\ q = merged(q.version) /\ routesAt(q.version) # {}
  <2>1. PICK p \in d.dirty : routesAt(p.version) # {} /\ q = merged(p.version)
    BY <1>2
  <2> QED BY <2>1, <1>0 DEF DispatchType, DirtyRecord
<1>4. ASSUME NEW w, NEW route \in Route
      PROVE  Touches(merged(w), route) <=> route \in routesAt(w)
  BY RouteDomains DEF Touches
<1>5. TypesOK(r, v, dt)
  <2>1. ASSUME NEW q \in r.dirty PROVE q \in DirtyRecord
    <3>1. q.version \in Nat /\ q = merged(q.version) /\ routesAt(q.version) # {}
      BY <1>3
    <3>2. q.domains = UNION {DomainsOf(route) : route \in routesAt(q.version)}
      BY <3>1
    <3>3. q.domains # {} /\ q.domains \subseteq DirtyDomain
      BY <3>1, <3>2, RouteDomains
    <3> QED BY <3>1, <3>3 DEF DirtyRecord
  <2> QED BY <2>1, <1>0, <1>1 DEF TypesOK, DispatchType
<1>6. WithinVersion(r, v, dt)
  BY <1>1 DEF DispatchOK, WithinVersion
<1>7. LatestKept(r, dt)
  <2> SUFFICES ASSUME NEW route \in Route, dt[route] # None, ~CoveredBy(r, route, dt[route])
               PROVE  \E q \in r.dirty : q.version = dt[route] /\ Touches(q, route)
    BY DEF LatestKept
  <2>1. PICK p \in d.dirty : p.version = dt[route] /\ Touches(p, route)
    BY <1>1 DEF DispatchOK, LatestKept, CoveredBy
  <2>2. LatestDirty(d, route, dt[route])
    BY <2>1 DEF LatestDirty, DispatchOK, Clean
  <2>3. merged(dt[route]) \in r.dirty
    BY <2>1, <2>2, <1>2
  <2>4. Touches(merged(dt[route]), route)
    BY <2>2, <1>4
  <2> QED BY <2>3, <2>4
<1>8. Clean(r, dt)
  <2> SUFFICES ASSUME NEW q \in r.dirty, NEW route \in Route, Touches(q, route)
               PROVE  /\ ~CoveredBy(r, route, q.version)
                      /\ dt[route] # None /\ q.version <= dt[route]
    BY DEF Clean
  <2>1. LatestDirty(d, route, q.version)
    BY <1>3, <1>4
  <2>2. PICK p \in d.dirty : p.version = q.version /\ Touches(p, route)
    BY <2>1 DEF LatestDirty
  <2> QED BY <2>2, <1>1 DEF DispatchOK, Clean, CoveredBy
<1> QED BY <1>1, <1>5, <1>6, <1>7, <1>8 DEF DispatchOK

---------------------------------------------------------------------------
(***************************************************************************)
(* The state machine                                                       *)
(***************************************************************************)

DispatchInvariant == DispatchOK(dispatch, version, dirtied)

\* A dispatcher starts with nothing ready and nothing dirty.
LEMMA InitOK == DispatchInit => DispatchInvariant
<1> SUFFICES ASSUME DispatchInit PROVE DispatchInvariant
  OBVIOUS
<1>1. dispatch = [ready |-> [route \in Route |-> None], dirty |-> {}]
      /\ version = 0 /\ dirtied = [route \in Route |-> None]
  BY DEF DispatchInit, NewDispatch
<1>2. TypesOK(dispatch, version, dirtied)
  BY <1>1 DEF TypesOK, DispatchType, OptionOf
<1> QED BY <1>1, <1>2 DEF DispatchInvariant, DispatchOK, WithinVersion, LatestKept, Clean

\* Every step keeps the invariant, and readiness only grows.
LEMMA StepOK ==
    ASSUME DispatchInvariant, [DispatchNext]_dispatchVars
    PROVE  DispatchInvariant' /\ ReadyGrows(dispatch', dispatch)
<1> USE NoneIsNoNumber
<1>0. dispatch \in DispatchType
  BY DEF DispatchInvariant, DispatchOK, TypesOK
<1>1. ASSUME NEW domains \in DirtySets, ApplyReported(domains)
      PROVE  DispatchInvariant' /\ dispatch'.ready = dispatch.ready
  BY <1>1, ApplyKeepsOK, DirtySetsAssumption DEF ApplyReported, Advance, DispatchInvariant
<1>2. ASSUME NEW routes \in SUBSET Route, SnapshotObserved(routes)
      PROVE  DispatchInvariant' /\ ReadyGrows(dispatch', dispatch)
  BY <1>2, ObserveKeepsOK DEF SnapshotObserved, DispatchInvariant
<1>3. ASSUME NEW domains \in DirtySets, NEW routes \in SUBSET Route,
             NoticeObserved(domains, routes)
      PROVE  DispatchInvariant' /\ ReadyGrows(dispatch', dispatch)
  <2> DEFINE applied == RecordApply(dispatch, version + 1, domains)
  <2>1. DispatchOK(applied, version + 1, dirtied') /\ applied.ready = dispatch.ready
    BY <1>3, ApplyKeepsOK, DirtySetsAssumption DEF NoticeObserved, Advance, DispatchInvariant
  <2>2. dispatch' = ObserveSnapshot(applied, version', routes) /\ version' = version + 1
    BY <1>3 DEF NoticeObserved, Advance
  <2>3. DispatchOK(dispatch', version', dirtied') /\ ReadyGrows(dispatch', applied)
    <3> HIDE DEF applied
    <3> QED BY <2>1, <2>2, ObserveKeepsOK
  <2> QED BY <2>1, <2>3 DEF DispatchInvariant, ReadyGrows
<1>4. CASE FlushDispatch
  <2>1. DispatchInvariant' /\ dispatch'.ready = dispatch.ready
    BY <1>4, FlushKeepsOK DEF FlushDispatch, DispatchInvariant
  <2> QED BY <2>1, <1>0 DEF ReadyGrows, DispatchType, OptionOf
<1>5. CASE UNCHANGED dispatchVars
  BY <1>5, <1>0 DEF dispatchVars, DispatchInvariant, ReadyGrows, DispatchType, OptionOf
<1>6. ASSUME dispatch'.ready = dispatch.ready PROVE ReadyGrows(dispatch', dispatch)
  BY <1>6, <1>0 DEF ReadyGrows, DispatchType, OptionOf
<1> QED BY <1>1, <1>2, <1>3, <1>4, <1>5, <1>6 DEF DispatchNext

\* The invariant holds of every reachable state.
LEMMA InvariantHolds == DispatchSpec => []DispatchInvariant
<1>1. DispatchInvariant /\ [DispatchNext]_dispatchVars => DispatchInvariant'
  BY StepOK
<1> QED BY InitOK, <1>1, PTL DEF DispatchSpec

\* The dispatcher keeps its types; no record is dirty in nothing.
THEOREM DispatchTypeCorrect == DispatchSpec => []DispatchTypeOK
<1>1. DispatchInvariant => DispatchTypeOK
  BY DEF DispatchInvariant, DispatchOK, TypesOK, DispatchTypeOK
<1> QED BY <1>1, InvariantHolds, PTL

\* Coalescing never loses the version that last dirtied a route before a ready
\* snapshot covers it (coalesced_dirty_records, clear_dirty_domains).
THEOREM LatestChangeIsKept == DispatchSpec => []LatestDirtyKept
<1>1. DispatchInvariant => LatestDirtyKept
  BY DEF DispatchInvariant, DispatchOK, LatestKept, CoveredBy, LatestDirtyKept, Covered
<1> QED BY <1>1, InvariantHolds, PTL

\* What a ready snapshot covers does not become dirty again without a new
\* change (coalesced_dirty_records, clear_dirty_domains).
THEOREM CoveredStaysClean == DispatchSpec => []CoveredIsClean
<1>1. DispatchInvariant => CoveredIsClean
  BY DEF DispatchInvariant, DispatchOK, Clean, CoveredBy, CoveredIsClean, Covered
<1> QED BY <1>1, InvariantHolds, PTL

\* The stable version is never taken back (last_stable_state_version).
THEOREM StableIsMonotone == DispatchSpec => StableNeverRegresses
<1>1. ASSUME DispatchInvariant, DispatchInvariant', ReadyGrows(dispatch', dispatch),
             LastStableVersion(dispatch) # None
      PROVE  /\ LastStableVersion(dispatch') # None
             /\ LastStableVersion(dispatch) <= LastStableVersion(dispatch')
  <2>1. dispatch.ready \in [Route -> OptionOf(Nat)] /\ dispatch'.ready \in [Route -> OptionOf(Nat)]
    BY <1>1 DEF DispatchInvariant, DispatchOK, TypesOK, DispatchType
  <2>2. \A route \in Route : /\ dispatch.ready[route] \in Nat /\ dispatch'.ready[route] \in Nat
                             /\ dispatch.ready[route] <= dispatch'.ready[route]
    BY <1>1, <2>1, NoneIsNoNumber DEF LastStableVersion, ReadyGrows, OptionOf
  <2>3. "fullset" \in Route /\ "negrisk" \in Route
    BY DEF Route
  <2> QED BY <2>2, <2>3, NoneIsNoNumber DEF LastStableVersion
<1>2. DispatchInvariant /\ DispatchInvariant' /\ [DispatchNext]_dispatchVars =>
          [LastStableVersion(dispatch) # None =>
              /\ LastStableVersion(dispatch') # None
              /\ LastStableVersion(dispatch) <= LastStableVersion(dispatch')]_dispatchVars
  BY <1>1, StepOK
<1> QED BY <1>2, InvariantHolds, PTL DEF DispatchSpec, StableNeverRegresses

=============================================================================
