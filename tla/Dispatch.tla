------------------------------ MODULE Dispatch ------------------------------
(***************************************************************************)
(* The dispatcher's memory of what has changed and not been evaluated yet  *)
(* (crates/app-live/src/dispatch.rs, the domain sets of queues.rs).        *)
(*                                                                         *)
(* Applied facts leave dirty records behind; a published snapshot that is  *)
(* ready for a route covers every record up to its version; a flush        *)
(* coalesces what is left into one record per route.                       *)
(***************************************************************************)
EXTENDS Option

FullSetDomains == {"Runtime", "Orders", "Inventory", "Approvals", "Resolution", "Relayer"}

NegRiskDomains == {"NegRiskFamilies"}

AllDomains == FullSetDomains \cup NegRiskDomains

DirtyDomain == AllDomains \cup {"Candidates"}

Route == {"fullset", "negrisk"}

DomainsOf(route) == IF route = "fullset" THEN FullSetDomains ELSE NegRiskDomains

\* A record that is dirty in nothing is not kept.
DirtyRecord == [version : Nat, domains : (SUBSET DirtyDomain) \ {{}}]

\* Per route the version of the latest ready snapshot, and the dirty records.
DispatchType == [ready : [Route -> OptionOf(Nat)], dirty : SUBSET DirtyRecord]

NewDispatch == [ready |-> [route \in Route |-> None], dirty |-> {}]

Touches(record, route) == record.domains \cap DomainsOf(route) # {}

RecordApply(d, version, domains) ==
    [d EXCEPT !.dirty = d.dirty \cup {[version |-> version, domains |-> domains]}]

\* Mutant: the record of the covered version itself stays dirty.
ClearDirtyDomainsBelow(d, version, route) ==
    LET left(r) == IF r.version < version
                   THEN [r EXCEPT !.domains = r.domains \ DomainsOf(route)] ELSE r
    IN  [d EXCEPT !.dirty = {r \in {left(q) : q \in d.dirty} : r.domains # {}}]

ClearDirtyDomains(d, version, route) ==
    LET left(r) == IF r.version <= version
                   THEN [r EXCEPT !.domains = r.domains \ DomainsOf(route)] ELSE r
    IN  [d EXCEPT !.dirty = {r \in {left(q) : q \in d.dirty} : r.domains # {}}]

ObserveReady(d, version, route) ==
    ClearDirtyDomains([d EXCEPT !.ready = [d.ready EXCEPT ![route] = version]], version, route)

\* Mutant: a snapshot that is not ready for a route takes its readiness back.
ObserveSnapshotResetting(d, version, routes) ==
    [d EXCEPT !.ready = [route \in Route |-> IF route \in routes THEN version ELSE None]]

\* A snapshot of a version that is ready for the given routes.
ObserveSnapshot(d, version, routes) ==
    LET fullset == IF "fullset" \in routes THEN ObserveReady(d, version, "fullset") ELSE d
    IN  IF "negrisk" \in routes THEN ObserveReady(fullset, version, "negrisk") ELSE fullset

\* Mutant: the oldest dirty version is the one that is kept.
EarliestDirty(d, route, version) ==
    /\ \E r \in d.dirty : r.version = version /\ Touches(r, route)
    /\ \A r \in d.dirty : Touches(r, route) => version <= r.version

LatestDirty(d, route, version) ==
    /\ \E r \in d.dirty : r.version = version /\ Touches(r, route)
    /\ \A r \in d.dirty : Touches(r, route) => r.version <= version

\* One record per latest dirty version, dirty in every domain of its routes;
\* what is dirty in no route's domain is dropped.
CoalescedDirtyRecords(d) ==
    LET routesAt(v) == {route \in Route : LatestDirty(d, route, v)}
    IN  {[version |-> v, domains |-> UNION {DomainsOf(route) : route \in routesAt(v)}] :
            v \in {r.version : r \in {q \in d.dirty : routesAt(q.version) # {}}}}

Flush(d) == [d EXCEPT !.dirty = CoalescedDirtyRecords(d)]

\* The greatest version both routes have seen a ready snapshot of.
LastStableVersion(d) ==
    IF \E route \in Route : d.ready[route] = None THEN None
    ELSE IF d.ready["fullset"] <= d.ready["negrisk"] THEN d.ready["fullset"]
                                                     ELSE d.ready["negrisk"]

=============================================================================
