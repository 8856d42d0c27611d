---------------------------- MODULE DispatchLoop ----------------------------
(***************************************************************************)
(* The dispatcher as a state machine: the supervisor reports what it       *)
(* applied and what it published, in any mix, and flushes now and then.    *)
(***************************************************************************)
EXTENDS Dispatch

CONSTANTS
    DirtySets,      \* what the supervisor may report as dirty at once
    MaxVersion      \* bound: the state version grows to at most this

ASSUME DirtySetsAssumption == DirtySets \subseteq (SUBSET DirtyDomain) \ {{}}

ASSUME VersionAssumption == MaxVersion \in Nat

VARIABLES
    dispatch,
    version,        \* the state version of the runtime
    dirtied         \* history: per route, the version that last dirtied it

dispatchVars == <<dispatch, version, dirtied>>

DispatchInit ==
    /\ dispatch = NewDispatch
    /\ version = 0
    /\ dirtied = [route \in Route |-> None]

\* The version moves and the given domains become dirty at the new one.
Advance(domains) ==
    /\ version < MaxVersion
    /\ version' = version + 1
    /\ dirtied' = [route \in Route |-> IF domains \cap DomainsOf(route) # {}
                                       THEN version + 1 ELSE dirtied[route]]

ApplyReported(domains) ==
    /\ Advance(domains)
    /\ dispatch' = RecordApply(dispatch, version + 1, domains)

SnapshotObserved(routes) ==
    /\ dispatch' = ObserveSnapshot(dispatch, version, routes)
    /\ UNCHANGED <<version, dirtied>>

\* observe_notice: a change and the snapshot that may cover it in one call.
NoticeObserved(domains, routes) ==
    /\ Advance(domains)
    /\ dispatch' = ObserveSnapshot(RecordApply(dispatch, version + 1, domains),
                                   version + 1, routes)

FlushDispatch ==
    /\ dispatch' = Flush(dispatch)
    /\ UNCHANGED <<version, dirtied>>

DispatchNext ==
    \/ \E domains \in DirtySets : ApplyReported(domains)
    \/ \E routes \in SUBSET Route : SnapshotObserved(routes)
    \/ \E domains \in DirtySets, routes \in SUBSET Route : NoticeObserved(domains, routes)
    \/ FlushDispatch

DispatchSpec == DispatchInit /\ [][DispatchNext]_dispatchVars

---------------------------------------------------------------------------
(***************************************************************************)
(* Properties                                                              *)
(***************************************************************************)

\* The dispatcher holds versions of ready snapshots and dirty records that are
\* dirty in at least one domain (DispatchLoop, clear_dirty_domains).
DispatchTypeOK ==
    /\ dispatch \in DispatchType
    /\ version \in Nat
    /\ dirtied \in [Route -> OptionOf(Nat)]

Covered(route, v) == dispatch.ready[route] # None /\ v <= dispatch.ready[route]

\* Coalescing may skip versions but never the latest: the version that last
\* dirtied a route stays recorded until a snapshot that is ready for the route
\* and at least as new has been observed (clear_dirty_domains,
\* coalesced_dirty_records).
LatestDirtyKept ==
    \A route \in Route :
        dirtied[route] # None /\ ~Covered(route, dirtied[route]) =>
            \E r \in dispatch.dirty : r.version = dirtied[route] /\ Touches(r, route)

\* A record is dirty for a route only at versions that no ready snapshot of
\* the route covers and that something did make dirty: coalescing, which
\* widens a record to every domain of its routes, brings back nothing.
CoveredIsClean ==
    \A r \in dispatch.dirty, route \in Route :
        Touches(r, route) =>
            /\ ~Covered(route, r.version)
            /\ dirtied[route] # None
            /\ r.version <= dirtied[route]

\* The version reported as stable is never taken back (last_stable_state_version
\* over the two latest ready snapshots).
StableNeverRegresses ==
    [][LastStableVersion(dispatch) # None =>
          /\ LastStableVersion(dispatch') # None
          /\ LastStableVersion(dispatch) <= LastStableVersion(dispatch')]_dispatchVars

=============================================================================
