------------------------------ MODULE Metadata ------------------------------
(***************************************************************************)
(* Neg-risk metadata discovery (crates/venue-polymarket/src/metadata.rs    *)
(* and sdk_backend/metadata.rs).  Callers refresh a shared cache: one at a *)
(* time, under an async lock, a refresh reads the venue's event listing    *)
(* page by page at growing offsets until a page is empty, keeps the valid  *)
(* rows and publishes them as the next discovery revision.  The listing is *)
(* the venue's and may change between two pages.                           *)
(*                                                                         *)
(* canonicalize_rows sorts the rows, so what is published depends on the   *)
(* set of rows alone; the snapshot hash is a digest of that set and is     *)
(* represented by it.                                                      *)
(***************************************************************************)
EXTENDS Option, Naturals, Sequences, SequencesExt, FiniteSetsExt

CONSTANTS
    Caller,          \* tasks that share the client
    Listing,         \* event listings the venue may have: sequences of events
    PageLimit,       \* NEG_RISK_PAGE_LIMIT
    MaxRefreshes,    \* bound: successful refreshes
    MaxListings      \* bound: changes of the listing

ASSUME MetadataAssumption ==
    /\ PageLimit \in Nat \ {0}
    /\ MaxRefreshes \in Nat /\ MaxListings \in Nat
    /\ None \notin Caller
    /\ \A l \in Listing : l \in Seq(ToSet(l))

VARIABLES
    listing,        \* external: what the venue lists now
    listingVersion, \* how often it changed
    metadataCache,  \* NegRiskMetadataCache: the snapshots, the current one last
    refreshLock,    \* the caller that holds metadata_refresh_lock
    refreshOf       \* what each caller is doing

metadataVars == <<listing, listingVersion, metadataCache, refreshLock, refreshOf>>

NEG_RISK_PAGE_MAX_ATTEMPTS == 2

NoRefresh == [stage |-> "idle"]

---------------------------------------------------------------------------
(***************************************************************************)
(* Rows of a page                                                          *)
(***************************************************************************)

\* map_sdk_market: the SDK's market has no title of its own.
MapSdkMarket(m) == [m EXCEPT !.title = ""]

\* map_sdk_event.
MapSdkEvent(e) == [e EXCEPT !.markets = {MapSdkMarket(m) : m \in e.markets}]

IsBinaryOutcomeLabel(label) == label \in {"yes", "no"}

\* The first name that is not blank, binary or the title of the event.
OutcomeLabel(m, title) ==
    LET candidates == <<m.group, m.title, m.question>> \o m.outcomes
        named == SelectSeq(candidates,
                     LAMBDA c : c # "" /\ ~IsBinaryOutcomeLabel(c) /\ c # title)
    IN  IF named = <<>> THEN "" ELSE Head(named)

\* The first of the market's tokens is that of Yes.
YesTokenId(m) == IF m.tokens = <<>> THEN None ELSE Head(m.tokens)

ClassifyVariant(e) == IF e.enabled /\ e.augmented THEN "augmented" ELSE "standard"

IsNegRisk(e, m) == e.neg_risk \/ m.neg_risk

WellFormed(e, m) == e.id # None /\ m.condition # None /\ YesTokenId(m) # None

FamilyId(e) == IF e.parent # None THEN e.parent ELSE e.id

CanonicalNegRiskRow(e, m) ==
    LET label == OutcomeLabel(m, e.title)
    IN  [family |-> FamilyId(e), event |-> e.id, condition |-> m.condition,
         token |-> YesTokenId(m), label |-> label, variant |-> ClassifyVariant(e),
         placeholder |-> label \in {"", "placeholder"},
         other |-> m.other \/ label = "other"]

NegRiskMemberKey(row) == <<row.family, row.condition, row.token>>

\* Mutant: a malformed event ends the page.
PageRowsUntilMalformed(events) ==
    LET bad == {i \in DOMAIN events : events[i].id = None}
        kept == {i \in DOMAIN events : \A j \in bad : i < j}
    IN  UNION {{CanonicalNegRiskRow(events[i], m) :
                   m \in {x \in events[i].markets :
                             IsNegRisk(events[i], x) /\ WellFormed(events[i], x)}} : i \in kept}

\* The rows of the valid neg-risk markets of a page.
PageRows(events) ==
    UNION {{CanonicalNegRiskRow(e, m) :
               m \in {x \in e.markets : IsNegRisk(e, x) /\ WellFormed(e, x)}} : e \in ToSet(events)}

\* The page has an event without id or a neg-risk market without an id of its own.
SkipsRows(events) ==
    \E e \in ToSet(events) :
        e.id = None \/ \E m \in e.markets : IsNegRisk(e, m) /\ ~WellFormed(e, m)

\* Rows of one key that differ: whichever comes first, the discovery fails.
ConflictingDuplicateRow(rows) ==
    \E r, s \in rows : r # s /\ NegRiskMemberKey(r) = NegRiskMemberKey(s)

---------------------------------------------------------------------------
(***************************************************************************)
(* The refresh                                                             *)
(***************************************************************************)

MetadataInit ==
    /\ listing \in Listing
    /\ listingVersion = 0
    /\ metadataCache = <<>>
    /\ refreshLock = None
    /\ refreshOf = [c \in Caller |-> NoRefresh]

\* External: the venue lists other events, or the same in another order.
VenueListingChanges ==
    /\ listingVersion < MaxListings
    /\ listing' \in Listing \ {listing}
    /\ listingVersion' = listingVersion + 1
    /\ UNCHANGED <<metadataCache, refreshLock, refreshOf>>

Unfetched == [offset |-> 0, attempt |-> 1, rows |-> {}, skipped |-> FALSE]

\* A call waits for the lock.  With the metadata API its backend is the SDK,
\* otherwise the client's own REST calls; "fetch" falls back, "try" does not.
StartRefresh(c, backend, mode) ==
    /\ refreshOf[c] = NoRefresh
    /\ Len(metadataCache) < MaxRefreshes
    /\ refreshOf' = [refreshOf EXCEPT ![c] =
            [stage |-> "waiting", backend |-> backend, mode |-> mode, from |-> 0, read |-> Unfetched]]
    /\ UNCHANGED <<listing, listingVersion, metadataCache, refreshLock>>

\* Mutant: the refresh does not wait for the one under way.
AcquireRefreshLockFree(c) ==
    /\ refreshOf[c].stage = "waiting"
    /\ refreshLock' = c
    /\ refreshOf' = [refreshOf EXCEPT ![c].stage = "reading", ![c].from = listingVersion]
    /\ UNCHANGED <<listing, listingVersion, metadataCache>>

\* metadata_refresh_lock: held to the end of the refresh.
AcquireRefreshLock(c) ==
    /\ refreshOf[c].stage = "waiting"
    /\ refreshLock = None
    /\ refreshLock' = c
    /\ refreshOf' = [refreshOf EXCEPT ![c].stage = "reading", ![c].from = listingVersion]
    /\ UNCHANGED <<listing, listingVersion, metadataCache>>

\* The rows a call answers with on an error: those of the current snapshot for
\* a fetch that has one, and an error otherwise.
FallbackAnswer(c) ==
    IF refreshOf[c].mode = "fetch" /\ metadataCache # <<>>
    THEN Last(metadataCache) ELSE None

FailRefresh(c) ==
    /\ refreshOf' = [refreshOf EXCEPT ![c] = [stage |-> "answered", answer |-> FallbackAnswer(c)]]
    /\ refreshLock' = None
    /\ UNCHANGED metadataCache

\* The next revision: one more than the current snapshot's.
NextDiscoveryRevision ==
    IF metadataCache = <<>> THEN 1 ELSE Last(metadataCache).revision + 1

\* The snapshot replaces the current one, which goes to the history.  from and
\* to are the versions of the listing at its first and its last page.
PublishSnapshot(c, rows) ==
    LET snapshot == [revision |-> NextDiscoveryRevision, rows |-> rows,
                     from |-> refreshOf[c].from, to |-> listingVersion, listed |-> listing,
                     backend |-> refreshOf[c].backend]
    IN  /\ metadataCache' = Append(metadataCache, snapshot)
        /\ refreshOf' = [refreshOf EXCEPT ![c] = [stage |-> "answered", answer |-> snapshot]]
        /\ refreshLock' = None

\* The events at the offset, as many as a page holds.
PageAt(offset) == SubSeq(listing, offset + 1, Min({offset + PageLimit, Len(listing)}))

\* The end of the listing: rows, none because there are none, or an error
\* because none of those there were was valid.
FinishDiscovery(c) ==
    LET read == refreshOf[c].read
    IN  IF read.rows = {} /\ read.skipped THEN FailRefresh(c) ELSE PublishSnapshot(c, read.rows)

\* One page that arrived: its rows join those read before.
AbsorbPage(c, events) ==
    LET read == refreshOf[c].read
        rows == read.rows \cup PageRows(events)
    IN  IF ConflictingDuplicateRow(rows)
        THEN FailRefresh(c)
        ELSE /\ refreshOf' = [refreshOf EXCEPT ![c].read =
                    [offset |-> read.offset + PageLimit, attempt |-> 1, rows |-> rows,
                     skipped |-> read.skipped \/ SkipsRows(events)]]
             /\ UNCHANGED <<metadataCache, refreshLock>>

Reading(c, backend) == refreshOf[c].stage = "reading" /\ refreshOf[c].backend = backend

\* discover_neg_risk_metadata_rows_from_api: one turn of its loop.
DiscoverFromApi(c) ==
    /\ Reading(c, "sdk")
    /\ LET page == PageAt(refreshOf[c].read.offset)
       IN  IF page = <<>> THEN FinishDiscovery(c)
           ELSE AbsorbPage(c, [i \in DOMAIN page |-> MapSdkEvent(page[i])])
    /\ UNCHANGED <<listing, listingVersion>>

\* discover_neg_risk_metadata_rows: one turn of its loop.
DiscoverFromRest(c) ==
    /\ Reading(c, "rest")
    /\ LET page == PageAt(refreshOf[c].read.offset)
       IN  IF page = <<>> THEN FinishDiscovery(c) ELSE AbsorbPage(c, page)
    /\ UNCHANGED <<listing, listingVersion>>

\* What a page request may fail with.
PageErrors == {"connection", "early", "busy", "server", "refused"}

\* is_retryable_metadata_error of the REST client: 425, 429, 500 and others, no connection.
RetryableForRest(error) == error \in {"connection", "early", "busy", "server"}

\* is_retryable_metadata_error of the SDK's: 429 and the server's errors.
RetryableForSdk(error) == error \in {"busy", "server"}

\* The attempts of one page: an error is tried again, once, or ends the refresh.
PageFails(c, retryable) ==
    /\ IF retryable /\ refreshOf[c].read.attempt < NEG_RISK_PAGE_MAX_ATTEMPTS
       THEN /\ refreshOf' = [refreshOf EXCEPT ![c].read.attempt = @ + 1]
            /\ UNCHANGED <<metadataCache, refreshLock>>
       ELSE FailRefresh(c)
    /\ UNCHANGED <<listing, listingVersion>>

SdkPageFails(c) == Reading(c, "sdk") /\ \E e \in PageErrors : PageFails(c, RetryableForSdk(e))

RestPageFails(c) == Reading(c, "rest") /\ \E e \in PageErrors : PageFails(c, RetryableForRest(e))

\* The caller has its answer.
CallerReturns(c) ==
    /\ refreshOf[c].stage = "answered"
    /\ refreshOf' = [refreshOf EXCEPT ![c] = NoRefresh]
    /\ UNCHANGED <<listing, listingVersion, metadataCache, refreshLock>>

MetadataNext ==
    \/ VenueListingChanges
    \/ \E c \in Caller :
        \/ \E backend \in {"sdk", "rest"}, mode \in {"fetch", "try"} : StartRefresh(c, backend, mode)
        \/ AcquireRefreshLock(c)
        \/ DiscoverFromApi(c)
        \/ DiscoverFromRest(c)
        \/ SdkPageFails(c)
        \/ RestPageFails(c)
        \/ CallerReturns(c)

MetadataSpec == MetadataInit /\ [][MetadataNext]_metadataVars

---------------------------------------------------------------------------
(***************************************************************************)
(* Properties                                                              *)
(***************************************************************************)

\* Revisions are the order of the venue's listings: however the refreshes of
\* several callers interleave with each other and with the venue, a snapshot
\* of a later revision was read from no earlier listing than any page of the
\* one before it (refresh_neg_risk_metadata_from_api_inner and
\* try_fetch_neg_risk_metadata_rows, under the refresh lock).
RevisionsFollowListing ==
    \A i \in DOMAIN metadataCache :
        /\ metadataCache[i].revision = i
        /\ i > 1 => metadataCache[i - 1].to <= metadataCache[i].from

\* The events as the snapshot's backend delivers them.
Delivered(snapshot) ==
    LET events == snapshot.listed
    IN  [i \in DOMAIN events |->
            IF snapshot.backend = "sdk" THEN MapSdkEvent(events[i]) ELSE events[i]]

\* A snapshot has at most one row for a family's condition and token, and one
\* read while the venue's listing stood still has the row of every valid
\* neg-risk market of it, whatever malformed events lie between them
\* (discover_neg_risk_metadata_rows, its pages and its skips).
QuietSnapshotIsWhole ==
    \A i \in DOMAIN metadataCache :
        LET s == metadataCache[i]
        IN  /\ ~ConflictingDuplicateRow(s.rows)
            /\ s.from = s.to =>
                   s.rows = UNION {PageRows(<<Delivered(s)[j]>>) : j \in DOMAIN s.listed}
=============================================================================
