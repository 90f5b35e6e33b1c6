------------------------------ MODULE Catalog ------------------------------
(***************************************************************************)
(* The catalog cache of one panel process: callers of get_catalog, the one *)
(* background fetch that they start or wait for, its event, the age of the *)
(* copy and the backoff after a failure.  Ages are "fresh" or "stale", and *)
(* a wait ends at any time, as its budget does.                            *)
(***************************************************************************)
EXTENDS Integers, FiniteSets

CONSTANTS
  Callers,    \* panel threads that render a page
  MaxFetches  \* bound: fetch threads and their events at a time

ASSUME CatalogConstants ==
  /\ IsFiniteSet(Callers) /\ MaxFetches \in Nat \ {0}

Fetches == 1..MaxFetches
NoFetch == 0

VARIABLES
  catalog,     \* _catalog_cache: "none", "fresh" or "stale"
  backoff,     \* failed_at is less than CATALOG_FAILURE_BACKOFF ago
  refreshing,  \* _catalog_refreshing
  done,        \* _catalog_done: the fetch whose event it is
  fetch,       \* what each fetch thread is doing; "ended": its event is set
  lockedBy,    \* _catalog_lock
  asking,      \* get_catalog of each caller
  everFilled   \* history: a catalog was stored

catalogVars == <<catalog, backoff, refreshing, done, fetch, lockedBy, asking, everFilled>>

FetchSteps == {"absent", "started", "fetching", "stored", "failed", "bailed", "lowered", "ended"}
UnderWay == {"started", "fetching", "stored", "failed", "bailed"}
AskSteps == {"idle", "stale", "cold", "waiting", "woken", "served", "refused"}

\* A flag that is up has a thread that will take it down, and the event that
\* is handed out is the event of that thread.
CatalogTypeOK ==
  /\ catalog \in {"none", "fresh", "stale"} /\ backoff \in BOOLEAN
  /\ refreshing \in BOOLEAN /\ done \in Fetches \cup {NoFetch}
  /\ fetch \in [Fetches -> FetchSteps] /\ lockedBy \in Fetches \cup {NoFetch}
  /\ asking \in [Callers -> [step : AskSteps, on : Fetches \cup {NoFetch}]]
  /\ everFilled \in BOOLEAN
  /\ refreshing <=> \E f \in Fetches : fetch[f] \in UnderWay
  /\ refreshing => done # NoFetch /\ fetch[done] \in UnderWay

NotAsking == [step |-> "idle", on |-> NoFetch]
CatalogInit ==
  /\ catalog = "none" /\ backoff = FALSE /\ refreshing = FALSE /\ done = NoFetch
  /\ fetch = [f \in Fetches |-> "absent"] /\ lockedBy = NoFetch
  /\ asking = [c \in Callers |-> NotAsking] /\ everFilled = FALSE

-----------------------------------------------------------------------------
(* Callers *)

AskGoes(c, step) == asking' = [asking EXCEPT ![c].step = step]
CacheKept == UNCHANGED <<catalog, backoff, everFilled>>
FetchKept == UNCHANGED <<refreshing, done, fetch, lockedBy>>

Asks(c) ==
  /\ asking[c].step = "idle"
  /\ AskGoes(c, CASE catalog = "fresh" -> "served"
                  [] catalog = "stale" -> "stale"
                  [] catalog = "none" -> IF backoff THEN "refused" ELSE "cold")
  /\ CacheKept /\ FetchKept

\* A stale copy is served at once, a caller without one waits.
Resumes(c) == IF asking[c].step = "stale" THEN "served" ELSE "waiting"

\* _refresh_catalog_soon in the backoff: nothing to wait for.
AskBacksOff(c) ==
  /\ asking[c].step \in {"stale", "cold"} /\ backoff
  /\ AskGoes(c, IF asking[c].step = "stale" THEN "served" ELSE "woken")
  /\ CacheKept /\ FetchKept
\* Another caller has started the fetch: its event is waited for.
AskJoins(c) ==
  /\ asking[c].step \in {"stale", "cold"} /\ ~backoff /\ refreshing
  /\ asking' = [asking EXCEPT ![c] = [step |-> Resumes(c), on |-> done]]
  /\ CacheKept /\ FetchKept

Unused == {f \in Fetches : fetch[f] \in {"absent", "ended"}
                           /\ \A c \in Callers : asking[c].on # f}
\* Mutant: the flag is left as it is.
AskStartsUnflagged(c) ==
  /\ asking[c].step \in {"stale", "cold"} /\ ~backoff /\ ~refreshing
  /\ \E f \in Unused :
       /\ done' = f /\ fetch' = [fetch EXCEPT ![f] = "started"]
       /\ asking' = [asking EXCEPT ![c] = [step |-> Resumes(c), on |-> f]]
  /\ CacheKept /\ UNCHANGED <<refreshing, lockedBy>>
AskStarts(c) ==
  /\ asking[c].step \in {"stale", "cold"} /\ ~backoff /\ ~refreshing
  /\ \E f \in Unused :
       /\ refreshing' = TRUE /\ done' = f /\ fetch' = [fetch EXCEPT ![f] = "started"]
       /\ asking' = [asking EXCEPT ![c] = [step |-> Resumes(c), on |-> f]]
  /\ CacheKept /\ UNCHANGED lockedBy
\* The process is out of threads: the flag goes down again.
AskStartFails(c) ==
  /\ asking[c].step \in {"stale", "cold"} /\ ~backoff /\ ~refreshing
  /\ AskGoes(c, IF asking[c].step = "stale" THEN "served" ELSE "woken")
  /\ done' = NoFetch
  /\ CacheKept /\ UNCHANGED <<refreshing, fetch, lockedBy>>

\* The event is set, or the budget is used up.
AskWakes(c) ==
  /\ asking[c].step = "waiting"
  /\ AskGoes(c, "woken")
  /\ CacheKept /\ FetchKept

\* The cache is read again, whatever the wait was worth.
AskAnswers(c) ==
  /\ asking[c].step = "woken"
  /\ AskGoes(c, IF catalog = "none" THEN "refused" ELSE "served")
  /\ CacheKept /\ FetchKept

AskEnds(c) ==
  /\ asking[c].step \in {"served", "refused"}
  /\ asking' = [asking EXCEPT ![c] = NotAsking]
  /\ CacheKept /\ FetchKept

-----------------------------------------------------------------------------
(* The fetch *)

FetchGoes(f, step) == fetch' = [fetch EXCEPT ![f] = step]

\* The lock is tried and not waited for.
FetchLocks(f) ==
  /\ fetch[f] = "started"
  /\ IF lockedBy = NoFetch
     THEN lockedBy' = f /\ FetchGoes(f, "fetching")
     ELSE FetchGoes(f, "bailed") /\ UNCHANGED lockedBy
  /\ CacheKept /\ UNCHANGED <<refreshing, done, asking>>

FetchStores(f) ==
  /\ fetch[f] = "fetching"
  /\ catalog' = "fresh" /\ backoff' = FALSE /\ everFilled' = TRUE
  /\ FetchGoes(f, "stored") /\ lockedBy' = NoFetch
  /\ UNCHANGED <<refreshing, done, asking>>
\* A stale copy outlives the failure.
FetchFails(f) ==
  /\ fetch[f] = "fetching"
  /\ backoff' = TRUE
  /\ FetchGoes(f, "failed") /\ lockedBy' = NoFetch
  /\ UNCHANGED <<catalog, everFilled, refreshing, done, asking>>

\* Mutant: only a fetch that stored a copy takes the flag down.
FetchLowersStored(f) ==
  /\ fetch[f] \in {"stored", "failed", "bailed"}
  /\ refreshing' = (fetch[f] # "stored") /\ done' = IF done = f THEN NoFetch ELSE done
  /\ FetchGoes(f, "lowered")
  /\ CacheKept /\ UNCHANGED <<lockedBy, asking>>
\* The finally of the thread: the flag, and then the event.
FetchLowers(f) ==
  /\ fetch[f] \in {"stored", "failed", "bailed"}
  /\ refreshing' = FALSE /\ done' = IF done = f THEN NoFetch ELSE done
  /\ FetchGoes(f, "lowered")
  /\ CacheKept /\ UNCHANGED <<lockedBy, asking>>
FetchEnds(f) ==
  /\ fetch[f] = "lowered"
  /\ FetchGoes(f, "ended")
  /\ CacheKept /\ UNCHANGED <<refreshing, done, lockedBy, asking>>

-----------------------------------------------------------------------------
(* Time *)

CatalogAges ==
  /\ catalog = "fresh" /\ catalog' = "stale"
  /\ UNCHANGED <<backoff, everFilled, asking>> /\ FetchKept
BackoffEnds ==
  /\ backoff /\ backoff' = FALSE
  /\ UNCHANGED <<catalog, everFilled, asking>> /\ FetchKept

-----------------------------------------------------------------------------
AskGoesOn(c) ==
  \/ Asks(c) \/ AskBacksOff(c) \/ AskJoins(c) \/ AskWakes(c) \/ AskAnswers(c) \/ AskEnds(c)
FetchGoesOn(f) ==
  FetchLocks(f) \/ FetchStores(f) \/ FetchFails(f) \/ FetchLowers(f) \/ FetchEnds(f)

CatalogNext ==
  \/ \E c \in Callers : AskGoesOn(c) \/ AskStarts(c) \/ AskStartFails(c)
  \/ \E f \in Fetches : FetchGoesOn(f)
  \/ CatalogAges \/ BackoffEnds

CatalogSpec == CatalogInit /\ [][CatalogNext]_catalogVars

\* Pages are asked for again and again, threads go on and backoffs end; the
\* process has a thread again, and the node answers, some time.
CatalogFairness ==
  /\ \A c \in Callers : WF_catalogVars(AskGoesOn(c)) /\ SF_catalogVars(AskStarts(c))
  /\ \A f \in Fetches : WF_catalogVars(FetchGoesOn(f)) /\ SF_catalogVars(FetchStores(f))
  /\ WF_catalogVars(BackoffEnds)
FairCatalogSpec == CatalogSpec /\ CatalogFairness

-----------------------------------------------------------------------------
(* Properties *)

\* No fetch ever finds the lock taken: the flag alone keeps fetches apart, since
\* it is taken down only when the lock is free (_refresh_catalog_soon).
NoBail == \A f \in Fetches : fetch[f] # "bailed"

\* A stale copy is replaced while pages are asked for, whatever fetches and
\* thread starts failed before: no exit leaves the flag up (_refresh_catalog).
CatalogRefreshes == catalog = "stale" ~> catalog = "fresh"
=============================================================================
