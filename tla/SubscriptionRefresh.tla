------------------------- MODULE SubscriptionRefresh -------------------------
(***************************************************************************)
(* The panel's subscriptions and their refresh: c/src/subscription_        *)
(* service.c, the subscription functions of c/src/store.c, the routes of   *)
(* c/src/http_routes_proxy.c and the download of subscription_fetcher.c.   *)
(* What a refresh does to the nodes is module ProxyInventory; here a       *)
(* subscription only remembers from which URL its nodes came.  Times are   *)
(* kept as the time left until next_refresh_at.                            *)
(***************************************************************************)
EXTENDS Integers, FiniteSets

CONSTANTS Feeds,            \* the subscriptions that are followed
          Urls,
          RefreshWait,      \* max(60, refresh_interval)
          FailureLimit,     \* failures are counted up to this
          MaxDelay,         \* the longest delay after a failure
          FeedEdits,        \* bound on edits
          FeedRequests      \* bound on explicit refreshes

ASSUME RefreshAssumption ==
    {RefreshWait, FailureLimit, MaxDelay, FeedEdits, FeedRequests} \subseteq Nat \ {0}

VARIABLES feeds,        \* the subscriptions table
          sweeper,      \* the refresh worker
          asker,        \* a request thread that refreshes one subscription
          mutex,        \* refresh_mutex
          service,      \* running, stopping or stopped
          feedBudget    \* edits and requests so far

feedVars == <<feeds, sweeper, asker, mutex, service, feedBudget>>

Other == "another"                      \* a subscription that is not followed
NoUrl == 0

Gone == [present |-> FALSE, url |-> NoUrl, enabled |-> FALSE, wait |-> 0, failures |-> 0, from |-> NoUrl]
AtRest == [at |-> "rest", left |-> {}, feed |-> Other, copy |-> Gone, age |-> 0]

FeedInit ==
    /\ feeds = [f \in Feeds |-> Gone]
    /\ sweeper = AtRest /\ asker = AtRest
    /\ mutex = "free" /\ service = "running" /\ feedBudget = [edits |-> 0, requests |-> 0]

Soonest(a, b) == IF a > b THEN a - b ELSE 0
Longest == IF RefreshWait > MaxDelay THEN RefreshWait ELSE MaxDelay

\* Seconds pass.
FeedTick ==
    /\ \/ \E f \in Feeds : feeds[f].wait > 0
       \/ \E p \in {sweeper, asker} : p.at = "fetch" /\ p.age < Longest
    /\ feeds' = [f \in Feeds |-> [feeds[f] EXCEPT !.wait = Soonest(@, 1)]]
    /\ sweeper' = [sweeper EXCEPT !.age = IF sweeper.at # "rest" /\ @ < Longest THEN @ + 1 ELSE @]
    /\ asker' = [asker EXCEPT !.age = IF asker.at # "rest" /\ @ < Longest THEN @ + 1 ELSE @]
    /\ UNCHANGED <<mutex, service, feedBudget>>
-----------------------------------------------------------------------------
(***************************************************************************)
(* Edits.  next_refresh_at is zero when the URL or enabled changes.        *)
(***************************************************************************)
EditFeed(f) ==
    /\ feedBudget.edits < FeedEdits /\ feedBudget' = [feedBudget EXCEPT !.edits = @ + 1]
    /\ IF feeds[f].present
       THEN \/ feeds' = [feeds EXCEPT ![f] = Gone]
            \/ \E u \in Urls \ {feeds[f].url} : feeds' = [feeds EXCEPT ![f].url = u, ![f].wait = 0]
            \/ feeds' = [feeds EXCEPT ![f].enabled = ~@, ![f].wait = 0]
       ELSE \E u \in Urls : feeds' = [feeds EXCEPT ![f] = [Gone EXCEPT !.present = TRUE, !.url = u, !.enabled = TRUE]]
    /\ UNCHANGED <<sweeper, asker, mutex, service>>
-----------------------------------------------------------------------------
(***************************************************************************)
(* fetch_locked: the subscription is read, its URL downloaded, the answer  *)
(* applied; p is the thread's state before, its successor is the result.   *)
(***************************************************************************)
StillThere(f, copy) == feeds[f].present
Unchanged(f, copy) == feeds[f].present /\ feeds[f].url = copy.url /\ feeds[f].enabled = copy.enabled

Delay(failures) ==
    IF failures > 6 \/ 2^(failures - 1) > MaxDelay THEN MaxDelay ELSE 2^(failures - 1)

\* sb_store_apply_subscription_fetch.
Applied(p) ==
    [feeds[p.feed] EXCEPT !.from = p.copy.url, !.failures = 0, !.wait = Soonest(RefreshWait, p.age)]

\* sb_store_record_subscription_failure.
Failed(p) ==
    LET failures == IF feeds[p.feed].failures < FailureLimit THEN feeds[p.feed].failures + 1 ELSE FailureLimit
    IN  [feeds[p.feed] EXCEPT !.failures = failures, !.wait = Soonest(Delay(failures), p.age)]

\* How a download ends: an answer that is applied, or a failure of the download
\* (a status, a redirect or size limit, the deadline), of the parser or the store.
Outcomes(p) ==
    IF p.feed = Other \/ ~Unchanged(p.feed, p.copy) THEN {feeds}
    ELSE {[feeds EXCEPT ![p.feed] = Applied(p)], [feeds EXCEPT ![p.feed] = Failed(p)]}
-----------------------------------------------------------------------------
(***************************************************************************)
(* refresh_worker and sb_subscription_service_refresh_due.                 *)
(***************************************************************************)
Due(f) == feeds[f].present /\ feeds[f].enabled /\ feeds[f].wait = 0

\* The sweep lists the subscriptions; age counts from the time it took as now.
SweepBegins ==
    /\ service = "running" /\ sweeper.at = "rest"
    /\ sweeper' = [AtRest EXCEPT !.at = "sweep", !.left = {f \in Feeds : Due(f)}]
    /\ UNCHANGED <<feeds, asker, mutex, service, feedBudget>>

\* The sweep ends: nothing is left, the service stops, or the mutex is taken.
SweepEnds ==
    /\ sweeper.at = "sweep" /\ (sweeper.left = {} \/ service # "running" \/ mutex # "free")
    /\ sweeper' = AtRest
    /\ UNCHANGED <<feeds, asker, mutex, service, feedBudget>>

\* fetch_locked(only_due) reads the subscription again and may find nothing to do.
SweepSkips(f) ==
    /\ sweeper.at = "sweep" /\ f \in sweeper.left /\ service = "running" /\ mutex = "free" /\ ~Due(f)
    /\ sweeper' = [sweeper EXCEPT !.left = @ \ {f}]
    /\ UNCHANGED <<feeds, asker, mutex, service, feedBudget>>

SweepFetches(f) ==
    /\ sweeper.at = "sweep" /\ f \in sweeper.left /\ service = "running" /\ mutex = "free" /\ Due(f)
    /\ mutex' = "sweeper"
    /\ sweeper' = [sweeper EXCEPT !.at = "fetch", !.left = @ \ {f}, !.feed = f, !.copy = feeds[f]]
    /\ UNCHANGED <<feeds, asker, service, feedBudget>>

SweepFetched ==
    /\ sweeper.at = "fetch"
    /\ feeds' \in Outcomes(sweeper)
    /\ sweeper' = [sweeper EXCEPT !.at = "sweep", !.feed = Other, !.copy = Gone]
    /\ mutex' = "free"
    /\ UNCHANGED <<asker, service, feedBudget>>

\* sb_subscription_service_stop, and the worker that leaves its loop.
StopService == service = "running" /\ service' = "stopping" /\ UNCHANGED <<feeds, sweeper, asker, mutex, feedBudget>>
WorkerLeaves ==
    /\ service = "stopping" /\ sweeper.at = "rest" /\ service' = "stopped"
    /\ UNCHANGED <<feeds, sweeper, asker, mutex, feedBudget>>
-----------------------------------------------------------------------------
(***************************************************************************)
(* h_subscription_fetch and h_subscriptions_fetch_all.                     *)
(***************************************************************************)
AskFetch(f) ==
    /\ asker.at = "rest" /\ feedBudget.requests < FeedRequests
    /\ feedBudget' = [feedBudget EXCEPT !.requests = @ + 1]
    /\ asker' = [AtRest EXCEPT !.at = "ask", !.feed = f]
    /\ UNCHANGED <<feeds, sweeper, mutex, service>>

\* The mutex is taken and the subscription read; it may be gone.
AskedFetches ==
    /\ asker.at = "ask" /\ mutex = "free"
    /\ IF asker.feed = Other \/ (asker.feed # Other /\ feeds[asker.feed].present)
       THEN /\ mutex' = "asker"
            /\ asker' = [asker EXCEPT !.at = "fetch", !.age = 0,
                                      !.copy = IF asker.feed = Other THEN Gone ELSE feeds[asker.feed]]
       ELSE asker' = AtRest /\ UNCHANGED mutex
    /\ UNCHANGED <<feeds, sweeper, service, feedBudget>>

AskedFetched ==
    /\ asker.at = "fetch"
    /\ feeds' \in Outcomes(asker)
    /\ asker' = AtRest /\ mutex' = "free"
    /\ UNCHANGED <<sweeper, service, feedBudget>>
-----------------------------------------------------------------------------
Sweeping ==
    \/ SweepBegins \/ SweepEnds \/ SweepFetched \/ WorkerLeaves
    \/ \E f \in Feeds : SweepSkips(f) \/ SweepFetches(f)

FeedNext ==
    \/ FeedTick \/ StopService \/ Sweeping
    \/ \E f \in Feeds : EditFeed(f)
    \/ \E f \in Feeds \cup {Other} : AskFetch(f)
    \/ AskedFetches \/ AskedFetched

\* The worker's thread runs, the clock advances and every download has a deadline.
FeedFairness == WF_feedVars(Sweeping) /\ WF_feedVars(FeedTick) /\ WF_feedVars(AskedFetched)

FeedSpec == FeedInit /\ [][FeedNext]_feedVars /\ FeedFairness
-----------------------------------------------------------------------------
(***************************************************************************)
(* Properties.                                                             *)
(***************************************************************************)
\* "A slow response from an edited/deleted source must never replace its nodes"
\* (subscription_unchanged): nodes only ever come from the URL that is configured
\* when they are stored.
OnlyCurrentSource ==
    [][\A f \in Feeds : (feeds'[f].from # feeds[f].from /\ feeds'[f].present) => feeds'[f].from = feeds[f].url]_feedVars

=============================================================================
