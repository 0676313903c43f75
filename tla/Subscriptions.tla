--------------------------- MODULE Subscriptions ---------------------------
(***************************************************************************)
(* The live-query services side by side: the invalidation check on every   *)
(* query and change of a family, change emission, the sync hub, the        *)
(* subscription manager and the FoundationDB watches.  They share no       *)
(* state, so `service` says which one a behaviour is about.                *)
(***************************************************************************)
EXTENDS SyncHub, ChangeEmission, SubscriptionManager, FdbWatches

CONSTANTS
    QueryFamily       \* the queries on which the check is examined

VARIABLES service, probe

svars == <<service, probe, hubvars, evars, mvars, wvars>>

NoProbe == [query |-> NoType, change |-> NoType]

Probes == [query : QueryFamily, change : Changes]

SubscriptionsInit ==
    /\ service \in {"check", "hub", "emission", "manager", "watches"}
    /\ probe \in IF service = "check" THEN Probes ELSE {NoProbe}
    /\ HubInit /\ EmissionInit /\ ManagerInit /\ WatchInit

HubOnly == service = "hub" /\ UNCHANGED <<service, probe, evars, mvars, wvars>>

EmissionOnly == service = "emission" /\ UNCHANGED <<service, probe, hubvars, mvars, wvars>>

ManagerOnly == service = "manager" /\ UNCHANGED <<service, probe, hubvars, evars, wvars>>

WatchesOnly == service = "watches" /\ UNCHANGED <<service, probe, hubvars, evars, mvars>>

SubscriptionsNext ==
    \/ HubOnly /\ HubNext
    \/ EmissionOnly /\ EmissionNext
    \/ ManagerOnly /\ ManagerNext
    \/ WatchesOnly /\ WatchNext

\* A timer that is set fires; the watch loops of a live process go on.
Fairness ==
    /\ \A d \in Databases : WF_svars(HubOnly /\ Flush(d))
    /\ \A k \in Keys : WF_svars(WatchesOnly /\ LoopStep(k))
    /\ WF_svars(WatchesOnly /\ Debounced)

SubscriptionsSpec == SubscriptionsInit /\ [][SubscriptionsNext]_svars /\ Fairness

-----------------------------------------------------------------------------

\* For a query whose dependencies are complete, a change it reads is never
\* filtered out, and neither the topic tree nor the watched keys hide it.
InvalidationSound ==
    service = "check" /\ Uniform(probe.query) =>
        NoFalseNegative(probe.query, probe.change) /\ NarrowingSafe(probe.query, probe.change)

=============================================================================
