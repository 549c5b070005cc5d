---------------------------- MODULE ClusterSummary ----------------------------
(***************************************************************************)
(* useClusterSummary and the gauges it feeds (ClusterSummaryCards): node   *)
(* totals, usage and pod count, each known here by the cluster it was read *)
(* from.  The node list is reused for NODES_INTERVAL_MS; usage is asked    *)
(* only of a cluster that was not found to have none.                      *)
(***************************************************************************)
EXTENDS PollingLoop

CONSTANT NodesInterval   \* NODES_INTERVAL_MS

ASSUME NodesAssumption == NodesInterval \in 1..Horizon

VARIABLES
    data, available,
    cachedNodes,         \* None, or the cluster and Date.now() - cachedNodesAtMs
    metricsUsable        \* the cluster probed, and the verdict

summary == <<data, available, cachedNodes, metricsUsable>>

SummaryInit ==
    /\ data = None /\ available = TRUE /\ cachedNodes = None
    /\ metricsUsable = [of |-> None, yes |-> TRUE]

-----------------------------------------------------------------------------
wantNodes == cachedNodes = None \/ cachedNodes.age >= NodesInterval

(* refresh() up to its await: the calls this poll makes.                   *)
refresh(g) == [gen |-> g, ctx |-> active,
               nodes |-> wantNodes, usage |-> metricsUsable.yes]

(* start(): mounted, or a cluster with a session switched to.              *)
SummaryMount ==
    /\ ~mounted /\ isAuthenticated /\ mounted' = TRUE
    /\ data' = None /\ available' = TRUE /\ cachedNodes' = None
    /\ metricsUsable' = [of |-> None, yes |-> TRUE]
    /\ startGated(active)
    /\ UNCHANGED <<hidden, active, sessions, pref>>

SlipSwitchSummary(c) ==
    /\ c # active /\ active' = c
    /\ IF c \in sessions /\ mounted THEN startGated(c) ELSE stop
    /\ data' = None
    /\ UNCHANGED <<mounted, hidden, sessions, pref, available, metricsUsable, cachedNodes>>

(* The context watch: the snapshot and the node totals die with their      *)
(* cluster; polling resumes only where there is a session.                 *)
SwitchSummary(c) ==
    /\ c # active /\ active' = c
    /\ IF c \in sessions /\ mounted THEN startGated(c) ELSE stop
    /\ data' = None /\ cachedNodes' = None
    /\ UNCHANGED <<mounted, hidden, sessions, pref, available, metricsUsable>>

(* probeMetrics() resumed: a failed probe is no verdict; either way the    *)
(* other two gauges are polled.                                            *)
SummaryProbed(p, verdict) ==
    /\ probes' = probes \ {p}
    /\ IF p.gate # gateGen
       THEN UNCHANGED <<gen, live, timer, sinceTick, polls, newest, gateGen, metricsUsable>>
       ELSE /\ metricsUsable' = [of |-> p.ctx, yes |-> verdict # "absent"]
            /\ begin(p.gen, [refresh(p.gen) EXCEPT !.usage = verdict # "absent"])
            /\ UNCHANGED gateGen
    /\ UNCHANGED <<page, data, available, cachedNodes>>

(* What the gauges keep of a node list.                                    *)
nodeTotals(ctx, requested) == [of |-> ctx, age |-> requested]

(* refresh() resumed, the three calls settled.                             *)
Refreshed(i, nodesOk, usageOk, podsOk) ==
    LET p == polls[i]
        totals == IF p.nodes THEN nodeTotals(p.ctx, sinceTick) ELSE cachedNodes
    IN /\ schedule(i)
       /\ CASE newest # i -> UNCHANGED summary
            [] newest = i /\ p.nodes /\ ~nodesOk ->
                 available' = FALSE /\ UNCHANGED <<data, cachedNodes, metricsUsable>>
            [] OTHER ->
                 /\ cachedNodes' = totals
                 /\ available' = (p.nodes \/ available)
                 /\ data' = [nodes |-> totals.of,
                             usage |-> IF p.usage /\ usageOk THEN p.ctx ELSE None,
                             pods |-> IF podsOk THEN p.ctx ELSE None]
                 /\ UNCHANGED metricsUsable
       /\ UNCHANGED page

SummaryUnmount ==
    /\ mounted /\ mounted' = FALSE /\ stop
    /\ UNCHANGED <<hidden, active, sessions, pref, summary>>

SummaryElapse ==
    /\ Elapse
    /\ cachedNodes' = IF cachedNodes = None THEN None
                      ELSE [cachedNodes EXCEPT !.age = Later(@)]
    /\ UNCHANGED <<data, available, metricsUsable>>

SummaryTimer == TimerFires(refresh(gen)) /\ UNCHANGED summary
SummarySettles ==
    \E i \in DOMAIN polls, n, u, c \in BOOLEAN : Refreshed(i, n, u, c)

SummaryNext ==
    \/ SummaryMount \/ SummaryUnmount
    \/ \E c \in Contexts : SwitchSummary(c)
    \/ \E p \in probes, v \in {"available", "absent", "failed"} : SummaryProbed(p, v)
    \/ SummarySettles \/ SummaryTimer
    \/ TabShown(refresh(gen)) /\ UNCHANGED summary
    \/ TabHidden /\ UNCHANGED summary
    \/ \E p \in Prefs : ChoosePref(p) /\ UNCHANGED summary
    \/ \E c \in Contexts : Login(c) /\ UNCHANGED summary
    \/ \E c \in Contexts : EndSession(c) /\ UNCHANGED <<loop, summary>>
    \/ SummaryElapse

-----------------------------------------------------------------------------
(* The row of gauges: hidden without node access and before any data.      *)
cards == IF available /\ data # None THEN data ELSE None

(* The gauges never mix clusters: totals, usage and pod count shown side   *)
(* by side were all read from the active one, and the node totals kept for *)
(* reuse and the verdict a live loop polls by are its own too.             *)
SummaryOfOneCluster ==
    /\ cards # None => {cards.nodes, cards.usage, cards.pods} \subseteq {active, None}
    /\ cachedNodes # None => cachedNodes.of = active
    /\ live => metricsUsable.of \in {None, active}
=============================================================================
