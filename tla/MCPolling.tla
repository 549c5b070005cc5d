------------------------------- MODULE MCPolling ------------------------------
(* The consumers of the polling loop share nothing but the page, so a      *)
(* behaviour is one consumer's: the gauges, the charts, or either list.    *)
EXTENDS ClusterSummary, MetricsCharts, OverviewCards

VARIABLE consumer

vars == <<consumer, page, loop, summary, charts, cardVars>>

Init ==
    /\ consumer \in {"gauges", "charts", "problems", "events"}
    /\ LoopInit /\ SummaryInit /\ ChartsInit /\ CardsInit

Gauges(A) == consumer = "gauges" /\ A /\ UNCHANGED <<consumer, charts, cardVars>>
Charts(A) == consumer = "charts" /\ A /\ UNCHANGED <<consumer, summary, cardVars>>
Problems(A) == consumer = "problems" /\ A /\ UNCHANGED <<consumer, summary, charts>>
Events(A) == consumer = "events" /\ A /\ UNCHANGED <<consumer, summary, charts>>

Next ==
    \/ Gauges(SummaryNext) \/ Charts(ChartsNext)
    \/ Problems(ProblemsNext) \/ Events(EventsNext)

(* Clocks advance, timers fire, and a browser request settles one way or   *)
(* the other.                                                              *)
Fairness ==
    /\ WF_vars(Gauges(SummaryElapse) \/ Charts(ChartsElapse) \/ Problems(ProblemsElapse))
    /\ WF_vars(Gauges(SummaryTimer) \/ Charts(ChartsTimer) \/ Problems(ProblemsTimer))
    /\ WF_vars(Gauges(SummarySettles) \/ Charts(ChartsSettles) \/ Problems(ProblemsSettles))

(* The Overview shows one cluster: its gauges never mix clusters, its      *)
(* lists hold the active cluster's rows only, and a "Loading..." stands    *)
(* for a request that will clear it.                                       *)
OverviewTruthful == SummaryOfOneCluster /\ CardsOfOneCluster /\ SpinnersEnd

Spec == Init /\ [][Next]_vars /\ Fairness
=============================================================================
