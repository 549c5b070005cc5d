----------------------------- MODULE OverviewCards ----------------------------
(***************************************************************************)
(* The Overview's two lists: ProblemPodsCard, a cluster-wide pod walk on a *)
(* polling loop whose match count the page relays to the Pods gauge, and   *)
(* RecentEventsCard, a load guarded by its own counter.  Rows are known by *)
(* the cluster (and namespace) they were read from; the interval of the    *)
(* scan's loop is the constant pref this consumer starts with.             *)
(***************************************************************************)
EXTENDS PollingLoop

CONSTANT Namespaces

VARIABLES
    rows, problemPods,     \* the clusters walked, as listed and as counted
    loading, errorText,
    namespace,             \* ui.namespace
    loads,                 \* event loads in flight; newest: its id is loadId
    allRows, eventsLoading, eventsError

problems == <<rows, problemPods, loading, errorText>>
events == <<namespace, loads, allRows, eventsLoading, eventsError>>
cardVars == <<problems, events>>

CardsInit ==
    /\ rows = None /\ problemPods = None /\ loading = FALSE /\ errorText = FALSE
    /\ namespace = None /\ loads = {}
    /\ allRows = None /\ eventsLoading = FALSE /\ eventsError = FALSE

-----------------------------------------------------------------------------
(* tick(): one walk of every pod, which asks page after page, each of the  *)
(* cluster active by then.                                                 *)
scan(g) == [gen |-> g, from |-> {active}]

current(i) == isCurrent(polls[i].gen) /\ newest = i

(* loop.start() without a gate: the new generation polls at once, or, in a *)
(* hidden tab, arms its timer.                                             *)
rescan(c) ==
    /\ gen + 2 <= MaxGen /\ begin(gen + 2, [gen |-> gen + 2, from |-> {c}])
    /\ gateGen' = gateGen + 2 /\ UNCHANGED probes

rescanFor(c) ==
    IF ~hidden THEN rescan(c)
    ELSE /\ gen + 2 <= MaxGen /\ beginHidden(gen + 2)
         /\ gateGen' = gateGen + 2 /\ UNCHANGED probes

NextPage(i) ==
    /\ polls' = [polls EXCEPT ![i].from = @ \cup {active}]
    /\ UNCHANGED <<page, gen, live, timer, sinceTick, newest, probes, gateGen, cardVars>>

(* The walk landed: the problem pods, worst first, and their count.        *)
Scanned(i) ==
    /\ schedule(i)
    /\ IF current(i)
       THEN /\ rows' = polls[i].from /\ problemPods' = polls[i].from
            /\ errorText' = FALSE /\ loading' = FALSE
       ELSE UNCHANGED problems
    /\ UNCHANGED <<page, events>>

(* It failed; a 403 hides the card, and neither keeps an old count.        *)
ScanFailed(i, forbidden) ==
    /\ schedule(i)
    /\ IF current(i)
       THEN /\ rows' = None /\ problemPods' = None
            /\ errorText' = ~forbidden /\ loading' = FALSE
       ELSE UNCHANGED problems
    /\ UNCHANGED <<page, events>>

visible == rows # None \/ errorText

(* The Refresh button, which an unlisted card and a running scan disable.  *)
Refresh ==
    /\ mounted /\ ~hidden /\ visible /\ ~loading
    /\ rescan(active) /\ loading' = TRUE
    /\ UNCHANGED <<page, rows, problemPods, errorText, events>>

(* The context watch: nothing is known about the new cluster yet.          *)
SwitchProblems(c) ==
    /\ c # active /\ active' = c
    /\ rows' = None /\ problemPods' = None /\ errorText' = FALSE
    /\ \/ /\ mounted /\ c \in sessions
          /\ rescanFor(c) /\ loading' = ~hidden
       \/ /\ ~(mounted /\ c \in sessions)
          /\ stop /\ loading' = FALSE
    /\ UNCHANGED <<mounted, hidden, sessions, pref, events>>

ProblemsMount ==
    /\ ~mounted /\ isAuthenticated /\ mounted' = TRUE
    /\ rows' = None /\ problemPods' = None /\ errorText' = FALSE
    /\ rescanFor(active) /\ loading' = ~hidden
    /\ UNCHANGED <<hidden, active, sessions, pref, events>>

ProblemsUnmount ==
    /\ mounted /\ mounted' = FALSE /\ stop /\ loading' = FALSE
    /\ UNCHANGED <<hidden, active, sessions, pref, rows, problemPods, errorText, events>>

(* The timer and the returning tab, whose poll, if any, shows the spinner. *)
Polled(act) ==
    /\ act /\ loading' = (loading \/ newest' # newest)
    /\ UNCHANGED <<rows, problemPods, errorText, events>>

ProblemsTimer == Polled(TimerFires(scan(gen)))
ProblemsElapse == Elapse /\ UNCHANGED cardVars
ProblemsSettles ==
    \E i \in DOMAIN polls : Scanned(i) \/ \E f \in BOOLEAN : ScanFailed(i, f)

ProblemsNext ==
    \/ ProblemsMount \/ ProblemsUnmount \/ Refresh
    \/ \E c \in Contexts : SwitchProblems(c)
    \/ \E i \in DOMAIN polls : NextPage(i)
    \/ ProblemsSettles \/ ProblemsTimer \/ ProblemsElapse
    \/ Polled(TabShown(scan(gen)))
    \/ TabHidden /\ UNCHANGED cardVars
    \/ \E c \in Contexts : Login(c) /\ UNCHANGED cardVars
    \/ \E c \in Contexts : EndSession(c) /\ UNCHANGED <<loop, cardVars>>

-----------------------------------------------------------------------------
(* RecentEventsCard.                                                       *)
outdated == {[l EXCEPT !.newest = FALSE] : l \in loads}

load(c, n) ==
    /\ loads' = outdated \cup {[ctx |-> c, ns |-> n, newest |-> TRUE]}
    /\ eventsLoading' = TRUE /\ eventsError' = FALSE

EventsMount ==
    /\ ~mounted /\ isAuthenticated /\ mounted' = TRUE
    /\ load(active, namespace) /\ allRows' = None
    /\ UNCHANGED <<hidden, active, sessions, pref, loop, namespace, problems>>

EventsUnmount ==
    /\ mounted /\ mounted' = FALSE
    /\ loads' = {} /\ eventsLoading' = FALSE
    /\ UNCHANGED <<hidden, active, sessions, pref, loop, namespace, allRows, eventsError, problems>>

(* Refresh, disabled while loading; and the namespace watch.               *)
ReloadEvents ==
    /\ mounted /\ ~eventsLoading /\ load(active, namespace)
    /\ UNCHANGED <<page, loop, namespace, allRows, problems>>

SwitchNamespace(n) ==
    /\ mounted /\ n # namespace /\ namespace' = n
    /\ load(active, n)
    /\ UNCHANGED <<page, loop, allRows, problems>>

(* The context watch: the old cluster's rows go, and its answer with them. *)
SwitchEvents(c) ==
    /\ mounted /\ c # active /\ active' = c
    /\ allRows' = None
    /\ IF c \in sessions THEN load(c, namespace)
       ELSE loads' = outdated /\ eventsLoading' = FALSE /\ eventsError' = FALSE
    /\ UNCHANGED <<mounted, hidden, sessions, pref, loop, namespace, problems>>

(* The load answered, with events (newest first) or with an error.         *)
Loaded(l, ok) ==
    /\ loads' = loads \ {l}
    /\ IF l.newest
       THEN /\ allRows' = IF ok THEN <<l.ctx, l.ns>> ELSE allRows
            /\ eventsError' = ~ok /\ eventsLoading' = FALSE
       ELSE UNCHANGED <<allRows, eventsError, eventsLoading>>
    /\ UNCHANGED <<page, loop, namespace, problems>>

EventsNext ==
    \/ EventsMount \/ EventsUnmount \/ ReloadEvents
    \/ \E n \in Namespaces : SwitchNamespace(n)
    \/ \E c \in Contexts : SwitchEvents(c)
    \/ \E l \in loads, ok \in BOOLEAN : Loaded(l, ok)
    \/ \E c \in Contexts : Login(c) /\ UNCHANGED cardVars
    \/ \E c \in Contexts : EndSession(c) /\ UNCHANGED <<loop, cardVars>>

-----------------------------------------------------------------------------
(* What the cards list and count was read from the active cluster alone,   *)
(* even by a walk of several pages, and the events at rest are those of    *)
(* the namespace selected (ProblemPodsCard tick, RecentEventsCard load).   *)
CardsOfOneCluster ==
    /\ {rows, problemPods} \subseteq {None, {active}}
    /\ mounted /\ allRows # None =>
          /\ allRows[1] = active
          /\ ~eventsLoading /\ ~eventsError => allRows[2] = namespace

(* "Loading..." always stands for a request whose answer will clear it, so *)
(* neither Refresh button can stay disabled (current(), loadId).           *)
SpinnersEnd ==
    /\ loading => \E i \in DOMAIN polls : current(i)
    /\ eventsLoading => \E l \in loads : l.newest
=============================================================================
