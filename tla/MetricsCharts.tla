----------------------------- MODULE MetricsCharts ----------------------------
(***************************************************************************)
(* The chart owners (PodMetricsTab, NodeMetricsTab, NamespaceOverviewPage) *)
(* over useMetricsPolling, with the cache of series buffers they share     *)
(* (metricsCache, ringBuffer).                                             *)
(*                                                                         *)
(* A scope is a context and the object charted in it; each binds a cpu and *)
(* a mem buffer.  A sample is known by the scope it was fetched for, its   *)
(* age, and whether the session that fetched it still stands.  The values  *)
(* and their labels stay with the sample and are left out.                 *)
(***************************************************************************)
EXTENDS PollingLoop, Sequences, SequencesExt

CONSTANTS
    Objects,
    MaxScopes,   \* MAX_SCOPES
    MaxSamples,  \* MAX_SAMPLES
    TTL,         \* TTL_MS
    ScrapeAge    \* how old a response's observedAt may be

ASSUME CacheAssumption ==
    /\ MaxScopes \in Nat \ {0} /\ MaxSamples \in Nat \ {0}
    /\ TTL \in Nat /\ TTL < Horizon /\ ScrapeAge \in 0..Horizon

VARIABLES
    object,          \* what the mounted tab shows
    capabilities,    \* None, or the cluster probed and its state
    userDisabled, enabled, \* prefs.metrics.enabled
    order, buffer,   \* the cache: its keys in Map order, and their samples
    orphan           \* the tab's buffers have left the cache

cache == <<order, buffer, orphan>>
charts == <<object, capabilities, userDisabled, enabled, cache>>

Scopes == Contexts \X Objects
Keys == Scopes \X {"cpu", "mem"}
keysOf(scope) == <<<<scope, "cpu">>, <<scope, "mem">>>>
Cached == ToSet(order)

ChartsInit ==
    /\ object = None /\ capabilities = None
    /\ userDisabled = FALSE /\ enabled = TRUE
    /\ order = <<>> /\ buffer = [k \in Keys |-> <<>>] /\ orphan = FALSE

-----------------------------------------------------------------------------
(* ringBuffer: a sample no newer than the last is dropped, the oldest goes *)
(* past MAX_SAMPLES.                                                       *)
push(samples, s) ==
    IF samples # <<>> /\ s.age >= Last(samples).age THEN samples
    ELSE IF Len(samples) = MaxSamples THEN Tail(samples) \o <<s>>
    ELSE Append(samples, s)

(* The age of lastTimestamp(), and whether it is past the TTL.             *)
lastAge(b, k) == Last(b[k]).age
expired(b, k) == b[k] # <<>> /\ lastAge(b, k) > TTL

(* bind(): the cached buffer moves to the end of the Map; an expired one   *)
(* is replaced in its place, as Map.set does, by an empty one.             *)
bind(st, k) ==
    IF ~expired(st.buffer, k)
    THEN [st EXCEPT !.order = Append(SelectSeq(@, LAMBDA x : x # k), k)]
    ELSE [st EXCEPT !.buffer[k] = <<>>,
                    !.order = IF Contains(@, k) THEN @ ELSE Append(@, k)]

drop(st, gone) ==
    [order |-> SelectSeq(st.order, LAMBDA x : x \notin gone),
     buffer |-> [k \in Keys |-> IF k \in gone THEN <<>> ELSE st.buffer[k]]]

SlipVictim(st, protect) ==
    LET open == SelectSeq(st.order, LAMBDA x : x # protect[Len(protect)])
        empty == SelectSeq(open, LAMBDA x : st.buffer[x] = <<>>)
    IN IF empty # <<>> THEN Head(empty) ELSE Head(open)

(* evict()'s choice: the first empty buffer, or the one whose newest       *)
(* sample is oldest; never one of the keys just bound.                     *)
victim(st, protect) ==
    LET open == SelectSeq(st.order, LAMBDA x : ~Contains(protect, x))
        empty == SelectSeq(open, LAMBDA x : st.buffer[x] = <<>>)
        oldest == SelectSeq(open, LAMBDA x :
                     \A y \in ToSet(open) : lastAge(st.buffer, x) >= lastAge(st.buffer, y))
    IN IF empty # <<>> THEN Head(empty) ELSE Head(oldest)

(* getMetricsBuffers(): bind every axis, drop what expired, then trim to   *)
(* the capacity, which one bind exceeds by at most its own two keys.       *)
getMetricsBuffers(scope) ==
    LET ks == keysOf(scope)
        bound == bind(bind([order |-> order, buffer |-> buffer], ks[1]), ks[2])
        fresh == drop(bound, {k \in ToSet(bound.order) : expired(bound.buffer, k)})
        trim(st) == IF Len(st.order) <= MaxScopes \/ ToSet(st.order) \subseteq ToSet(ks)
                    THEN st ELSE drop(st, {victim(st, ks)})
        st == trim(trim(fresh))
    IN order' = st.order /\ buffer' = st.buffer /\ orphan' = FALSE

(* clearMetricsCacheContext(): a cluster's series end with its session.    *)
clearMetricsCacheContext(c) ==
    LET st == drop([order |-> order, buffer |-> buffer], {k \in Keys : k[1][1] = c})
    IN /\ order' = st.order /\ buffer' = st.buffer
       /\ orphan' = (orphan \/ active = c)

-----------------------------------------------------------------------------
(* useMetricsPolling: the fetch a tick sends, for what the tab shows now.  *)
fetcher(g) == [gen |-> g, of |-> <<active, object>>, alive |-> isAuthenticated]

(* start(): the gate asks the cluster what it has, unless the user turned  *)
(* metrics off; then the loop is left stopped.                             *)
startCharts(c) ==
    /\ userDisabled' = ~enabled
    /\ IF enabled THEN startGated(c) ELSE stop
    /\ UNCHANGED <<capabilities, enabled>>

(* gate() resumed; a probe that failed reads "unavailable".                *)
Probed(p, state) ==
    /\ probes' = probes \ {p}
    /\ capabilities' = IF p.gate = gateGen THEN [of |-> p.ctx, state |-> state] ELSE capabilities
    /\ IF p.gate = gateGen /\ state = "available"
       THEN IF hidden THEN beginHidden(p.gen) ELSE begin(p.gen, fetcher(p.gen))
       ELSE UNCHANGED <<gen, live, timer, sinceTick, polls, newest>>
    /\ UNCHANGED <<page, gateGen, object, userDisabled, enabled, cache>>

SlipSampled(i, age) ==
    LET p == polls[i]
        s == [of |-> p.of, age |-> age, alive |-> p.alive]
        bound == ToSet(keysOf(<<active, object>>))
    IN /\ schedule(i)
       /\ buffer' = IF ~mounted \/ orphan THEN buffer
                    ELSE [k \in Keys |-> IF k \in bound THEN push(buffer[k], s) ELSE buffer[k]]
       /\ UNCHANGED <<page, object, capabilities, userDisabled, enabled, order, orphan>>

(* tick() resumed with a response, and onSample(): both axes take it.  An  *)
(* overtaken one is dropped: the tab may have bound other buffers.         *)
Sampled(i, age) ==
    LET p == polls[i]
        s == [of |-> p.of, age |-> age, alive |-> p.alive]
        bound == ToSet(keysOf(<<active, object>>))
    IN /\ schedule(i)
       /\ buffer' = IF ~isCurrent(p.gen) \/ orphan THEN buffer
                    ELSE [k \in Keys |-> IF k \in bound THEN push(buffer[k], s) ELSE buffer[k]]
       /\ UNCHANGED <<page, object, capabilities, userDisabled, enabled, order, orphan>>

(* A response without an item or a time, or an error: nothing is kept.     *)
NotSampled(i) == schedule(i) /\ UNCHANGED <<page, charts>>

-----------------------------------------------------------------------------
ChartsMount(o) ==
    /\ ~mounted /\ isAuthenticated /\ mounted' = TRUE
    /\ object' = o
    /\ getMetricsBuffers(<<active, o>>)
    /\ userDisabled' = ~enabled /\ capabilities' = None
    /\ IF enabled THEN startGated(active) ELSE stop
    /\ UNCHANGED <<hidden, active, sessions, pref, enabled>>

(* The watch of the object and the context: rebind, and poll only where    *)
(* there is a session.                                                     *)
Rebind(c, o) ==
    /\ mounted /\ <<c, o>> # <<active, object>>
    /\ active' = c /\ object' = o
    /\ getMetricsBuffers(<<c, o>>)
    /\ IF c \in sessions THEN startCharts(c)
                         ELSE stop /\ UNCHANGED <<capabilities, userDisabled, enabled>>
    /\ UNCHANGED <<mounted, hidden, sessions, pref>>

(* Another object of the page, or another cluster under it.                *)
RebindObject(o) == Rebind(active, o)
SwitchCharts(c) == Rebind(c, object)

ChartsUnmount ==
    /\ mounted /\ mounted' = FALSE /\ stop
    /\ UNCHANGED <<hidden, active, sessions, pref, charts>>

(* onSessionEnded: the cluster's polls and samples outlive their session.  *)
Outlived(c) ==
    /\ polls' = [i \in DOMAIN polls |->
                   IF polls[i].of[1] = c THEN [polls[i] EXCEPT !.alive = FALSE] ELSE polls[i]]
    /\ UNCHANGED <<gen, live, timer, sinceTick, newest, probes, gateGen>>

ChartsEndSession(c) ==
    /\ EndSession(c) /\ Outlived(c)
    /\ clearMetricsCacheContext(c)
    /\ UNCHANGED <<object, capabilities, userDisabled, enabled>>

ChartsElapse ==
    /\ Elapse
    /\ buffer' = [k \in Keys |-> [n \in DOMAIN buffer[k] |->
                     [buffer[k][n] EXCEPT !.age = Later(@)]]]
    /\ UNCHANGED <<object, capabilities, userDisabled, enabled, order, orphan>>

ToggleMetrics ==
    /\ ~mounted /\ enabled' = ~enabled
    /\ UNCHANGED <<page, loop, object, capabilities, userDisabled, cache>>

ChartsTimer == TimerFires(fetcher(gen)) /\ UNCHANGED charts
ChartsSettles ==
    \E i \in DOMAIN polls : NotSampled(i) \/ \E a \in 0..ScrapeAge : Sampled(i, a)

ChartsNext ==
    \/ \E o \in Objects : ChartsMount(o)
    \/ \E o \in Objects : RebindObject(o)
    \/ \E c \in Contexts : SwitchCharts(c)
    \/ ChartsUnmount \/ ToggleMetrics \/ ChartsElapse
    \/ \E p \in probes, s \in {"available", "unavailable"} : Probed(p, s)
    \/ ChartsSettles \/ ChartsTimer
    \/ TabShown(fetcher(gen)) /\ UNCHANGED charts
    \/ TabHidden /\ UNCHANGED charts
    \/ \E c \in Contexts : Login(c) /\ UNCHANGED charts
    \/ \E c \in Contexts : ChartsEndSession(c)

-----------------------------------------------------------------------------
(* state: what MetricsUnavailable or the charts are shown by.              *)
state == IF userDisabled THEN "user-disabled"
         ELSE IF capabilities = None THEN "loading" ELSE capabilities.state

(* A chart shows only its own object's samples, fetched by a session that  *)
(* still stands: none of another object, another cluster or a session that *)
(* ended reaches a buffer, cached or about to be, and a live loop polls by *)
(* its own cluster's verdict (useMetricsPolling tick and gate,             *)
(* metricsCache).                                                          *)
SeriesBelong ==
    /\ \A k \in Keys : \A n \in DOMAIN buffer[k] :
          buffer[k][n].of = k[1] /\ buffer[k][n].alive
    /\ live /\ capabilities # None => capabilities = [of |-> active, state |-> "available"]

(* The two charts of a scope live and die together, at the same times: an  *)
(* eviction never takes one axis and leaves the other (metricsCache evict).*)
AxesTogether ==
    \A s \in Scopes :
        /\ <<s, "cpu">> \in Cached <=> <<s, "mem">> \in Cached
        /\ buffer[<<s, "cpu">>] = buffer[<<s, "mem">>]
=============================================================================
