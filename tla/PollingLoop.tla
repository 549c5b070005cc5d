------------------------------ MODULE PollingLoop -----------------------------
(***************************************************************************)
(* usePollingLoop: the self-rescheduling, visibility-gated poll behind the *)
(* metrics charts, the Overview gauges and the problem-pod scan, with the  *)
(* page state its consumers follow: the active cluster and its session.    *)
(*                                                                         *)
(* Time is relative, so nothing has to bound it: the timer counts down and *)
(* sinceTick counts up to the longest interval.  Promise continuations run *)
(* with the event that resolves them, as microtasks do.                    *)
(***************************************************************************)
EXTENDS Integers, FiniteSets, FiniteSetsExt, Functions

CONSTANTS
    Contexts, None,
    Prefs,         \* the poll intervals a user may choose
    MinInterval,   \* METRICS_MIN_INTERVAL_SECONDS
    Horizon,       \* the longest time any guard compares with
    MaxGen,        \* bound: starts and stops of one loop
    MaxPolls       \* bound: polls in flight at once, abandoned ones included

ASSUME LoopAssumption ==
    /\ Contexts # {} /\ None \notin Contexts \cup (1..MaxPolls)
    /\ None \notin [gen : 1..MaxGen, left : 0..Horizon]
    /\ Prefs # {} /\ Prefs \subseteq 0..Horizon /\ MinInterval \in 1..Horizon
    /\ Horizon \in Nat /\ MaxGen \in Nat /\ MaxPolls \in Nat \ {0}

VARIABLES
    mounted, hidden,      \* the component, the tab
    active, sessions,     \* the active context, the contexts with a session
    pref,                 \* prefs.metrics.pollIntervalSeconds
    gen, live,
    timer,                \* None, or the generation armed and the time left
    sinceTick,            \* Date.now() - lastTickMs
    polls,                \* the polls in flight: inFlight, and what each asked
    newest,               \* requestSeq, scanSeq: the poll that owns the writes
    probes, gateGen       \* capability probes in flight; gateGen, gateSeq

page == <<mounted, hidden, active, sessions, pref>>
loop == <<gen, live, timer, sinceTick, polls, newest, probes, gateGen>>

LoopTypeOK ==
    /\ {mounted, hidden, live} \subseteq BOOLEAN
    /\ active \in Contexts /\ sessions \subseteq Contexts /\ pref \in Prefs
    /\ gen \in 0..MaxGen /\ gateGen \in 0..MaxGen
    /\ timer = None \/ timer \in [gen : 1..MaxGen, left : 0..Horizon]
    /\ sinceTick \in 0..Horizon
    /\ DOMAIN polls \subseteq 1..MaxPolls /\ newest \in DOMAIN polls \cup {None}
    /\ probes \subseteq [gen : 1..MaxGen, gate : 1..MaxGen, ctx : Contexts]

LoopInit ==
    /\ mounted = FALSE /\ hidden = FALSE
    /\ active = CHOOSE c \in Contexts : TRUE
    /\ sessions = {active} /\ pref = Max(Prefs)
    /\ gen = 0 /\ gateGen = 0 /\ live = FALSE /\ timer = None
    /\ sinceTick = Horizon
    /\ polls = <<>> /\ newest = None /\ probes = {}

isAuthenticated == active \in sessions

-----------------------------------------------------------------------------
SlipMetricsIntervalMs(p) == p
metricsIntervalMs(p) == Max({MinInterval, p})

pending(g) == Cardinality({i \in DOMAIN polls : polls[i].gen = g})
isCurrent(g) == g = gen /\ live

Armed(g) == [gen |-> g, left |-> metricsIntervalMs(pref)]
Free == (1..MaxPolls) \ DOMAIN polls
Room == Free # {}

(* The in-flight half of runTick(): the request is sent and lastTickMs     *)
(* stamped; newest is the consumer's own sequence number.                  *)
runTick(request) ==
    /\ Room
    /\ sinceTick' = 0
    /\ newest' = Min(Free)
    /\ polls' = [i \in DOMAIN polls \cup {Min(Free)} |->
                    IF i \in DOMAIN polls THEN polls[i] ELSE request]

SlipSchedule(i) ==
    /\ polls' = [j \in DOMAIN polls \ {i} |-> polls[j]]
    /\ newest' = IF newest = i THEN None ELSE newest
    /\ UNCHANGED <<gen, live, timer, sinceTick, probes, gateGen>>

(* The other half, its .finally and the schedule() behind it: the poll     *)
(* leaves the count, and the chain it belongs to arms the next.            *)
schedule(i) ==
    /\ polls' = [j \in DOMAIN polls \ {i} |-> polls[j]]
    /\ newest' = IF newest = i THEN None ELSE newest
    /\ timer' = IF isCurrent(polls[i].gen) THEN Armed(gen) ELSE timer
    /\ UNCHANGED <<gen, live, sinceTick, probes, gateGen>>

(* stop(), with the consumers' onStop hooks: the poll and the probe in     *)
(* flight, which the generation cannot see, lose their sequence numbers.   *)
stop ==
    /\ gen < MaxGen /\ gen' = gen + 1
    /\ live' = FALSE /\ timer' = None
    /\ newest' = None /\ gateGen' = gateGen + 1
    /\ UNCHANGED <<sinceTick, polls, probes>>

(* start(gate): stop(), a new generation, and the gate's own number.       *)
startGated(ctx) ==
    /\ gen + 2 <= MaxGen /\ gen' = gen + 2
    /\ gateGen' = gateGen + 2
    /\ live' = FALSE /\ timer' = None /\ newest' = None
    /\ probes' = probes \cup {[gen |-> gen + 2, gate |-> gateGen + 2, ctx |-> ctx]}
    /\ UNCHANGED <<sinceTick, polls>>

(* start() past the gate: the loop goes live and polls at once.            *)
begin(g, request) ==
    /\ live' = TRUE /\ gen' = g
    /\ runTick(request) /\ timer' = None

(* The same from a hidden tab, when the tick returns without a request: it *)
(* settles on the spot and the timer is armed.                             *)
beginHidden(g) ==
    /\ live' = TRUE /\ gen' = g
    /\ sinceTick' = 0 /\ newest' = None
    /\ timer' = Armed(g) /\ UNCHANGED polls

-----------------------------------------------------------------------------
(* The timer's callback.  Its generation is the live one, for stop()       *)
(* clears it; from a hidden tab it stays armed and skips the poll.         *)
TimerFires(request) ==
    /\ timer # None /\ timer.left = 0 /\ isCurrent(timer.gen)
    /\ \/ hidden /\ timer' = Armed(gen) /\ UNCHANGED <<sinceTick, newest, polls>>
       \/ ~hidden /\ timer' = None /\ runTick(request)
    /\ UNCHANGED <<page, gen, live, probes, gateGen>>

SlipCatchUp == live /\ sinceTick >= metricsIntervalMs(pref)

(* onVisibilityChange(): the poll a returning tab makes at once, unless    *)
(* one is in flight or started within the interval.                        *)
CatchUp ==
    live /\ sinceTick >= metricsIntervalMs(pref) /\ pending(gen) = 0

TabHidden ==
    /\ ~hidden /\ hidden' = TRUE
    /\ UNCHANGED <<mounted, active, sessions, pref, loop>>

TabShown(request) ==
    /\ hidden /\ hidden' = FALSE
    /\ IF CatchUp THEN timer' = None /\ runTick(request)
                  ELSE UNCHANGED <<timer, sinceTick, newest, polls>>
    /\ UNCHANGED <<mounted, active, sessions, pref, gen, live, probes, gateGen>>

(* One unit of time.                                                       *)
Later(t) == IF t < Horizon THEN t + 1 ELSE t

Elapse ==
    /\ sinceTick' = Later(sinceTick)
    /\ timer' = IF timer = None \/ timer.left = 0 THEN timer
                ELSE [timer EXCEPT !.left = @ - 1]
    /\ UNCHANGED <<page, gen, live, polls, newest, probes, gateGen>>

(* A session begins on the login page, and ends by a 401 or its expiry;    *)
(* the router then leaves the page, which unmounts it.                     *)
Login(c) ==
    /\ c \notin sessions /\ sessions' = sessions \cup {c}
    /\ UNCHANGED <<mounted, hidden, active, pref, loop>>

EndSession(c) ==
    /\ c \in sessions /\ sessions' = sessions \ {c}
    /\ UNCHANGED <<mounted, hidden, active, pref>>

ChoosePref(p) ==
    /\ p # pref /\ pref' = p
    /\ UNCHANGED <<mounted, hidden, active, sessions, loop>>

-----------------------------------------------------------------------------
(* Every live loop has exactly one way on: its timer, or the one poll in   *)
(* flight whose .finally arms it.  None and it dies silently, two and it   *)
(* polls at twice the rate for good (usePollingLoop onVisibilityChange).   *)
OneChain ==
    /\ live => (IF timer = None THEN 0 ELSE 1) + pending(gen) = 1
    /\ ~live => timer = None

(* No poll of a running loop starts sooner than the shortest interval      *)
(* after the one before it, whatever the tab and the setting do            *)
(* (intervalMs is "the loop's one cadence guarantee").                     *)
Cadence ==
    [][ live /\ live' /\ gen' = gen /\ Cardinality(DOMAIN polls') > Cardinality(DOMAIN polls)
        => sinceTick >= MinInterval ]_loop

(* A live loop in a visible tab keeps polling: a failed, skipped or        *)
(* overtaken poll never leaves it with nothing armed.                      *)
KeepsPolling == []<>(~live \/ hidden \/ sinceTick = 0)
=============================================================================
