---------------------------- MODULE PollingProofs -----------------------------
(***************************************************************************)
(* Proofs about the polling loop and the components that run on it, for    *)
(* any clusters, intervals and any number of starts and polls: a live loop *)
(* has exactly one way on and keeps its distance between polls, and what   *)
(* the Overview and the charts show was read from the cluster on screen.   *)
(*                                                                         *)
(* The argument is by generations.  Everything armed or in flight carries  *)
(* the generation it was made in; those of the present one are exactly one *)
(* poll or one timer when the loop is live, at most one probe when it is   *)
(* not, and asked for what is on screen, since whatever changes that       *)
(* starts a new generation.                                                *)
(***************************************************************************)
EXTENDS MCPolling, FiniteSetTheorems, WellFoundedInduction, TLAPS

Timer == [gen : 1..MaxGen, left : 0..Horizon]
Probe == [gen : 1..MaxGen, gate : 1..MaxGen, ctx : Contexts]

(* The polls of the present generation.                                    *)
Own == {i \in DOMAIN polls : polls[i].gen = gen}

PageOK ==
    /\ mounted \in BOOLEAN /\ hidden \in BOOLEAN
    /\ active \in Contexts /\ sessions \subseteq Contexts /\ pref \in Prefs

(* The chain: a live loop has its timer or one poll, and the timer leaves  *)
(* the shortest interval between two polls.                                *)
ChainOK ==
    /\ live \in BOOLEAN /\ gen \in 0..MaxGen /\ gateGen = gen
    /\ sinceTick \in 0..Horizon
    /\ live => IF timer = None THEN \E i \in DOMAIN polls : Own = {i} ELSE Own = {}
    /\ timer # None => /\ timer \in Timer /\ live /\ timer.gen = gen
                       /\ sinceTick + timer.left >= MinInterval

PollsOK ==
    /\ DOMAIN polls \subseteq 1..MaxPolls
    /\ \A i \in DOMAIN polls : polls[i].gen \in 1..gen /\ (~live => polls[i].gen # gen)
    /\ newest # None => newest \in Own /\ live

ProbesOK ==
    /\ probes \subseteq Probe
    /\ \A p \in probes : p.gate = p.gen /\ p.gen <= gen
    /\ \A p \in probes : p.gen = gen => p.ctx = active /\ ~live

LoopInv == PageOK /\ ChainOK /\ PollsOK /\ ProbesOK

(* A step adds no poll to a running loop within the shortest interval.     *)
Paced ==
    live /\ gen' = gen =>
        DOMAIN polls' \subseteq DOMAIN polls \/ sinceTick >= MinInterval

-----------------------------------------------------------------------------
(* A set of naturals has a least element, and a bounded one a greatest.    *)
LEMMA LeastOf ==
    ASSUME NEW S, S \subseteq Nat, S # {}
    PROVE  Min(S) \in S /\ \A y \in S : Min(S) <= y
<1> DEFINE Less == {ss \in Nat \X Nat : ss[1] < ss[2]}
<1>0. IsWellFoundedOn(Less, Nat)
  BY NatLessThanWellFounded, Zenon DEF OpToRel
<1>1. PICK x \in S : \A y \in S : ~(<<y, x>> \in Less)
  <2> HIDE DEF Less
  <2> QED
    BY <1>0, WFMin
<1>2. ASSUME NEW y \in S PROVE x <= y
  <2>1. x \in Nat /\ y \in Nat
    OBVIOUS
  <2>2. ~(<<y, x>>[1] < <<y, x>>[2])
    BY <1>1, <2>1
  <2> QED
    BY <2>1, <2>2
<1> QED
  BY <1>2 DEF Min

(* The maximum of a non-empty bounded set of naturals is one of its        *)
(* members.                                                                *)
LEMMA GreatestOf ==
    ASSUME NEW n \in Nat, NEW S, S \subseteq 0..n, S # {}
    PROVE  Max(S) \in S /\ \A y \in S : Max(S) >= y
<1> DEFINE T == {k \in 0..n : n - k \in S}
<1>1. PICK x \in S : TRUE
  OBVIOUS
<1>2. n - x \in T
  BY <1>1
<1>3. Min(T) \in T /\ \A k \in T : Min(T) <= k
  <2>1. T \subseteq Nat
    OBVIOUS
  <2>2. T # {}
    BY <1>2
  <2> HIDE DEF T
  <2> QED
    BY <2>1, <2>2, LeastOf
<1>4. PICK k \in T : \A j \in T : k <= j
  BY <1>3
<1>5. ASSUME NEW y \in S PROVE n - k >= y
  <2>1. n - y \in T
    BY <1>5
  <2> QED
    BY <1>4, <1>5, <2>1
<1> QED
  BY <1>4, <1>5 DEF Max

(* The interval a poll is armed with: at least the shortest there is.      *)
LEMMA IntervalBounds ==
    ASSUME NEW p \in Prefs
    PROVE  metricsIntervalMs(p) \in MinInterval..Horizon
<1>1. {MinInterval, p} \subseteq 0..Horizon /\ Horizon \in Nat /\ MinInterval \in 1..Horizon
  BY LoopAssumption
<1>2. /\ Max({MinInterval, p}) \in {MinInterval, p}
      /\ Max({MinInterval, p}) >= MinInterval
  BY <1>1, GreatestOf
<1> QED
  BY <1>1, <1>2 DEF metricsIntervalMs

(* The slot a new poll takes is one no poll in flight has.                 *)
LEMMA FreeSlot ==
    ASSUME Room
    PROVE  Min(Free) \in 1..MaxPolls /\ Min(Free) \notin DOMAIN polls /\ Min(Free) # None
<1>1. Free \subseteq Nat /\ Free # {}
  BY LoopAssumption DEF Free, Room
<1>2. Min(Free) \in Free
  BY <1>1, LeastOf
<1> QED
  BY <1>2, LoopAssumption DEF Free

-----------------------------------------------------------------------------
(* The operations of the loop.                                             *)

(* stop(), whatever the page becomes: the new generation has nothing.      *)
LEMMA StopKeeps ==
    ASSUME LoopInv, stop, PageOK'
    PROVE  LoopInv' /\ Paced
<1>1. gen \in 0..MaxGen /\ gen < MaxGen /\ gen' = gen + 1 /\ MaxGen \in Nat
  BY LoopAssumption DEF LoopInv, ChainOK, stop
<1>2. ChainOK'
  <2>1. gen' \in 0..MaxGen /\ gateGen' = gen'
    BY <1>1 DEF LoopInv, ChainOK, stop
  <2>2. live' = FALSE /\ timer' = None /\ sinceTick' \in 0..Horizon
    BY DEF LoopInv, ChainOK, stop
  <2> QED
    BY <2>1, <2>2, Zenon DEF ChainOK
<1>3. PollsOK'
  BY <1>1 DEF LoopInv, PollsOK, stop
<1>4. ProbesOK'
  BY <1>1 DEF LoopInv, ProbesOK, Probe, stop
<1> QED
  BY <1>1, <1>2, <1>3, <1>4 DEF LoopInv, Paced

(* start() up to its gate: a new generation, and one probe of it.          *)
LEMMA StartGatedKeeps ==
    ASSUME LoopInv, PageOK', startGated(active')
    PROVE  LoopInv' /\ Paced
<1>1. gen \in 0..MaxGen /\ gen + 2 <= MaxGen /\ gen' = gen + 2 /\ MaxGen \in Nat /\ gateGen = gen
  BY LoopAssumption DEF LoopInv, ChainOK, startGated
<1>2. ChainOK'
  <2>1. gen' \in 0..MaxGen /\ gateGen' = gen'
    BY <1>1 DEF LoopInv, ChainOK, startGated
  <2>2. live' = FALSE /\ timer' = None /\ sinceTick' \in 0..Horizon
    BY DEF LoopInv, ChainOK, startGated
  <2> QED
    BY <2>1, <2>2, Zenon DEF ChainOK
<1>3. PollsOK'
  BY <1>1 DEF LoopInv, PollsOK, startGated
<1>4. ProbesOK'
  <2> DEFINE new == [gen |-> gen + 2, gate |-> gateGen + 2, ctx |-> active']
  <2>1. new \in Probe /\ new.gen = gen' /\ new.gate = gen' /\ new.ctx = active'
    BY <1>1 DEF PageOK, Probe
  <2>2. probes' = probes \cup {new} /\ live' = FALSE
    BY DEF startGated
  <2>3. \A p \in probes : p \in Probe /\ p.gate = p.gen /\ p.gen <= gen /\ p.gen \in Nat
    BY DEF LoopInv, ProbesOK, Probe
  <2> HIDE DEF new
  <2>4. \A p \in probes : p.gen < gen'
    BY <1>1, <2>3
  <2>5. \A p \in probes' : p.gen = gen' => p.ctx = active' /\ ~live'
    BY <1>1, <2>1, <2>2, <2>4
  <2>6. probes' \subseteq Probe /\ \A p \in probes' : p.gate = p.gen /\ p.gen <= gen'
    BY <1>1, <2>1, <2>2, <2>3
  <2> QED
    BY <2>5, <2>6 DEF ProbesOK
<1> QED
  BY <1>1, <1>2, <1>3, <1>4 DEF LoopInv, Paced

(* A poll is sent: it is the only one of its generation, if the generation *)
(* had none, and the newest.                                               *)
LEMMA RunTickKeeps ==
    ASSUME LoopInv, NEW request, runTick(request), request.gen = gen',
           gen' \in gen..MaxGen, gen' >= 1, live', timer' = None,
           gen' = gen => Own = {},
           gateGen' = gen', PageOK', ProbesOK'
    PROVE  LoopInv'
<1> DEFINE new == Min(Free)
<1>0. gen \in Nat /\ gen' \in Nat /\ gen <= gen' /\ MaxGen \in Nat /\ 0 \in 0..Horizon
  BY LoopAssumption DEF LoopInv, ChainOK
<1>1. new \in 1..MaxPolls /\ new \notin DOMAIN polls /\ new # None
  BY FreeSlot DEF runTick
<1>2. /\ DOMAIN polls' = DOMAIN polls \cup {new}
      /\ \A i \in DOMAIN polls : polls'[i] = polls[i]
      /\ polls'[new] = request /\ newest' = new /\ sinceTick' = 0
  BY <1>1 DEF runTick
<1> HIDE DEF new
<1>3. \A i \in DOMAIN polls : polls[i].gen \in 1..gen /\ polls[i].gen # gen'
  BY <1>0 DEF LoopInv, PollsOK, Own
<1>4. Own' = {new}
  BY <1>1, <1>2, <1>3 DEF Own
<1>5. ChainOK'
  BY <1>0, <1>4, <1>2 DEF ChainOK
<1>6. PollsOK'
  <2>1. \A i \in DOMAIN polls' : polls'[i].gen \in 1..gen'
    BY <1>0, <1>2, <1>3
  <2>2. DOMAIN polls' \subseteq 1..MaxPolls
    BY <1>1, <1>2 DEF LoopInv, PollsOK
  <2> QED
    BY <2>1, <2>2, <1>2, <1>4 DEF PollsOK
<1> QED
  BY <1>5, <1>6 DEF LoopInv

(* The timer is armed instead, from a hidden tab.                          *)
LEMMA ArmKeeps ==
    ASSUME LoopInv, live', gen' \in gen..MaxGen, gen' >= 1, timer' = Armed(gen'),
           pref' = pref, sinceTick' \in 0..Horizon,
           UNCHANGED polls, newest' = None \/ (newest' = newest /\ gen' = gen),
           gen' = gen => Own = {},
           gateGen' = gen', PageOK', ProbesOK'
    PROVE  LoopInv'
<1>0. gen \in Nat /\ gen' \in 1..MaxGen /\ gen <= gen'
  BY LoopAssumption DEF LoopInv, ChainOK
<1>1. metricsIntervalMs(pref) \in MinInterval..Horizon
  BY IntervalBounds DEF LoopInv, PageOK
<1>2. /\ Armed(gen') \in Timer /\ Armed(gen').gen = gen'
      /\ Armed(gen').left \in MinInterval..Horizon /\ Armed(gen') # None
  BY <1>0, <1>1, LoopAssumption DEF Armed, Timer
<1>3. sinceTick' + Armed(gen').left >= MinInterval
  BY <1>2, LoopAssumption
<1>4. Own' = {}
  BY <1>0 DEF Own, LoopInv, PollsOK
<1>5. ChainOK'
  BY <1>0, <1>2, <1>3, <1>4 DEF ChainOK
<1>6. newest' = None
  BY DEF LoopInv, PollsOK
<1>7. PollsOK'
  BY <1>0, <1>6 DEF LoopInv, PollsOK
<1> QED
  BY <1>5, <1>7 DEF LoopInv

(* A poll settles: the chain it belongs to arms its timer, and no other.   *)
LEMMA ScheduleKeeps ==
    ASSUME LoopInv, NEW i \in DOMAIN polls, schedule(i), UNCHANGED page
    PROVE  LoopInv' /\ Paced
<1>0. /\ gen \in 0..MaxGen /\ polls[i].gen \in 1..gen /\ MaxGen \in Nat
      /\ gen' = gen /\ live' = live /\ pref' = pref /\ gateGen' = gen /\ pref \in Prefs
  BY LoopAssumption DEF LoopInv, ChainOK, PollsOK, PageOK, schedule, page
<1>1. PageOK' /\ ProbesOK'
  BY DEF LoopInv, PageOK, ProbesOK, schedule, page
<1>2. DOMAIN polls' = DOMAIN polls \ {i} /\ \A j \in DOMAIN polls' : polls'[j] = polls[j]
  BY DEF schedule
<1>3. Own' = Own \ {i}
  BY <1>0, <1>2 DEF Own
<1>4. PollsOK'
  <2>1. newest' # None => newest' = newest /\ newest # i
    BY DEF schedule
  <2> QED
    BY <1>0, <1>2, <1>3, <2>1 DEF LoopInv, PollsOK
<1>5. ChainOK'
  <2>1. CASE isCurrent(polls[i].gen)
    <3>1. i \in Own /\ live /\ timer' = Armed(gen) /\ gen >= 1
      BY <1>0, <2>1 DEF isCurrent, Own, schedule
    <3>2. Own' = {}
      BY <1>3, <3>1 DEF LoopInv, ChainOK
    <3>3. metricsIntervalMs(pref) \in MinInterval..Horizon
      BY <1>0, IntervalBounds
    <3>4. /\ Armed(gen) \in Timer /\ Armed(gen).gen = gen
          /\ Armed(gen).left \in MinInterval..Horizon /\ Armed(gen) # None
      BY <1>0, <3>1, <3>3, LoopAssumption DEF Armed, Timer
    <3>5. sinceTick' \in 0..Horizon /\ sinceTick' + Armed(gen).left >= MinInterval
      BY <3>4, LoopAssumption DEF LoopInv, ChainOK, schedule
    <3> QED
      BY <1>0, <3>1, <3>2, <3>4, <3>5 DEF ChainOK
  <2>2. CASE ~isCurrent(polls[i].gen)
    <3>1. timer' = timer /\ sinceTick' = sinceTick
      BY <2>2 DEF schedule
    <3>2. live => Own' = Own
      BY <1>3, <2>2 DEF isCurrent, Own
    <3>3. \A j : Own' = {j} => j \in DOMAIN polls'
      BY DEF Own
    <3> QED
      BY <1>0, <3>1, <3>2, <3>3 DEF LoopInv, ChainOK
  <2> QED
    BY <2>1, <2>2
<1> QED
  BY <1>1, <1>2, <1>4, <1>5 DEF LoopInv, Paced

(* The timer's callback, which polls or, hidden, arms itself again.        *)
LEMMA TimerKeeps ==
    ASSUME LoopInv, NEW request, request.gen = gen, TimerFires(request)
    PROVE  LoopInv' /\ Paced
<1>0. /\ timer # None /\ timer.left = 0 /\ gen' = gen /\ live' = live /\ gateGen' = gen'
      /\ probes' = probes /\ UNCHANGED page
  BY DEF LoopInv, ChainOK, TimerFires
<1>1. /\ live /\ Own = {} /\ gen \in 1..MaxGen /\ sinceTick \in 0..Horizon
      /\ MaxGen \in Nat /\ MinInterval \in Nat
      /\ gen \in gen..MaxGen /\ gen >= 1
  BY <1>0, LoopAssumption DEF LoopInv, ChainOK, Timer
<1>2. sinceTick >= MinInterval
  <2>1. sinceTick + timer.left >= MinInterval
    BY <1>0 DEF LoopInv, ChainOK
  <2> QED
    BY <1>0, <1>1, <2>1
<1>3. PageOK' /\ ProbesOK'
  BY <1>0 DEF LoopInv, PageOK, ProbesOK, page
<1>4. CASE hidden /\ timer' = Armed(gen) /\ UNCHANGED <<sinceTick, newest, polls>>
  BY <1>0, <1>1, <1>3, <1>4, ArmKeeps DEF page, Paced
<1>5. CASE ~hidden /\ timer' = None /\ runTick(request)
  BY <1>0, <1>1, <1>2, <1>3, <1>5, RunTickKeeps DEF page, Paced
<1> QED
  BY <1>4, <1>5 DEF TimerFires

(* No poll of the present generation is in flight.                         *)
LEMMA NonePending ==
    ASSUME LoopInv, pending(gen) = 0
    PROVE  Own = {}
<1>1. IsFiniteSet(1..MaxPolls)
  BY FS_Interval, LoopAssumption
<1>2. Own \in SUBSET (1..MaxPolls)
  BY DEF LoopInv, PollsOK, Own
<1>3. IsFiniteSet(Own)
  BY <1>1, <1>2, FS_Subset
<1>4. Cardinality(Own) = 0
  BY DEF pending, Own
<1> QED
  BY <1>3, <1>4, FS_EmptySet

(* The returning tab, which polls at once only where none is in flight and *)
(* the interval has passed.                                                *)
LEMMA TabShownKeeps ==
    ASSUME LoopInv, NEW request, request.gen = gen, TabShown(request)
    PROVE  LoopInv' /\ Paced
<1>0. /\ gen' = gen /\ live' = live /\ gateGen' = gen' /\ probes' = probes
      /\ hidden' = FALSE /\ UNCHANGED <<mounted, active, sessions, pref>>
  BY DEF LoopInv, ChainOK, TabShown
<1>1. PageOK' /\ ProbesOK'
  BY <1>0 DEF LoopInv, PageOK, ProbesOK
<1>2. CASE CatchUp /\ timer' = None /\ runTick(request)
  <2>1. live /\ Own = {} /\ sinceTick >= metricsIntervalMs(pref)
    BY <1>2, NonePending DEF CatchUp
  <2>2. gen \in gen..MaxGen /\ gen >= 1
    BY <2>1, LoopAssumption DEF LoopInv, ChainOK, Timer
  <2>3. sinceTick >= MinInterval
    <3>1. metricsIntervalMs(pref) \in MinInterval..Horizon
      BY IntervalBounds DEF LoopInv, PageOK
    <3> QED
      BY <2>1, <3>1, LoopAssumption DEF LoopInv, ChainOK
  <2> QED
    BY <1>0, <1>1, <1>2, <2>1, <2>2, <2>3, RunTickKeeps DEF Paced
<1>3. CASE UNCHANGED <<timer, sinceTick, newest, polls>>
  <2>1. Own' = Own
    BY <1>0, <1>3 DEF Own
  <2> QED
    BY <1>0, <1>1, <1>3, <2>1 DEF LoopInv, ChainOK, PollsOK, Paced
<1> QED
  BY <1>2, <1>3 DEF TabShown

(* Time: what the timer loses, the time since the last poll gains.         *)
LEMMA ElapseKeeps ==
    ASSUME LoopInv, Elapse
    PROVE  LoopInv' /\ Paced
<1>0. UNCHANGED <<page, gen, live, polls, newest, probes, gateGen>> /\ Own' = Own
  BY DEF Elapse, Own
<1>1. PageOK' /\ PollsOK' /\ ProbesOK' /\ Paced
  BY <1>0 DEF LoopInv, PageOK, PollsOK, ProbesOK, page, Paced
<1>2. /\ sinceTick' \in 0..Horizon /\ sinceTick \in 0..Horizon
      /\ sinceTick' = Horizon \/ sinceTick' = sinceTick + 1
      /\ Horizon \in Nat /\ MinInterval \in 1..Horizon /\ sinceTick' >= sinceTick
  BY LoopAssumption DEF LoopInv, ChainOK, Elapse, Later
<1>3. CASE timer = None
  <2>1. timer' = None
    BY <1>3 DEF Elapse
  <2> QED
    BY <1>0, <1>1, <1>2, <1>3, <2>1 DEF LoopInv, ChainOK
<1>4. CASE timer # None
  <2>1. timer \in Timer /\ live /\ timer.gen = gen /\ sinceTick + timer.left >= MinInterval
    BY <1>4 DEF LoopInv, ChainOK
  <2>2. /\ timer' \in Timer /\ timer'.gen = timer.gen
        /\ timer.left = 0 => timer'.left = 0
        /\ timer.left # 0 => timer'.left = timer.left - 1
    <3>1. CASE timer.left = 0
      BY <1>4, <2>1, <3>1 DEF Elapse
    <3>2. CASE timer.left # 0
      <4>1. timer' = [timer EXCEPT !.left = @ - 1]
        BY <1>4, <3>2 DEF Elapse
      <4>2. timer.left \in 1..Horizon
        BY <2>1, <3>2, LoopAssumption DEF Timer
      <4>3. timer.left - 1 \in 0..Horizon
        BY <4>2, LoopAssumption
      <4> QED
        BY <2>1, <3>2, <4>1, <4>3 DEF Timer
    <3> QED
      BY <3>1, <3>2
  <2>3. sinceTick' + timer'.left >= MinInterval
    <3>1. timer.left \in 0..Horizon /\ timer'.left \in 0..Horizon
      BY <2>1, <2>2 DEF Timer
    <3>2. timer.left = 0 => timer'.left = 0 /\ sinceTick >= MinInterval
      BY <1>2, <2>1, <2>2
    <3>3. timer.left # 0 => timer'.left = timer.left - 1
      BY <2>2
    <3>4. sinceTick + timer.left >= MinInterval
      BY <2>1
    <3> QED
      BY <1>2, <3>1, <3>2, <3>3, <3>4
  <2>4. timer' # None
    BY <2>2, LoopAssumption DEF Timer
  <2> QED
    BY <1>0, <1>1, <1>2, <1>4, <2>1, <2>2, <2>3, <2>4 DEF LoopInv, ChainOK
<1> QED
  BY <1>1, <1>3, <1>4 DEF LoopInv

(* The probe of the present generation has returned: it was the only one,  *)
(* and asked the active cluster.                                           *)
LEMMA OwnProbe ==
    ASSUME LoopInv, NEW p \in probes, p.gate = gateGen
    PROVE  /\ p.gen = gen /\ p.ctx = active /\ ~live /\ gen \in 1..MaxGen
           /\ Own = {}
           /\ \A q \in probes \ {p} : q.gen # gen
<1>1. p \in Probe /\ p.gen = gen /\ p.gate = gen /\ p.ctx = active /\ ~live
  BY DEF LoopInv, ChainOK, ProbesOK
<1>2. ASSUME NEW q \in probes, q.gen = gen PROVE q = p
  <2>1. q \in Probe /\ q.gate = gen /\ q.ctx = active
    BY <1>2 DEF LoopInv, ProbesOK
  <2> QED
    BY <1>1, <1>2, <2>1 DEF Probe
<1> QED
  BY <1>1, <1>2 DEF Probe, LoopInv, PollsOK, Own

(* start() past its gate.                                                  *)
LEMMA BeginKeeps ==
    ASSUME LoopInv, NEW p \in probes, p.gate = gateGen, probes' = probes \ {p},
           NEW request, request.gen = p.gen, begin(p.gen, request),
           UNCHANGED <<page, gateGen>>
    PROVE  LoopInv' /\ Paced /\ live'
<1>1. /\ p.gen = gen /\ ~live /\ gen \in 1..MaxGen /\ Own = {}
      /\ \A q \in probes' : q.gen # gen
  BY OwnProbe
<1>2. gen' = gen /\ live' /\ timer' = None /\ runTick(request) /\ gateGen' = gen'
  BY <1>1 DEF begin, LoopInv, ChainOK
<1>3. PageOK' /\ ProbesOK'
  BY <1>1, <1>2 DEF LoopInv, PageOK, ProbesOK, page
<1>4. gen' \in gen..MaxGen /\ gen' >= 1
  BY <1>1, <1>2, LoopAssumption
<1> QED
  BY <1>1, <1>2, <1>3, <1>4, RunTickKeeps DEF Paced

(* A gate that opens in a hidden tab arms the timer instead of polling.    *)
LEMMA BeginHiddenKeeps ==
    ASSUME LoopInv, NEW p \in probes, p.gate = gateGen, probes' = probes \ {p},
           beginHidden(p.gen), UNCHANGED <<page, gateGen>>
    PROVE  LoopInv' /\ Paced /\ live'
<1>1. /\ p.gen = gen /\ ~live /\ gen \in 1..MaxGen /\ Own = {}
      /\ \A q \in probes' : q.gen # gen
  BY OwnProbe
<1>2. /\ gen' = gen /\ live' /\ timer' = Armed(gen') /\ gateGen' = gen'
      /\ newest' = None /\ UNCHANGED polls /\ pref' = pref
  BY <1>1 DEF beginHidden, LoopInv, ChainOK, page
<1>3. PageOK' /\ ProbesOK'
  BY <1>1, <1>2 DEF LoopInv, PageOK, ProbesOK, page
<1>4. gen' \in gen..MaxGen /\ gen' >= 1 /\ sinceTick' \in 0..Horizon
  BY <1>1, <1>2, LoopAssumption DEF beginHidden
<1> QED
  BY <1>1, <1>2, <1>3, <1>4, ArmKeeps DEF Paced

(* A probe that is dropped or refused leaves the loop as it was.           *)
LEMMA ProbeGoneKeeps ==
    ASSUME LoopInv, probes' \subseteq probes,
           UNCHANGED <<page, gen, live, timer, sinceTick, polls, newest, gateGen>>
    PROVE  LoopInv' /\ Paced
<1>1. Own' = Own
  BY DEF Own
<1> QED
  BY <1>1 DEF LoopInv, PageOK, ChainOK, PollsOK, ProbesOK, page, Paced

(* start() without a gate, from a visible tab and from a hidden one.       *)
LEMMA RescanKeeps ==
    ASSUME LoopInv, NEW c, rescan(c), PageOK'
    PROVE  LoopInv' /\ Paced /\ newest' # None /\ polls'[newest'].from = {c}
<1> DEFINE request == [gen |-> gen + 2, from |-> {c}]
<1>1. /\ gen \in Nat /\ gen' = gen + 2 /\ gateGen' = gen' /\ gen' \in gen..MaxGen /\ gen' >= 1
      /\ request.gen = gen'
  BY LoopAssumption DEF LoopInv, ChainOK, rescan, begin
<1>2. live' /\ timer' = None /\ runTick(request)
  BY DEF rescan, begin
<1>3. ProbesOK'
  BY <1>1 DEF rescan, LoopInv, ProbesOK, Probe
<1>4. request.from = {c} /\ gen' # gen
  BY <1>1
<1>5. newest' # None /\ polls'[newest'] = request
  BY <1>2, FreeSlot DEF runTick
<1> HIDE DEF request
<1> QED
  BY <1>1, <1>2, <1>3, <1>4, <1>5, RunTickKeeps DEF Paced

(* A restart in a hidden tab, with the chain of before it gone.            *)
LEMMA RescanHiddenKeeps ==
    ASSUME LoopInv, gen + 2 <= MaxGen, beginHidden(gen + 2),
           gateGen' = gateGen + 2, UNCHANGED <<probes, pref>>, PageOK'
    PROVE  LoopInv' /\ Paced /\ newest' = None
<1>1. /\ gen \in Nat /\ gen' = gen + 2 /\ gateGen' = gen' /\ gen' \in gen..MaxGen /\ gen' >= 1
      /\ sinceTick' \in 0..Horizon /\ gen' # gen
  BY LoopAssumption DEF LoopInv, ChainOK, beginHidden
<1>2. live' /\ timer' = Armed(gen') /\ newest' = None /\ UNCHANGED polls
  BY <1>1 DEF beginHidden
<1>3. ProbesOK'
  BY <1>1 DEF LoopInv, ProbesOK, Probe
<1> QED
  BY <1>1, <1>2, <1>3, ArmKeeps DEF Paced

(* A step that changes at most what the polls in flight ask for.           *)
LEMMA SameLoop ==
    ASSUME LoopInv, PageOK', DOMAIN polls' = DOMAIN polls,
           \A i \in DOMAIN polls : polls'[i].gen = polls[i].gen,
           active' = active \/ probes = {},
           UNCHANGED <<gen, live, timer, sinceTick, newest, probes, gateGen>>
    PROVE  LoopInv' /\ Paced
<1>1. Own' = Own
  BY DEF Own
<1> QED
  BY <1>1 DEF LoopInv, ChainOK, PollsOK, ProbesOK, Paced

(* The poll just sent is the newest.                                       *)
LEMMA NewestIsSent ==
    ASSUME NEW request, runTick(request)
    PROVE  newest' # None /\ polls'[newest'] = request
BY FreeSlot DEF runTick

(* A poll that settles leaves the newest alone, unless it is the newest.   *)
LEMMA NewestAfter ==
    ASSUME LoopInv, NEW i \in DOMAIN polls, schedule(i), newest' # None
    PROVE  newest' = newest /\ newest # i /\ polls'[newest'] = polls[newest]
BY DEF LoopInv, PollsOK, Own, schedule

(* The timer and the returning tab send the request given, or none.        *)
LEMMA NewestAsks ==
    ASSUME NEW request, TimerFires(request) \/ TabShown(request)
    PROVE  \/ newest' # None /\ polls'[newest'] = request
           \/ UNCHANGED <<newest, polls>>
BY NewestIsSent DEF TimerFires, TabShown

(* The page's own steps: a session, the tab, the setting.                  *)
PageMoves ==
    \/ TabHidden \/ \E p \in Prefs : ChoosePref(p)
    \/ \E c \in Contexts : Login(c)
    \/ \E c \in Contexts : EndSession(c) /\ UNCHANGED loop

(* Hiding the tab, the preference and the sessions leave the loop alone.   *)
LEMMA PageMovesKeep ==
    ASSUME LoopInv, PageMoves
    PROVE  LoopInv' /\ Paced /\ UNCHANGED <<loop, mounted, active>>
<1>1. UNCHANGED <<loop, mounted, active>>
  BY DEF PageMoves, TabHidden, ChoosePref, Login, EndSession
<1>2. PageOK'
  BY DEF PageMoves, TabHidden, ChoosePref, Login, EndSession, LoopInv, PageOK
<1> QED
  BY <1>1, <1>2, SameLoop DEF loop

-----------------------------------------------------------------------------
(* The gauges.                                                             *)

Totals == [of : Contexts, age : 0..Horizon]

(* What is shown or kept is the active cluster's; so is what the newest    *)
(* poll will bring, and the node totals it was sent without.               *)
GaugesInv ==
    /\ cachedNodes # None => cachedNodes \in Totals /\ cachedNodes.of = active
    /\ data # None => {data.nodes, data.usage, data.pods} \subseteq {active, None}
    /\ live => metricsUsable.of \in {None, active}
    /\ newest # None => /\ polls[newest].ctx = active
                        /\ ~polls[newest].nodes => cachedNodes.of = active

(* A request made now asks the active cluster, and leaves out only nodes   *)
(* that are its own.                                                       *)
LEMMA RefreshAsks ==
    ASSUME GaugesInv, NEW g
    PROVE  /\ refresh(g).gen = g /\ refresh(g).ctx = active
           /\ ~refresh(g).nodes => cachedNodes.of = active
<1>1. wantNodes \/ cachedNodes.of = active
  BY DEF GaugesInv, wantNodes
<1>2. refresh(g).nodes = wantNodes
  BY DEF refresh
<1> QED
  BY <1>1, <1>2 DEF refresh

(* The summary card mounts: a new gate, and no totals yet.                 *)
LEMMA GaugesMount ==
    ASSUME LoopInv, GaugesInv, SummaryMount
    PROVE  LoopInv' /\ GaugesInv' /\ Paced
<1>1. PageOK' /\ startGated(active')
  BY DEF SummaryMount, LoopInv, PageOK
<1>2. GaugesInv'
  BY DEF SummaryMount, startGated, GaugesInv
<1> QED
  BY <1>1, <1>2, StartGatedKeeps

(* The summary card's cluster changes: the totals go with it.              *)
LEMMA GaugesSwitch ==
    ASSUME LoopInv, GaugesInv, NEW c \in Contexts, SwitchSummary(c)
    PROVE  LoopInv' /\ GaugesInv' /\ Paced
<1>1. PageOK' /\ (startGated(active') \/ stop)
  BY DEF SwitchSummary, LoopInv, PageOK
<1>2. GaugesInv'
  BY DEF SwitchSummary, startGated, stop, GaugesInv
<1> QED
  BY <1>1, <1>2, StartGatedKeeps, StopKeeps

(* The metrics probe answers, for this gate or for an earlier one.         *)
LEMMA GaugesProbed ==
    ASSUME LoopInv, GaugesInv, NEW p \in probes, NEW v, SummaryProbed(p, v)
    PROVE  LoopInv' /\ GaugesInv' /\ Paced
<1>1. CASE p.gate # gateGen
  <2>1. /\ UNCHANGED <<page, gen, live, timer, sinceTick, polls, newest, gateGen>>
        /\ UNCHANGED summary /\ probes' \subseteq probes
    BY <1>1 DEF SummaryProbed, summary
  <2>2. GaugesInv'
    BY <2>1 DEF GaugesInv, summary, page
  <2> QED
    BY <2>1, <2>2, ProbeGoneKeeps
<1>2. CASE p.gate = gateGen
  <2> DEFINE yes == v # "absent"
             request == [refresh(p.gen) EXCEPT !.usage = yes]
  <2>1. /\ begin(p.gen, request) /\ probes' = probes \ {p} /\ UNCHANGED <<page, gateGen>>
        /\ UNCHANGED <<data, cachedNodes>> /\ metricsUsable'.of = p.ctx
    BY <1>2 DEF SummaryProbed
  <2>2. /\ request.gen = p.gen /\ request.ctx = active
        /\ ~request.nodes => cachedNodes.of = active
    <3>1. \A x : /\ [refresh(p.gen) EXCEPT !.usage = x].gen = refresh(p.gen).gen
                 /\ [refresh(p.gen) EXCEPT !.usage = x].ctx = refresh(p.gen).ctx
                 /\ [refresh(p.gen) EXCEPT !.usage = x].nodes = refresh(p.gen).nodes
      BY DEF refresh
    <3> QED
      BY <3>1, RefreshAsks
  <2>3. newest' # None /\ polls'[newest'] = request
    BY <2>1, NewestIsSent DEF begin
  <2> HIDE DEF request
  <2>4. LoopInv' /\ Paced
    BY <1>2, <2>1, <2>2, BeginKeeps
  <2>5. p.ctx = active /\ active' = active
    BY <1>2, <2>1, OwnProbe DEF page
  <2>6. GaugesInv'
    BY <2>1, <2>2, <2>3, <2>5 DEF GaugesInv
  <2> QED
    BY <2>4, <2>6
<1> QED
  BY <1>1, <1>2

(* A refresh settles: its totals are of the cluster it asked, or are       *)
(* dropped.                                                                *)
LEMMA GaugesRefreshed ==
    ASSUME LoopInv, GaugesInv, NEW i \in DOMAIN polls,
           NEW n, NEW u, NEW c, Refreshed(i, n, u, c)
    PROVE  LoopInv' /\ GaugesInv' /\ Paced
<1>1. schedule(i) /\ UNCHANGED page
  BY DEF Refreshed
<1>2. LoopInv' /\ Paced
  BY <1>1, ScheduleKeeps
<1>3. newest' # None => newest' = newest /\ newest # i /\ polls'[newest'] = polls[newest]
  BY <1>1, NewestAfter
<1>4. active' = active /\ live' = live
  BY <1>1 DEF page, schedule
<1>5. CASE UNCHANGED summary
  BY <1>2, <1>3, <1>4, <1>5 DEF GaugesInv, summary
<1>6. CASE UNCHANGED <<data, cachedNodes, metricsUsable>>
  BY <1>2, <1>3, <1>4, <1>6 DEF GaugesInv
<1>7. ASSUME ~UNCHANGED summary, ~UNCHANGED <<data, cachedNodes, metricsUsable>>
      PROVE  GaugesInv'
  <2> DEFINE totals == IF polls[i].nodes THEN nodeTotals(polls[i].ctx, sinceTick) ELSE cachedNodes
  <2>1. /\ newest = i /\ cachedNodes' = totals /\ UNCHANGED metricsUsable
        /\ data' = [nodes |-> totals.of,
                    usage |-> IF polls[i].usage /\ u THEN polls[i].ctx ELSE None,
                    pods |-> IF c THEN polls[i].ctx ELSE None]
    BY <1>7 DEF Refreshed, summary
  <2>2. i # None
    BY LoopAssumption DEF LoopInv, PollsOK
  <2>3. polls[i].ctx = active /\ (~polls[i].nodes => cachedNodes.of = active)
    BY <2>1, <2>2 DEF GaugesInv
  <2>4. sinceTick \in 0..Horizon /\ active \in Contexts
    BY DEF LoopInv, ChainOK, PageOK
  <2>5. totals.of = active /\ (totals # None => totals \in Totals)
    BY <2>3, <2>4 DEF nodeTotals, Totals, GaugesInv
  <2> HIDE DEF totals
  <2>6. {data'.nodes, data'.usage, data'.pods} \subseteq {active, None}
    BY <2>1, <2>3, <2>5
  <2>7. newest' = None
    BY <1>3, <2>1
  <2> QED
    BY <1>4, <2>1, <2>5, <2>6, <2>7 DEF GaugesInv
<1> QED
  BY <1>2, <1>5, <1>6, <1>7

(* A refresh begins, asking the active cluster.                            *)
LEMMA GaugesPolled ==
    ASSUME LoopInv, GaugesInv, UNCHANGED summary,
           TimerFires(refresh(gen)) \/ TabShown(refresh(gen))
    PROVE  LoopInv' /\ GaugesInv' /\ Paced
<1>1. /\ refresh(gen).gen = gen /\ refresh(gen).ctx = active
      /\ ~refresh(gen).nodes => cachedNodes.of = active
  BY RefreshAsks
<1>2. LoopInv' /\ Paced
  BY <1>1, TimerKeeps, TabShownKeeps
<1>3. active' = active /\ live' = live
  BY DEF TimerFires, TabShown, page
<1>4. \/ newest' # None /\ polls'[newest'] = refresh(gen)
      \/ UNCHANGED <<newest, polls>>
  BY NewestAsks
<1>5. GaugesInv'
  BY <1>1, <1>3, <1>4 DEF GaugesInv, summary
<1> QED
  BY <1>2, <1>5

(* Time passes: the cached totals age and stay of their cluster.           *)
LEMMA GaugesElapse ==
    ASSUME LoopInv, GaugesInv, SummaryElapse
    PROVE  LoopInv' /\ GaugesInv' /\ Paced
<1>1. LoopInv' /\ Paced
  BY ElapseKeeps DEF SummaryElapse
<1>2. UNCHANGED <<page, gen, live, polls, newest, data, metricsUsable>>
  BY DEF SummaryElapse, Elapse
<1>3. cachedNodes # None => cachedNodes' \in Totals /\ cachedNodes'.of = cachedNodes.of
  BY LoopAssumption DEF SummaryElapse, GaugesInv, Totals, Later
<1>4. cachedNodes = None => cachedNodes' = None
  BY DEF SummaryElapse
<1>5. GaugesInv'
  BY <1>2, <1>3, <1>4 DEF GaugesInv, page
<1> QED
  BY <1>1, <1>5

(* Every step of the summary card keeps its invariant and the cadence.     *)
LEMMA GaugesStep ==
    ASSUME LoopInv, GaugesInv, SummaryNext
    PROVE  LoopInv' /\ GaugesInv' /\ Paced
<1>1. CASE SummaryUnmount
  <2>1. PageOK' /\ stop
    BY <1>1 DEF SummaryUnmount, LoopInv, PageOK
  <2>2. GaugesInv'
    BY <1>1 DEF SummaryUnmount, stop, GaugesInv, summary
  <2> QED
    BY <2>1, <2>2, StopKeeps
<1>2. CASE PageMoves /\ UNCHANGED summary
  BY <1>2, PageMovesKeep DEF GaugesInv, summary, loop
<1> QED
  BY <1>1, <1>2, GaugesMount, GaugesSwitch, GaugesProbed, GaugesRefreshed, GaugesPolled,
     GaugesElapse DEF SummaryNext, SummarySettles, SummaryTimer, PageMoves

-----------------------------------------------------------------------------
(* The problem pods.                                                       *)

Scan == [gen : 1..MaxGen, from : SUBSET Contexts]

(* The newest walk has asked the active cluster alone, every page of it,   *)
(* and the spinner stands for that walk.                                   *)
ProblemsInv ==
    /\ \A i \in DOMAIN polls : polls[i] \in Scan
    /\ newest # None => polls[newest].from = {active}
    /\ {rows, problemPods} \subseteq {None, {active}}
    /\ loading \in BOOLEAN /\ (loading => newest # None)

(* The polls in flight after one is sent, and after one has settled.       *)
LEMMA PollsAfter ==
    ASSUME NEW request, runTick(request), NEW j \in DOMAIN polls'
    PROVE  polls'[j] = request \/ (j \in DOMAIN polls /\ polls'[j] = polls[j])
BY DEF runTick

(* A new scan of the problem pods, in a shown or a hidden tab.             *)
LEMMA ProblemsRescan ==
    ASSUME LoopInv, ProblemsInv, PageOK', UNCHANGED <<hidden, pref>>,
           rescanFor(active'), loading' = ~hidden,
           {rows', problemPods'} \subseteq {None, {active'}}
    PROVE  LoopInv' /\ ProblemsInv' /\ Paced
<1>1. CASE ~hidden
  <2> DEFINE request == [gen |-> gen + 2, from |-> {active'}]
  <2>1. rescan(active')
    BY <1>1 DEF rescanFor
  <2>2. LoopInv' /\ Paced /\ newest' # None /\ polls'[newest'].from = {active'}
    BY <2>1, RescanKeeps
  <2>3. request \in Scan
    BY <2>1, LoopAssumption DEF rescan, Scan, PageOK, LoopInv, ChainOK
  <2>4. runTick(request)
    BY <2>1 DEF rescan, begin
  <2> HIDE DEF request
  <2>5. \A i \in DOMAIN polls' : polls'[i] \in Scan
    BY <2>3, <2>4, PollsAfter DEF ProblemsInv
  <2>6. loading' \in BOOLEAN
    OBVIOUS
  <2> QED
    BY <2>2, <2>5, <2>6 DEF ProblemsInv
<1>2. CASE hidden
  <2>1. /\ gen + 2 <= MaxGen /\ beginHidden(gen + 2)
        /\ gateGen' = gateGen + 2 /\ UNCHANGED probes
    BY <1>2 DEF rescanFor
  <2>2. LoopInv' /\ Paced /\ newest' = None
    BY <2>1, RescanHiddenKeeps
  <2>3. UNCHANGED polls
    BY <2>1 DEF beginHidden
  <2>4. loading' \in BOOLEAN /\ ~loading'
    BY <1>2
  <2> QED
    BY <2>2, <2>3, <2>4 DEF ProblemsInv
<1> QED
  BY <1>1, <1>2

(* The scans stop, and the card keeps nothing of another cluster.          *)
LEMMA ProblemsStopped ==
    ASSUME LoopInv, ProblemsInv, PageOK', stop, loading' = FALSE,
           {rows', problemPods'} \subseteq {None, {active'}}
    PROVE  LoopInv' /\ ProblemsInv' /\ Paced
<1>1. LoopInv' /\ Paced
  BY StopKeeps
<1>2. UNCHANGED polls /\ newest' = None
  BY DEF stop
<1> QED
  BY <1>1, <1>2 DEF ProblemsInv

(* A scan ends: its rows are of the active cluster, or are dropped.        *)
LEMMA ProblemsSettle ==
    ASSUME LoopInv, ProblemsInv, NEW i \in DOMAIN polls,
           Scanned(i) \/ \E f \in BOOLEAN : ScanFailed(i, f)
    PROVE  LoopInv' /\ ProblemsInv' /\ Paced
<1>1. schedule(i) /\ UNCHANGED page
  BY DEF Scanned, ScanFailed
<1>2. LoopInv' /\ Paced /\ active' = active
  BY <1>1, ScheduleKeeps DEF page
<1>3. newest' # None => newest' = newest /\ newest # i /\ polls'[newest'] = polls[newest]
  BY <1>1, NewestAfter
<1>4. \A j \in DOMAIN polls' : j \in DOMAIN polls /\ polls'[j] = polls[j]
  BY <1>1 DEF schedule
<1>5. CASE newest = i
  <2>1. i # None
    BY LoopAssumption DEF LoopInv, PollsOK
  <2>2. current(i) /\ polls[i].from = {active}
    BY <1>5, <2>1 DEF LoopInv, PollsOK, Own, current, isCurrent, ProblemsInv
  <2>3. loading' = FALSE /\ {rows', problemPods'} \subseteq {None, {active}}
    BY <2>2 DEF Scanned, ScanFailed
  <2> QED
    BY <1>2, <1>3, <1>4, <2>3 DEF ProblemsInv
<1>6. CASE newest # i
  <2>1. UNCHANGED problems
    BY <1>6 DEF Scanned, ScanFailed, current
  <2>2. newest' = newest
    BY <1>1, <1>6 DEF schedule
  <2> QED
    BY <1>2, <1>3, <1>4, <2>1, <2>2 DEF ProblemsInv, problems
<1> QED
  BY <1>5, <1>6

(* A scan begins, from the active cluster only.                            *)
LEMMA ProblemsPolled ==
    ASSUME LoopInv, ProblemsInv, Polled(TimerFires(scan(gen))) \/ Polled(TabShown(scan(gen)))
    PROVE  LoopInv' /\ ProblemsInv' /\ Paced
<1>1. TimerFires(scan(gen)) \/ TabShown(scan(gen))
  BY DEF Polled
<1>2. scan(gen).gen = gen /\ scan(gen).from = {active}
  BY DEF scan
<1>3. LoopInv' /\ Paced
  BY <1>1, <1>2, TimerKeeps, TabShownKeeps
<1>4. active' = active /\ UNCHANGED <<rows, problemPods>>
  BY DEF Polled, TimerFires, TabShown, page
<1>5. \/ newest' # None /\ polls'[newest'] = scan(gen)
      \/ UNCHANGED <<newest, polls>>
  BY <1>1, NewestAsks
<1>6. \A j \in DOMAIN polls' :
         polls'[j] = scan(gen) \/ (j \in DOMAIN polls /\ polls'[j] = polls[j])
  BY <1>1, PollsAfter DEF TimerFires, TabShown
<1>7. \A j \in DOMAIN polls' : polls'[j] \in Scan
  <2>1. ASSUME NEW j \in DOMAIN polls', polls'[j] = scan(gen) PROVE polls'[j] \in Scan
    <3>1. polls'[j].gen \in 1..gen'
      BY <1>3 DEF LoopInv, PollsOK
    <3>2. gen' = gen /\ gen \in 0..MaxGen /\ active \in Contexts
      BY <1>1 DEF TimerFires, TabShown, LoopInv, ChainOK, PageOK
    <3>3. gen \in 1..MaxGen
      BY <1>2, <2>1, <3>1, <3>2, LoopAssumption
    <3> QED
      BY <2>1, <3>2, <3>3 DEF scan, Scan
  <2> QED
    BY <1>6, <2>1 DEF ProblemsInv
<1>8. loading' \in BOOLEAN /\ (loading' => loading \/ newest' # newest)
  BY Zenon DEF Polled, ProblemsInv
<1>9. loading' => newest' # None
  BY <1>5, <1>8 DEF ProblemsInv
<1>10. newest' # None => polls'[newest'].from = {active'}
  BY <1>2, <1>4, <1>5 DEF ProblemsInv
<1> QED
  BY <1>3, <1>4, <1>7, <1>8, <1>9, <1>10 DEF ProblemsInv

(* A scan asks for a further page, of whichever cluster is active by then. *)
LEMMA ProblemsNextPage ==
    ASSUME LoopInv, ProblemsInv, NEW i \in DOMAIN polls, NextPage(i)
    PROVE  LoopInv' /\ ProblemsInv' /\ Paced
<1>1. /\ UNCHANGED <<page, gen, live, timer, sinceTick, newest, probes, gateGen, cardVars>>
      /\ polls' = [polls EXCEPT ![i].from = @ \cup {active}]
  BY DEF NextPage
<1>2. /\ DOMAIN polls' = DOMAIN polls
      /\ \A j \in DOMAIN polls : j # i => polls'[j] = polls[j]
      /\ polls'[i] = [polls[i] EXCEPT !.from = @ \cup {active}]
  BY <1>1
<1>3. active \in Contexts /\ PageOK'
  BY <1>1 DEF LoopInv, PageOK, page
<1>4. /\ polls'[i] \in Scan /\ polls'[i].gen = polls[i].gen
      /\ polls'[i].from = polls[i].from \cup {active}
  BY <1>2, <1>3 DEF ProblemsInv, Scan
<1>5. \A j \in DOMAIN polls : polls'[j].gen = polls[j].gen
  BY <1>2, <1>4
<1>6. LoopInv' /\ Paced
  BY <1>1, <1>2, <1>3, <1>5, SameLoop DEF page
<1>7. newest # None => polls'[newest].from = {active}
  <2>1. newest # None => newest \in DOMAIN polls
    BY DEF LoopInv, PollsOK, Own
  <2> QED
    BY <1>2, <1>4, <2>1 DEF ProblemsInv
<1> QED
  BY <1>1, <1>2, <1>4, <1>6, <1>7 DEF ProblemsInv, page, cardVars, problems

(* Every step of the problem pods' card keeps its invariant and the        *)
(* cadence.                                                                *)
LEMMA ProblemsStep ==
    ASSUME LoopInv, ProblemsInv, ProblemsNext
    PROVE  LoopInv' /\ ProblemsInv' /\ Paced
<1>1. CASE ProblemsMount
  <2>1. PageOK' /\ active' = active /\ UNCHANGED <<hidden, pref>>
    BY <1>1 DEF ProblemsMount, LoopInv, PageOK
  <2>2. rescanFor(active') /\ loading' = ~hidden /\ rows' = None /\ problemPods' = None
    BY <1>1, <2>1 DEF ProblemsMount
  <2> QED
    BY <2>1, <2>2, ProblemsRescan
<1>2. CASE ProblemsUnmount
  <2>1. PageOK' /\ stop /\ loading' = FALSE /\ UNCHANGED <<active, rows, problemPods>>
    BY <1>2 DEF ProblemsUnmount, LoopInv, PageOK
  <2>2. {rows', problemPods'} \subseteq {None, {active'}}
    BY <2>1 DEF ProblemsInv
  <2> QED
    BY <2>1, <2>2, ProblemsStopped
<1>3. CASE Refresh
  <2>1. /\ PageOK' /\ ~hidden /\ rescan(active) /\ loading' = TRUE
        /\ UNCHANGED <<hidden, pref, active, rows, problemPods>>
    BY <1>3 DEF Refresh, LoopInv, PageOK, page
  <2>2. rescanFor(active') /\ loading' = ~hidden /\ {rows', problemPods'} \subseteq {None, {active'}}
    BY <2>1 DEF rescanFor, ProblemsInv
  <2> QED
    BY <2>1, <2>2, ProblemsRescan
<1>4. ASSUME NEW c \in Contexts, SwitchProblems(c)
      PROVE  LoopInv' /\ ProblemsInv' /\ Paced
  <2>1. PageOK' /\ active' = c /\ UNCHANGED <<hidden, pref>> /\ rows' = None /\ problemPods' = None
    BY <1>4 DEF SwitchProblems, LoopInv, PageOK
  <2>2. \/ rescanFor(active') /\ loading' = ~hidden
        \/ stop /\ loading' = FALSE
    BY <1>4, <2>1 DEF SwitchProblems
  <2> QED
    BY <2>1, <2>2, ProblemsRescan, ProblemsStopped
<1>5. CASE ProblemsElapse
  <2>1. LoopInv' /\ Paced /\ UNCHANGED <<page, polls, newest, cardVars>>
    BY <1>5, ElapseKeeps DEF ProblemsElapse, Elapse
  <2> QED
    BY <2>1 DEF ProblemsInv, page, cardVars, problems
<1>6. CASE PageMoves /\ UNCHANGED cardVars
  BY <1>6, PageMovesKeep DEF ProblemsInv, loop, cardVars, problems
<1> QED
  BY <1>1, <1>2, <1>3, <1>4, <1>5, <1>6, ProblemsSettle, ProblemsPolled, ProblemsNextPage
     DEF ProblemsNext, ProblemsSettles, ProblemsTimer, PageMoves

-----------------------------------------------------------------------------
(* The recent events.                                                      *)

Load == [ctx : Contexts, ns : Namespaces \cup {None}, newest : BOOLEAN]

(* A load that may still write asked for what is selected now, and the     *)
(* spinner stands for one; this card polls nothing.                        *)
EventsInv ==
    /\ loads \subseteq Load /\ namespace \in Namespaces \cup {None}
    /\ \A l \in loads : l.newest => l.ctx = active /\ l.ns = namespace
    /\ mounted /\ allRows # None =>
          /\ allRows[1] = active
          /\ ~eventsLoading /\ ~eventsError => allRows[2] = namespace
    /\ eventsLoading => \E l \in loads : l.newest
    /\ probes = {}

(* A new load outdates the others.                                         *)
LEMMA LoadReplaces ==
    ASSUME loads \subseteq Load, NEW c \in Contexts, NEW n \in Namespaces \cup {None}, load(c, n)
    PROVE  /\ loads' \subseteq Load
           /\ \A l \in loads' : l.newest => l.ctx = c /\ l.ns = n
           /\ eventsLoading' /\ \E l \in loads' : l.newest
<1>1. \A l \in outdated : l \in Load /\ ~l.newest
  BY DEF outdated, Load
<1> DEFINE new == [ctx |-> c, ns |-> n, newest |-> TRUE]
<1>2. new \in Load /\ new.ctx = c /\ new.ns = n /\ new.newest
  BY DEF Load
<1>3. loads' = outdated \cup {new} /\ eventsLoading'
  BY DEF load
<1> HIDE DEF new
<1> QED
  BY <1>1, <1>2, <1>3

(* Every step of the events card keeps its invariant and leaves the loop   *)
(* alone.                                                                  *)
LEMMA EventsStep ==
    ASSUME LoopInv, EventsInv, EventsNext
    PROVE  LoopInv' /\ EventsInv' /\ Paced
<1>0. active \in Contexts /\ namespace \in Namespaces \cup {None} /\ loads \subseteq Load
  BY DEF LoopInv, PageOK, EventsInv
<1>1. LoopInv' /\ Paced /\ UNCHANGED loop
  <2>1. UNCHANGED loop
    BY DEF EventsNext, EventsMount, EventsUnmount, ReloadEvents, SwitchNamespace, SwitchEvents,
           Loaded, Login, EndSession
  <2>2. PageOK'
    BY DEF EventsNext, EventsMount, EventsUnmount, ReloadEvents, SwitchNamespace, SwitchEvents,
           Loaded, Login, EndSession, LoopInv, PageOK, page
  <2> QED
    BY <2>1, <2>2, SameLoop DEF loop, EventsInv
<1>2. probes' = {}
  BY <1>1 DEF loop, EventsInv
<1>3. CASE EventsMount
  <2>1. load(active, namespace) /\ allRows' = None /\ UNCHANGED <<active, namespace>>
    BY <1>3 DEF EventsMount
  <2> QED
    BY <1>0, <1>1, <1>2, <2>1, LoadReplaces DEF EventsInv
<1>4. CASE EventsUnmount
  BY <1>1, <1>2, <1>4 DEF EventsUnmount, EventsInv
<1>5. CASE ReloadEvents
  <2>1. load(active, namespace) /\ UNCHANGED <<active, namespace, mounted, allRows>>
    BY <1>5 DEF ReloadEvents, page
  <2> QED
    BY <1>0, <1>1, <1>2, <2>1, LoadReplaces DEF EventsInv
<1>6. ASSUME NEW n \in Namespaces, SwitchNamespace(n) PROVE EventsInv'
  <2>1. load(active, n) /\ namespace' = n /\ UNCHANGED <<active, mounted, allRows>>
    BY <1>6 DEF SwitchNamespace, page
  <2> QED
    BY <1>0, <1>2, <2>1, LoadReplaces DEF EventsInv
<1>7. ASSUME NEW c \in Contexts, SwitchEvents(c) PROVE EventsInv'
  <2>1. active' = c /\ allRows' = None /\ UNCHANGED namespace
    BY <1>7 DEF SwitchEvents
  <2>2. CASE load(c, namespace)
    BY <1>0, <1>2, <2>1, <2>2, LoadReplaces DEF EventsInv
  <2>3. CASE loads' = outdated /\ eventsLoading' = FALSE
    <3>1. \A l \in outdated : l \in Load /\ ~l.newest
      BY <1>0 DEF outdated, Load
    <3> QED
      BY <1>0, <1>2, <2>1, <2>3, <3>1 DEF EventsInv
  <2> QED
    BY <1>7, <2>2, <2>3 DEF SwitchEvents
<1>8. ASSUME NEW l \in loads, NEW ok \in BOOLEAN, Loaded(l, ok) PROVE EventsInv'
  <2>1. UNCHANGED <<active, namespace, mounted>> /\ loads' = loads \ {l}
    BY <1>8 DEF Loaded, page
  <2>2. CASE l.newest
    <3>1. /\ eventsLoading' = FALSE /\ eventsError' = ~ok
          /\ allRows' = IF ok THEN <<l.ctx, l.ns>> ELSE allRows
      BY <1>8, <2>2 DEF Loaded
    <3>2. l.ctx = active /\ l.ns = namespace
      BY <2>2 DEF EventsInv
    <3>3. mounted' /\ allRows' # None =>
             /\ allRows'[1] = active
             /\ ~eventsLoading' /\ ~eventsError' => allRows'[2] = namespace
      BY <2>1, <3>1, <3>2 DEF EventsInv
    <3> QED
      BY <1>0, <1>2, <2>1, <3>1, <3>3 DEF EventsInv
  <2>3. CASE ~l.newest
    BY <1>0, <1>2, <1>8, <2>1, <2>3 DEF EventsInv, Loaded
  <2> QED
    BY <2>2, <2>3
<1>9. CASE PageMoves /\ UNCHANGED cardVars
  BY <1>2, <1>9, PageMovesKeep DEF EventsInv, cardVars, events
<1> QED
  BY <1>1, <1>3, <1>4, <1>5, <1>6, <1>7, <1>8, <1>9 DEF EventsNext, PageMoves

-----------------------------------------------------------------------------
(* The charts.                                                             *)

Fetch == [gen : 1..MaxGen, of : Contexts \X (Objects \cup {None}), alive : BOOLEAN]

(* A sample of a scope that may be shown.                                  *)
Sample(scope) == [of : {scope}, age : 0..Horizon, alive : {TRUE}]

Buffers(b) == DOMAIN b = Keys /\ \A k \in Keys : b[k] \in Seq(Sample(k[1]))

(* The loop runs, or its gate is about to let it.                          *)
Going == live \/ \E p \in probes : p.gen = gen

(* A poll of the running loop asks for what the tab is bound to, and under *)
(* a session that stands unless the tab's buffers have left the cache.     *)
ChartsInv ==
    /\ \A i \in DOMAIN polls : polls[i] \in Fetch
    /\ object \in Objects \cup {None} /\ (mounted => object \in Objects)
    /\ orphan \in BOOLEAN
    /\ Going => orphan \/ isAuthenticated
    /\ live => \A i \in Own : polls[i].of = <<active, object>> /\ (orphan \/ polls[i].alive)
    /\ live /\ capabilities # None => capabilities = [of |-> active, state |-> "available"]
    /\ Buffers(buffer)

(* The cache's operations keep every buffer to samples of its own scope.   *)
Cache(st) == DOMAIN st = {"order", "buffer"} /\ Buffers(st.buffer)

(* A series emptied leaves every buffer with samples of its own object.    *)
LEMMA Emptied ==
    ASSUME NEW b, Buffers(b), NEW k \in Keys
    PROVE  Buffers([b EXCEPT ![k] = <<>>])
<1>1. \A S : <<>> \in Seq(S)
  OBVIOUS
<1>2. /\ DOMAIN [b EXCEPT ![k] = <<>>] = Keys
      /\ \A j \in Keys : [b EXCEPT ![k] = <<>>][j] = IF j = k THEN <<>> ELSE b[j]
  BY DEF Buffers
<1>3. \A j \in Keys : [b EXCEPT ![k] = <<>>][j] \in Seq(Sample(j[1]))
  BY <1>1, <1>2, Zenon DEF Buffers
<1> QED
  BY <1>2, <1>3, Zenon DEF Buffers

(* Binding a series, from the cache or anew.                               *)
LEMMA BindKeeps ==
    ASSUME NEW st, Cache(st), NEW k \in Keys
    PROVE  Cache(bind(st, k))
<1>1. \A o : Cache([st EXCEPT !.order = o])
  BY DEF Cache
<1>2. \A o : Cache([st EXCEPT !.buffer[k] = <<>>, !.order = o])
  <2> SUFFICES ASSUME NEW o PROVE Cache([st EXCEPT !.buffer[k] = <<>>, !.order = o])
    OBVIOUS
  <2>1. Buffers([st.buffer EXCEPT ![k] = <<>>])
    BY Emptied DEF Cache
  <2>2. [st EXCEPT !.buffer[k] = <<>>, !.order = o].buffer = [st.buffer EXCEPT ![k] = <<>>]
    BY DEF Cache
  <2>3. DOMAIN [st EXCEPT !.buffer[k] = <<>>, !.order = o] = DOMAIN st
    OBVIOUS
  <2> QED
    BY <2>1, <2>2, <2>3 DEF Cache
<1> QED
  BY <1>1, <1>2, Zenon DEF bind

(* Dropping series from the cache.                                         *)
LEMMA DropKeeps ==
    ASSUME NEW st, Cache(st), NEW gone
    PROVE  Cache(drop(st, gone))
<1> DEFINE b == [k \in Keys |-> IF k \in gone THEN <<>> ELSE st.buffer[k]]
<1>0. \A S : <<>> \in Seq(S)
  OBVIOUS
<1>1. Buffers(b)
  <2>1. \A k \in Keys : b[k] = IF k \in gone THEN <<>> ELSE st.buffer[k]
    OBVIOUS
  <2>2. DOMAIN b = Keys
    OBVIOUS
  <2> HIDE DEF b
  <2> QED
    BY <1>0, <2>1, <2>2, Zenon DEF Cache, Buffers
<1> HIDE DEF b
<1>2. \A o : Cache([order |-> o, buffer |-> b])
  BY <1>1 DEF Cache
<1> QED
  BY <1>2, Zenon DEF drop, b

(* getMetricsBuffers: bind both series, drop the expired, trim to the      *)
(* limit.                                                                  *)
LEMMA BoundKeeps ==
    ASSUME Buffers(buffer), NEW scope \in Scopes, getMetricsBuffers(scope)
    PROVE  Buffers(buffer') /\ orphan' = FALSE
<1> DEFINE ks == keysOf(scope)
           cached == [order |-> order, buffer |-> buffer]
           bound == bind(bind(cached, ks[1]), ks[2])
           fresh == drop(bound, {k \in ToSet(bound.order) : expired(bound.buffer, k)})
           trim(st) == IF Len(st.order) <= MaxScopes \/ ToSet(st.order) \subseteq ToSet(ks)
                       THEN st ELSE drop(st, {victim(st, ks)})
<1>1. ks[1] \in Keys /\ ks[2] \in Keys
  BY DEF keysOf, Keys
<1>2. Cache(cached)
  BY DEF Cache
<1>3. buffer' = trim(trim(fresh)).buffer /\ orphan' = FALSE
  BY Zenon DEF getMetricsBuffers
<1>4. Cache(bound)
  <2> HIDE DEF ks, cached
  <2> QED
    BY <1>1, <1>2, BindKeeps, Zenon
<1>5. Cache(fresh)
  <2> HIDE DEF bound
  <2> QED
    BY <1>4, DropKeeps, Zenon
<1>6. ASSUME NEW st, Cache(st) PROVE Cache(trim(st))
  BY <1>6, DropKeeps, Zenon
<1> HIDE DEF fresh, trim
<1>7. Cache(trim(trim(fresh)))
  BY <1>5, <1>6, Zenon
<1> QED
  BY <1>3, <1>7, Zenon DEF Cache

(* clearMetricsCacheContext: a cluster's series go, the others stay.       *)
LEMMA ClearKeeps ==
    ASSUME Buffers(buffer), NEW c, clearMetricsCacheContext(c)
    PROVE  Buffers(buffer')
<1> DEFINE cached == [order |-> order, buffer |-> buffer]
<1>1. Cache(cached)
  BY DEF Cache
<1>2. buffer' = drop(cached, {k \in Keys : k[1][1] = c}).buffer
  BY Zenon DEF clearMetricsCacheContext
<1> HIDE DEF cached
<1> QED
  BY <1>1, <1>2, DropKeeps, Zenon DEF Cache

(* A sample of the scope enters its buffer, or is dropped.                 *)
LEMMA PushKeeps ==
    ASSUME NEW S, NEW samples \in Seq(S), NEW s \in S
    PROVE  push(samples, s) \in Seq(S)
<1>1. MaxSamples >= 1 /\ MaxSamples \in Nat
  BY CacheAssumption
<1>2. Len(samples) = MaxSamples => Tail(samples) \o <<s>> \in Seq(S)
  BY <1>1
<1>3. Append(samples, s) \in Seq(S)
  OBVIOUS
<1> QED
  BY <1>2, <1>3, Zenon DEF push

(* The keys a tab is bound to.                                             *)
LEMMA KeysOfScope ==
    ASSUME NEW scope, NEW k \in ToSet(keysOf(scope))
    PROVE  k[1] = scope
BY DEF keysOf, ToSet

-----------------------------------------------------------------------------
(* A request made now asks for what the tab shows.                         *)
LEMMA FetcherAsks ==
    ASSUME NEW g
    PROVE  /\ fetcher(g).gen = g /\ fetcher(g).of = <<active, object>>
           /\ fetcher(g).alive <=> isAuthenticated
<1>1. fetcher(g).alive = isAuthenticated
  BY DEF fetcher
<1> QED
  BY <1>1 DEF fetcher

(* What the charts' fetcher asks is a request of its type.                 *)
LEMMA FetcherType ==
    ASSUME LoopInv, ChartsInv, NEW g \in 1..MaxGen
    PROVE  fetcher(g) \in Fetch
<1>1. isAuthenticated \in BOOLEAN
  BY DEF isAuthenticated
<1>2. <<active, object>> \in Contexts \X (Objects \cup {None})
  BY DEF LoopInv, PageOK, ChartsInv
<1> QED
  BY <1>1, <1>2 DEF fetcher, Fetch

(* A generation that has just begun has nothing going.                     *)
LEMMA Stopped ==
    ASSUME LoopInv, stop
    PROVE  ~Going' /\ ~live' /\ UNCHANGED polls
<1>1. gen \in Nat /\ gen' = gen + 1 /\ probes' = probes /\ ~live' /\ UNCHANGED polls
  BY DEF LoopInv, ChainOK, stop
<1>2. \A p \in probes : p.gen \in Nat /\ p.gen <= gen
  BY DEF LoopInv, ProbesOK, Probe
<1> QED
  BY <1>1, <1>2 DEF Going

(* The tab is bound anew and the loop started, gated, or stopped.          *)
LEMMA ChartsBound ==
    ASSUME LoopInv, ChartsInv, PageOK', object' \in Objects,
           getMetricsBuffers(<<active', object'>>),
           stop \/ (startGated(active') /\ active' \in sessions')
    PROVE  LoopInv' /\ ChartsInv' /\ Paced
<1>1. LoopInv' /\ Paced
  BY StopKeeps, StartGatedKeeps
<1>2. <<active', object'>> \in Scopes
  BY DEF PageOK, Scopes
<1>3. Buffers(buffer') /\ orphan' = FALSE
  BY <1>2, BoundKeeps, Zenon DEF ChartsInv
<1>4. UNCHANGED polls /\ ~live'
  BY DEF stop, startGated
<1>5. Going' => isAuthenticated'
  BY Stopped DEF isAuthenticated
<1>6. orphan' \in BOOLEAN
  BY <1>3
<1> QED
  BY <1>1, <1>3, <1>4, <1>5, <1>6, Zenon DEF ChartsInv

(* The charts' probe answers, for this gate or for an earlier one.         *)
LEMMA ChartsProbed ==
    ASSUME LoopInv, ChartsInv, NEW p \in probes, NEW st, Probed(p, st)
    PROVE  LoopInv' /\ ChartsInv' /\ Paced
<1>0. /\ probes' = probes \ {p} /\ UNCHANGED <<page, gateGen, object, cache>>
      /\ orphan' = orphan /\ buffer' = buffer /\ active' = active /\ sessions' = sessions
  BY DEF Probed, cache, page
<1>1. CASE p.gate = gateGen /\ st = "available"
  <2>1. /\ p.gen = gen /\ p.ctx = active /\ Own = {} /\ gen \in 1..MaxGen /\ ~live
        /\ orphan \/ isAuthenticated
    BY <1>1, OwnProbe DEF ChartsInv, Going
  <2>2. capabilities' = [of |-> active, state |-> "available"]
    BY <1>1, <2>1 DEF Probed
  <2>3. CASE beginHidden(p.gen)
    <3>1. LoopInv' /\ Paced /\ live'
      BY <1>0, <1>1, <2>3, BeginHiddenKeeps
    <3>2. UNCHANGED polls /\ gen' = gen
      BY <2>1, <2>3 DEF beginHidden
    <3>3. Own' = {}
      BY <2>1, <3>2 DEF Own
    <3> QED
      BY <1>0, <2>1, <2>2, <3>1, <3>2, <3>3 DEF ChartsInv, isAuthenticated, page
  <2>4. CASE begin(p.gen, fetcher(p.gen))
    <3>1. LoopInv' /\ Paced /\ live'
      BY <1>0, <1>1, <2>4, FetcherAsks, BeginKeeps
    <3>2. fetcher(gen) \in Fetch
      BY <2>1, FetcherType
    <3>3. runTick(fetcher(gen)) /\ gen' = gen
      BY <2>1, <2>4 DEF begin
    <3>4. \A j \in DOMAIN polls' : polls'[j] = fetcher(gen) \/ (j \in DOMAIN polls /\ polls'[j] = polls[j])
      BY <3>3, PollsAfter
    <3>5. \A j \in Own' : polls'[j] = fetcher(gen)
      BY <2>1, <3>3, <3>4 DEF Own
    <3>6. \A j \in Own' : polls'[j].of = <<active, object>> /\ (orphan \/ polls'[j].alive)
      BY <2>1, <3>5, FetcherAsks
    <3>7. \A j \in DOMAIN polls' : polls'[j] \in Fetch
      BY <3>2, <3>4 DEF ChartsInv
    <3> QED
      BY <1>0, <2>1, <2>2, <3>1, <3>6, <3>7 DEF ChartsInv, isAuthenticated, page
  <2> QED
    BY <1>1, <2>3, <2>4 DEF Probed
<1>2. CASE ~(p.gate = gateGen /\ st = "available")
  <2>1. UNCHANGED <<gen, live, timer, sinceTick, polls, newest>>
    BY <1>2 DEF Probed
  <2>2. LoopInv' /\ Paced
    BY <1>0, <2>1, ProbeGoneKeeps
  <2>3. live => UNCHANGED capabilities
    BY OwnProbe DEF Probed
  <2>4. Own' = Own /\ (Going' => Going)
    BY <1>0, <2>1 DEF Own, Going
  <2> QED
    BY <1>0, <2>1, <2>2, <2>3, <2>4 DEF ChartsInv, isAuthenticated, page
<1> QED
  BY <1>1, <1>2

(* A sample arrives or fails: appended only to the object it was asked of. *)
LEMMA ChartsSettle ==
    ASSUME LoopInv, ChartsInv, NEW i \in DOMAIN polls,
           NotSampled(i) \/ \E a \in 0..ScrapeAge : Sampled(i, a)
    PROVE  LoopInv' /\ ChartsInv' /\ Paced
<1>0. /\ schedule(i) /\ UNCHANGED <<page, object, capabilities, orphan>>
      /\ UNCHANGED <<gen, live, probes>>
  BY DEF NotSampled, Sampled, charts, cache, schedule
<1>1. LoopInv' /\ Paced
  BY <1>0, ScheduleKeeps
<1>2. \A j \in DOMAIN polls' : j \in DOMAIN polls /\ polls'[j] = polls[j]
  BY <1>0 DEF schedule
<1>3. Own' \subseteq Own /\ Going' = Going
  BY <1>0, <1>2 DEF Own, Going
<1>4. Buffers(buffer')
  <2>1. CASE UNCHANGED buffer
    BY <2>1 DEF ChartsInv
  <2>2. ASSUME NEW a \in 0..ScrapeAge, Sampled(i, a), isCurrent(polls[i].gen), ~orphan
        PROVE  Buffers(buffer')
    <3> DEFINE s == [of |-> polls[i].of, age |-> a, alive |-> polls[i].alive]
               bound == ToSet(keysOf(<<active, object>>))
    <3>1. buffer' = [k \in Keys |-> IF k \in bound THEN push(buffer[k], s) ELSE buffer[k]]
      BY <2>2 DEF Sampled
    <3>2. i \in Own /\ live
      BY <2>2 DEF isCurrent, Own
    <3>3. polls[i].of = <<active, object>> /\ polls[i].alive /\ polls[i] \in Fetch
      BY <2>2, <3>2 DEF ChartsInv
    <3>4. a \in 0..Horizon
      BY CacheAssumption, LoopAssumption
    <3>5. s \in Sample(<<active, object>>)
      BY <3>3, <3>4 DEF Sample, Fetch
    <3> HIDE DEF s
    <3>6. ASSUME NEW k \in Keys PROVE buffer'[k] \in Seq(Sample(k[1]))
      <4>1. buffer[k] \in Seq(Sample(k[1]))
        BY DEF ChartsInv, Buffers
      <4>2. CASE k \in bound
        <5>1. k[1] = <<active, object>>
          BY <4>2, KeysOfScope
        <5>2. push(buffer[k], s) \in Seq(Sample(k[1]))
          BY <3>5, <4>1, <5>1, PushKeeps
        <5> QED
          BY <3>1, <4>2, <5>2
      <4>3. CASE k \notin bound
        BY <3>1, <4>1, <4>3
      <4> QED
        BY <4>2, <4>3
    <3> QED
      BY <3>1, <3>6 DEF Buffers
  <2> QED
    BY <2>1, <2>2 DEF NotSampled, Sampled, charts, cache
<1>5. Going' => orphan' \/ isAuthenticated'
  BY <1>0, <1>3 DEF ChartsInv, isAuthenticated, page
<1>6. live' => \A j \in Own' : polls'[j].of = <<active, object>> /\ (orphan \/ polls'[j].alive)
  BY <1>0, <1>2, <1>3 DEF ChartsInv, Own
<1>7. \A j \in DOMAIN polls' : polls'[j] \in Fetch
  BY <1>2 DEF ChartsInv
<1> QED
  BY <1>0, <1>1, <1>4, <1>5, <1>6, <1>7 DEF ChartsInv, page

(* A sample is asked for the object the charts are of.                     *)
LEMMA ChartsPolled ==
    ASSUME LoopInv, ChartsInv, UNCHANGED charts,
           TimerFires(fetcher(gen)) \/ TabShown(fetcher(gen))
    PROVE  LoopInv' /\ ChartsInv' /\ Paced
<1>0. UNCHANGED <<active, sessions, mounted, gen, live, probes, object, capabilities, orphan, buffer>>
  BY DEF TimerFires, TabShown, page, charts, cache
<1>1. LoopInv' /\ Paced
  BY FetcherAsks, TimerKeeps, TabShownKeeps
<1>2. \A j \in DOMAIN polls' : \/ polls'[j] = fetcher(gen) /\ live
                               \/ j \in DOMAIN polls /\ polls'[j] = polls[j]
  BY PollsAfter DEF TimerFires, TabShown, isCurrent, CatchUp
<1>3. ASSUME NEW j \in DOMAIN polls', polls'[j] = fetcher(gen) PROVE polls'[j] \in Fetch
  <2>1. polls'[j].gen \in 1..gen /\ gen \in 0..MaxGen
    BY <1>0, <1>1 DEF LoopInv, PollsOK, ChainOK
  <2>2. gen \in 1..MaxGen
    BY <1>3, <2>1, FetcherAsks, LoopAssumption
  <2> QED
    BY <1>3, <2>2, FetcherType
<1>4. \A j \in DOMAIN polls' : polls'[j] \in Fetch
  BY <1>2, <1>3 DEF ChartsInv
<1>5. live => \A j \in Own' : polls'[j].of = <<active, object>> /\ (orphan \/ polls'[j].alive)
  BY <1>0, <1>2, FetcherAsks DEF ChartsInv, Going, Own
<1> QED
  BY <1>0, <1>1, <1>4, <1>5 DEF ChartsInv, isAuthenticated, Going

(* Time ages the samples and leaves them where they are.                   *)
LEMMA AgedKeeps ==
    ASSUME NEW scope, NEW q \in Seq(Sample(scope))
    PROVE  [n \in DOMAIN q |-> [q[n] EXCEPT !.age = Later(@)]] \in Seq(Sample(scope))
<1>1. \A n \in DOMAIN q : q[n] \in Sample(scope)
  OBVIOUS
<1>2. \A t \in 0..Horizon : Later(t) \in 0..Horizon
  BY LoopAssumption DEF Later
<1>3. \A n \in DOMAIN q : [q[n] EXCEPT !.age = Later(@)] \in Sample(scope)
  BY <1>1, <1>2 DEF Sample
<1>4. DOMAIN q = 1..Len(q) /\ Len(q) \in Nat
  OBVIOUS
<1> QED
  BY <1>3, <1>4

(* A session ends under the charts: its cache goes, the charts' is         *)
(* orphaned.                                                               *)
LEMMA ChartsEnded ==
    ASSUME LoopInv, ChartsInv, NEW c \in Contexts, ChartsEndSession(c)
    PROVE  LoopInv' /\ ChartsInv' /\ Paced
<1>0. /\ sessions' = sessions \ {c} /\ UNCHANGED <<mounted, hidden, active, pref>>
      /\ UNCHANGED <<gen, live, timer, sinceTick, newest, probes, gateGen>>
      /\ UNCHANGED <<object, capabilities>> /\ orphan' = (orphan \/ active = c)
  BY DEF ChartsEndSession, EndSession, Outlived, clearMetricsCacheContext
<1>1. PageOK'
  BY <1>0 DEF LoopInv, PageOK
<1>2. /\ DOMAIN polls' = DOMAIN polls
      /\ \A i \in DOMAIN polls :
            polls'[i] = IF polls[i].of[1] = c THEN [polls[i] EXCEPT !.alive = FALSE] ELSE polls[i]
  BY DEF ChartsEndSession, Outlived
<1>3. \A i \in DOMAIN polls : /\ polls'[i] \in Fetch /\ polls'[i].gen = polls[i].gen
                              /\ polls'[i].of = polls[i].of
                              /\ polls[i].of[1] # c => polls'[i] = polls[i]
  <2>1. \A f \in Fetch : \A x \in BOOLEAN : /\ [f EXCEPT !.alive = x] \in Fetch
                                            /\ [f EXCEPT !.alive = x].gen = f.gen
                                            /\ [f EXCEPT !.alive = x].of = f.of
    BY DEF Fetch
  <2>2. \A i \in DOMAIN polls : polls[i] \in Fetch
    BY DEF ChartsInv
  <2> QED
    BY <1>2, <2>1, <2>2, Zenon
<1>4. LoopInv' /\ Paced
  BY <1>0, <1>1, <1>2, <1>3, SameLoop
<1>5. Buffers(buffer')
  BY ClearKeeps, Zenon DEF ChartsInv, ChartsEndSession
<1>6. Own' = Own /\ Going' = Going
  BY <1>0, <1>2, <1>3 DEF Own, Going
<1>7. orphan' \in BOOLEAN /\ (orphan' <=> orphan \/ active = c)
  BY <1>0, Zenon
<1>8. Going => orphan' \/ isAuthenticated'
  BY <1>0, <1>7 DEF ChartsInv, isAuthenticated
<1>9. live => \A i \in Own : polls'[i].of = <<active, object>> /\ (orphan' \/ polls'[i].alive)
  <2> SUFFICES ASSUME live, NEW i \in Own
               PROVE  polls'[i].of = <<active, object>> /\ (orphan' \/ polls'[i].alive)
    OBVIOUS
  <2>1. i \in DOMAIN polls /\ polls[i].of = <<active, object>> /\ (orphan \/ polls[i].alive)
    BY DEF ChartsInv, Own
  <2>2. active # c => polls'[i] = polls[i]
    BY <1>3, <2>1
  <2> QED
    BY <1>3, <1>7, <2>1, <2>2
<1> QED
  BY <1>0, <1>2, <1>3, <1>4, <1>5, <1>6, <1>7, <1>8, <1>9 DEF ChartsInv

(* Every step of the charts keeps their invariant and the cadence.         *)
LEMMA ChartsStep ==
    ASSUME LoopInv, ChartsInv, ChartsNext
    PROVE  LoopInv' /\ ChartsInv' /\ Paced
<1>1. ASSUME NEW o \in Objects, ChartsMount(o)
      PROVE  LoopInv' /\ ChartsInv' /\ Paced
  <2>1. PageOK' /\ UNCHANGED <<active, sessions>> /\ object' = o /\ active \in sessions
    BY <1>1 DEF ChartsMount, LoopInv, PageOK, isAuthenticated
  <2>2. getMetricsBuffers(<<active', object'>>) /\ (startGated(active') \/ stop)
    BY <1>1, <2>1, Zenon DEF ChartsMount
  <2> QED
    BY <2>1, <2>2, ChartsBound
<1>2. ASSUME NEW c \in Contexts, NEW o \in Objects, Rebind(c, o)
      PROVE  LoopInv' /\ ChartsInv' /\ Paced
  <2>1. PageOK' /\ active' = c /\ UNCHANGED sessions /\ object' = o
    BY <1>2 DEF Rebind, LoopInv, PageOK
  <2>2. /\ getMetricsBuffers(<<active', object'>>)
        /\ stop \/ (startGated(active') /\ active' \in sessions')
    BY <1>2, <2>1, Zenon DEF Rebind, startCharts
  <2> QED
    BY <2>1, <2>2, ChartsBound
<1>3. ASSUME (\E o \in Objects : RebindObject(o)) \/ \E c \in Contexts : SwitchCharts(c)
      PROVE  LoopInv' /\ ChartsInv' /\ Paced
  <2>1. mounted => object \in Objects
    BY DEF ChartsInv
  <2>2. active \in Contexts
    BY DEF LoopInv, PageOK
  <2>3. \E c \in Contexts, o \in Objects : Rebind(c, o)
    BY <1>3, <2>1, <2>2, Zenon DEF RebindObject, SwitchCharts, Rebind
  <2> QED
    BY <1>2, <2>3
<1>4. CASE ChartsUnmount
  <2>1. PageOK' /\ stop /\ UNCHANGED charts /\ ~mounted'
    BY <1>4 DEF ChartsUnmount, LoopInv, PageOK
  <2> QED
    BY <2>1, Stopped, StopKeeps DEF ChartsInv, charts, cache
<1>5. CASE ToggleMetrics \/ ((TabHidden \/ \E c \in Contexts : Login(c)) /\ UNCHANGED charts)
  <2>1. /\ UNCHANGED <<loop, mounted, active, object, capabilities, cache>> /\ sessions \subseteq sessions'
        /\ PageOK'
    BY <1>5 DEF ToggleMetrics, TabHidden, Login, page, charts, LoopInv, PageOK
  <2>2. LoopInv' /\ Paced
    BY <2>1, SameLoop DEF loop
  <2>3. Own' = Own /\ Going' = Going
    BY <2>1 DEF Own, Going, loop
  <2> QED
    BY <2>1, <2>2, <2>3 DEF ChartsInv, isAuthenticated, loop, cache
<1>6. CASE ChartsElapse
  <2>1. LoopInv' /\ Paced /\ UNCHANGED <<page, gen, live, polls, newest, probes, gateGen>>
    BY <1>6, ElapseKeeps DEF ChartsElapse, Elapse
  <2>2. UNCHANGED <<object, capabilities, orphan>>
    BY <1>6 DEF ChartsElapse
  <2>3. Buffers(buffer')
    <3>1. /\ DOMAIN buffer' = Keys
          /\ \A k \in Keys : buffer'[k] = [n \in DOMAIN buffer[k] |->
                                             [buffer[k][n] EXCEPT !.age = Later(@)]]
      BY <1>6 DEF ChartsElapse
    <3>2. ASSUME NEW k \in Keys PROVE buffer'[k] \in Seq(Sample(k[1]))
      <4>1. buffer[k] \in Seq(Sample(k[1]))
        BY DEF ChartsInv, Buffers
      <4> QED
        BY <3>1, <4>1, AgedKeeps
    <3> QED
      BY <3>1, <3>2 DEF Buffers
  <2>4. Own' = Own /\ Going' = Going
    BY <2>1 DEF Own, Going
  <2> QED
    BY <2>1, <2>2, <2>3, <2>4 DEF ChartsInv, isAuthenticated, page
<1>7. ASSUME NEW p \in probes, NEW st \in {"available", "unavailable"}, Probed(p, st)
      PROVE  LoopInv' /\ ChartsInv' /\ Paced
  BY <1>7, ChartsProbed
<1>8. CASE ChartsSettles
  BY <1>8, ChartsSettle DEF ChartsSettles
<1>9. CASE ChartsTimer \/ (TabShown(fetcher(gen)) /\ UNCHANGED charts)
  BY <1>9, ChartsPolled DEF ChartsTimer
<1>10. ASSUME NEW c \in Contexts, ChartsEndSession(c)
       PROVE  LoopInv' /\ ChartsInv' /\ Paced
  BY <1>10, ChartsEnded
<1> QED
  BY <1>1, <1>3, <1>4, <1>5, <1>6, <1>7, <1>8, <1>9, <1>10, Zenon DEF ChartsNext

-----------------------------------------------------------------------------
(* The page with one consumer: what the others would show is empty.        *)

GaugesIdle == cachedNodes = None /\ data = None /\ metricsUsable.of = None
ProblemsIdle == rows = None /\ problemPods = None /\ loading = FALSE
EventsIdle == allRows = None /\ eventsLoading = FALSE
ChartsIdle == capabilities = None /\ \A k \in Keys : buffer[k] = <<>>

PollInv ==
    /\ consumer \in {"gauges", "charts", "problems", "events"}
    /\ LoopInv
    /\ IF consumer = "gauges" THEN GaugesInv ELSE GaugesIdle
    /\ IF consumer = "charts" THEN ChartsInv ELSE ChartsIdle
    /\ IF consumer = "problems" THEN ProblemsInv ELSE ProblemsIdle
    /\ IF consumer = "events" THEN EventsInv ELSE EventsIdle

(* Nothing polls, and every card is empty, when the program starts.        *)
LEMMA PollInitially == Init => PollInv
<1> SUFFICES ASSUME Init PROVE PollInv
  OBVIOUS
<1>1. PageOK
  <2>1. Max(Prefs) \in Prefs
    BY GreatestOf, LoopAssumption
  <2>2. (CHOOSE c \in Contexts : TRUE) \in Contexts
    BY LoopAssumption
  <2> QED
    BY <2>1, <2>2 DEF Init, LoopInit, PageOK
<1>2. DOMAIN polls = {}
  BY DEF Init, LoopInit
<1>3. LoopInv
  <2>1. gen \in 0..MaxGen /\ gateGen = gen /\ sinceTick \in 0..Horizon
    BY LoopAssumption DEF Init, LoopInit
  <2>2. live = FALSE /\ timer = None /\ newest = None /\ probes = {}
    BY DEF Init, LoopInit
  <2>3. ChainOK
    BY <2>1, <2>2, Zenon DEF ChainOK
  <2>4. PollsOK /\ ProbesOK
    BY <1>2, <2>2 DEF PollsOK, ProbesOK
  <2> QED
    BY <1>1, <2>3, <2>4 DEF LoopInv
<1>4. GaugesInv /\ GaugesIdle
  BY DEF Init, LoopInit, SummaryInit, GaugesInv, GaugesIdle
<1>5. ProblemsInv /\ ProblemsIdle
  BY <1>2 DEF Init, LoopInit, CardsInit, ProblemsInv, ProblemsIdle
<1>6. EventsInv /\ EventsIdle
  BY DEF Init, LoopInit, CardsInit, EventsInv, EventsIdle
<1>7. ChartsInv /\ ChartsIdle
  <2>1. Buffers(buffer)
    BY DEF Init, ChartsInit, Buffers
  <2> QED
    BY <1>2, <2>1 DEF Init, LoopInit, ChartsInit, ChartsInv, ChartsIdle, Going
<1> QED
  BY <1>3, <1>4, <1>5, <1>6, <1>7 DEF Init, PollInv

(* Every step of every card that polls keeps the invariant and the         *)
(* cadence.                                                                *)
LEMMA PollStep ==
    ASSUME PollInv, Next
    PROVE  PollInv' /\ Paced
<1>1. CASE Gauges(SummaryNext)
  BY <1>1, GaugesStep DEF PollInv, Gauges, charts, cache, cardVars, problems, events,
     ChartsIdle, ProblemsIdle, EventsIdle
<1>2. CASE Charts(ChartsNext)
  BY <1>2, ChartsStep DEF PollInv, Charts, summary, cardVars, problems, events,
     GaugesIdle, ProblemsIdle, EventsIdle
<1>3. CASE Problems(ProblemsNext)
  <2>1. UNCHANGED events
    BY <1>3 DEF Problems, ProblemsNext, ProblemsMount, ProblemsUnmount, Refresh, SwitchProblems,
       NextPage, ProblemsSettles, Scanned, ScanFailed, ProblemsTimer, ProblemsElapse, Polled, cardVars
  <2> QED
    BY <1>3, <2>1, ProblemsStep DEF PollInv, Problems, summary, charts, cache, events,
       GaugesIdle, ChartsIdle, EventsIdle
<1>4. CASE Events(EventsNext)
  <2>1. UNCHANGED problems
    BY <1>4 DEF Events, EventsNext, EventsMount, EventsUnmount, ReloadEvents, SwitchNamespace,
       SwitchEvents, Loaded, cardVars
  <2> QED
    BY <1>4, <2>1, EventsStep DEF PollInv, Events, summary, charts, cache, problems,
       GaugesIdle, ChartsIdle, ProblemsIdle
<1> QED
  BY <1>1, <1>2, <1>3, <1>4 DEF Next

(* A step that changes nothing keeps them too.                             *)
LEMMA PollStutter ==
    ASSUME PollInv, UNCHANGED vars
    PROVE  PollInv' /\ Paced
<1>1. LoopInv' /\ Paced
  <2>1. PageOK'
    BY DEF PollInv, LoopInv, PageOK, vars, page
  <2> QED
    BY <2>1, SameLoop DEF PollInv, vars, page, loop
<1>2. Own' = Own /\ Going' = Going
  BY DEF vars, loop, Own, Going
<1> QED
  BY <1>1, <1>2 DEF PollInv, vars, page, loop, summary, charts, cache, cardVars, problems, events,
     GaugesInv, GaugesIdle, ChartsInv, ChartsIdle, ProblemsInv, ProblemsIdle, EventsInv,
     EventsIdle, isAuthenticated

(* The invariant behind all results of this module.                        *)
LEMMA PollInvariant == Spec => []PollInv
<1>1. PollInv /\ [Next]_vars => PollInv'
  BY PollStep, PollStutter
<1> QED
  BY <1>1, PollInitially, PTL DEF Spec

-----------------------------------------------------------------------------
(* Every piece of the loop's state and of the page's has its type.         *)
THEOREM LoopTypeCorrect == Spec => []LoopTypeOK
<1>1. ASSUME LoopInv PROVE LoopTypeOK
  <2>1. {mounted, hidden, live} \subseteq BOOLEAN
    BY <1>1, Zenon DEF LoopInv, PageOK, ChainOK
  <2>2. /\ gen \in 0..MaxGen /\ gateGen \in 0..MaxGen /\ sinceTick \in 0..Horizon
        /\ timer = None \/ timer \in [gen : 1..MaxGen, left : 0..Horizon]
    BY <1>1 DEF LoopInv, ChainOK, Timer
  <2>3. /\ DOMAIN polls \subseteq 1..MaxPolls /\ newest \in DOMAIN polls \cup {None}
        /\ probes \subseteq [gen : 1..MaxGen, gate : 1..MaxGen, ctx : Contexts]
    BY <1>1 DEF LoopInv, PollsOK, ProbesOK, Own, Probe
  <2>4. active \in Contexts /\ sessions \subseteq Contexts /\ pref \in Prefs
    BY <1>1 DEF LoopInv, PageOK
  <2> QED
    BY <2>1, <2>2, <2>3, <2>4, Zenon DEF LoopTypeOK
<1> QED
  BY <1>1, PollInvariant, PTL DEF PollInv

(* Whatever starts, stops, probes, hidden tabs and late answers overlap, a *)
(* live loop has exactly one way on: it neither dies nor doubles.          *)
THEOREM ChainIsOne == Spec => []OneChain
<1>1. ASSUME PollInv PROVE OneChain
  <2>1. LoopInv /\ pending(gen) = Cardinality(Own)
    BY <1>1 DEF PollInv, pending, Own
  <2>2. ~live => timer = None
    BY <2>1 DEF LoopInv, ChainOK
  <2>3. ASSUME live, timer = None PROVE pending(gen) = 1
    BY <2>1, <2>3, FS_Singleton DEF LoopInv, ChainOK
  <2>4. ASSUME live, timer # None PROVE pending(gen) = 0
    BY <2>1, <2>4, FS_EmptySet DEF LoopInv, ChainOK
  <2> QED
    BY <2>2, <2>3, <2>4 DEF OneChain
<1> QED
  BY <1>1, PollInvariant, PTL

(* However the setting and the tab's visibility change, a running loop     *)
(* never polls sooner than the shortest interval after its last poll.      *)
THEOREM CadenceKept == Spec => Cadence
<1>1. ASSUME PollInv, PollInv', Paced, live, gen' = gen,
             Cardinality(DOMAIN polls') > Cardinality(DOMAIN polls)
      PROVE  sinceTick >= MinInterval
  <2>1. IsFiniteSet(1..MaxPolls)
    BY FS_Interval, LoopAssumption
  <2>2. IsFiniteSet(DOMAIN polls)
    BY <1>1, <2>1, FS_Subset DEF PollInv, LoopInv, PollsOK
  <2>3. ASSUME DOMAIN polls' \subseteq DOMAIN polls PROVE FALSE
    <3>1. Cardinality(DOMAIN polls') <= Cardinality(DOMAIN polls) /\ IsFiniteSet(DOMAIN polls')
      BY <2>2, <2>3, FS_Subset
    <3>2. Cardinality(DOMAIN polls') \in Nat /\ Cardinality(DOMAIN polls) \in Nat
      BY <2>2, <3>1, FS_CardinalityType
    <3> QED
      BY <1>1, <3>1, <3>2
  <2> QED
    BY <1>1, <2>3 DEF Paced
<1>2. PollInv /\ [Next]_vars => PollInv' /\ Paced
  BY PollStep, PollStutter
<1>3. PollInv /\ [Next]_vars =>
        [live /\ live' /\ gen' = gen /\ Cardinality(DOMAIN polls') > Cardinality(DOMAIN polls)
           => sinceTick >= MinInterval]_loop
  BY <1>1, <1>2
<1> QED
  BY <1>3, PollInvariant, PTL DEF Spec, Cadence

(* The Overview is of one cluster at all times: its gauges, its lists and  *)
(* its spinners.                                                           *)
THEOREM OverviewIsTruthful == Spec => []OverviewTruthful
<1>1. ASSUME PollInv PROVE SummaryOfOneCluster
  <2>1. /\ data # None => {data.nodes, data.usage, data.pods} \subseteq {active, None}
        /\ cachedNodes # None => cachedNodes.of = active
        /\ live => metricsUsable.of \in {None, active}
    BY <1>1 DEF PollInv, GaugesInv, GaugesIdle
  <2>2. cards # None => cards = data /\ data # None
    BY DEF cards
  <2> QED
    BY <2>1, <2>2 DEF SummaryOfOneCluster
<1>2. ASSUME PollInv PROVE CardsOfOneCluster
  BY <1>2 DEF PollInv, ProblemsInv, ProblemsIdle, EventsInv, EventsIdle, CardsOfOneCluster
<1>3. ASSUME PollInv PROVE SpinnersEnd
  <2>1. newest # None => current(newest) /\ newest \in DOMAIN polls
    BY <1>3 DEF PollInv, LoopInv, PollsOK, Own, current, isCurrent
  <2>2. loading => newest # None
    BY <1>3 DEF PollInv, ProblemsInv, ProblemsIdle
  <2>3. eventsLoading => \E l \in loads : l.newest
    BY <1>3 DEF PollInv, EventsInv, EventsIdle
  <2> QED
    BY <2>1, <2>2, <2>3 DEF SpinnersEnd
<1>4. PollInv => OverviewTruthful
  BY <1>1, <1>2, <1>3 DEF OverviewTruthful
<1> QED
  BY <1>4, PollInvariant, PTL

(* No sample of another object, another cluster or an ended session is in  *)
(* any buffer, and a live loop polls by its own cluster's verdict.         *)
THEOREM SeriesAlwaysBelong == Spec => []SeriesBelong
<1>1. ASSUME PollInv, NEW k \in Keys, NEW n \in DOMAIN buffer[k]
      PROVE  buffer[k][n].of = k[1] /\ buffer[k][n].alive
  <2>1. buffer[k] = <<>> \/ buffer[k] \in Seq(Sample(k[1]))
    BY <1>1 DEF PollInv, ChartsInv, ChartsIdle, Buffers
  <2>2. buffer[k] # <<>>
    BY <1>1
  <2>3. buffer[k][n] \in Sample(k[1])
    BY <1>1, <2>1, <2>2
  <2> QED
    BY <2>3 DEF Sample
<1>2. ASSUME PollInv, live, capabilities # None
      PROVE  capabilities = [of |-> active, state |-> "available"]
  BY <1>2 DEF PollInv, ChartsInv, ChartsIdle
<1>3. PollInv => SeriesBelong
  BY <1>1, <1>2 DEF SeriesBelong
<1> QED
  BY <1>3, PollInvariant, PTL
=============================================================================
