----------------------------- MODULE DetailProofs -----------------------------
(***************************************************************************)
(* Proofs about the detail page and four of its tenants, for any objects,  *)
(* kinds and any number of loads, edits and sessions: what is on screen    *)
(* belongs to the object on screen, a clean editor is current, the shell   *)
(* is the one pod's and lives as long as it should, and a change a dialog  *)
(* reported is shown.                                                      *)
(*                                                                         *)
(* All four rest on one invariant of the page: the only get of the present *)
(* generation is for the route's target, and an object that is not being   *)
(* replaced is the target's.                                               *)
(***************************************************************************)
EXTENDS DetailCards, YamlTab, PodTerminal, ResourceDialogs, TLAPS

Object == [of : Targets, uid : Nat, content : Nat, held : BOOLEAN]
Get == [gen : Nat, key : Targets, answer : Object \cup {None}]

ServerOK ==
    /\ edits \in Nat /\ server \in [Targets -> Object]
    /\ \A t \in Targets : server[t].of = t /\ server[t].content <= edits

(* The gets: one of each generation, answered with what its key names, and *)
(* the present one, there while the page loads, for the route's target.    *)
GetsOK ==
    /\ generation \in Nat /\ gets \subseteq Get
    /\ \A g \in gets : /\ g.gen <= generation
                       /\ g.answer # None => g.answer.of = g.key
                       /\ g.gen = generation => loading /\ g.key = target
    /\ \A g, h \in gets : g.gen = h.gen => g = h
    /\ loading => \E g \in gets : g.gen = generation

ObjectOK ==
    /\ target \in Targets \cup {None} /\ object \in Object \cup {None}
    /\ loading \in BOOLEAN /\ error \in BOOLEAN
    /\ terminalMounted \in BOOLEAN /\ yamlMounted \in BOOLEAN
    /\ target = None => object = None /\ ~loading
    /\ loading => ~error
    /\ ~loading /\ object # None => object.of = target

PageInv == ServerOK /\ GetsOK /\ ObjectOK

(* What a step of the page does to what its tenants watch: the object is   *)
(* handed over by a load of the present target, or withdrawn where it was  *)
(* another's, and a page at rest was at rest or has been handed one.       *)
PageMoves ==
    /\ target' = target => UNCHANGED mounts
    /\ \/ object' = object
       \/ object' = None /\ (target' = target => object.of # target)
       \/ HandedOver /\ target' = target /\ object' # None /\ object'.of = target
    /\ ~loading' /\ ~error' /\ target' # None =>
          HandedOver \/ (UNCHANGED <<target, object>> /\ ~loading /\ ~error)

-----------------------------------------------------------------------------
(* The page starts with no object and no load.                             *)
LEMMA PageInitially == PageInit => PageInv
<1> SUFFICES ASSUME PageInit PROVE PageInv
  OBVIOUS
<1>1. ServerOK
  <2> DEFINE first(t) == [of |-> t, uid |-> 1, content |-> 0, held |-> FALSE]
  <2>1. \A t \in Targets : first(t) \in Object /\ first(t).of = t /\ first(t).content = 0
    BY DEF Object
  <2>2. server = [t \in Targets |-> first(t)] /\ edits = 0
    BY DEF PageInit
  <2> QED
    BY <2>1, <2>2 DEF ServerOK
<1>2. GetsOK /\ ObjectOK
  BY DetailAssumption DEF PageInit, GetsOK, ObjectOK
<1> QED
  BY <1>1, <1>2 DEF PageInv

(* refresh(): the load it begins is the only one of its generation.        *)
LEMMA RefreshLoads ==
    ASSUME PageInv, NEW t \in Targets, target' = t, refreshOf(t), UNCHANGED object,
           terminalMounted' \in BOOLEAN, yamlMounted' \in BOOLEAN
    PROVE  GetsOK' /\ ObjectOK'
<1> DEFINE new == [gen |-> generation', key |-> t, answer |-> None]
<1>1. generation \in Nat /\ generation' = generation + 1 /\ generation' \in Nat
  BY DEF PageInv, GetsOK, refreshOf
<1>2. new \in Get
  BY <1>1 DEF Get
<1>3. gets' = gets \cup {new} /\ loading' = TRUE /\ error' = FALSE
  BY DEF refreshOf
<1>4. new.gen = generation' /\ new.key = target' /\ new.answer = None
  BY <1>1
<1> HIDE DEF new
<1>5. \A g \in gets : g.gen \in Nat /\ g.gen < generation'
  BY <1>1 DEF PageInv, GetsOK, Get
<1>6. GetsOK'
  BY <1>1, <1>2, <1>3, <1>4, <1>5 DEF PageInv, GetsOK
<1>7. ObjectOK'
  BY <1>3, DetailAssumption DEF PageInv, ObjectOK
<1> QED
  BY <1>6, <1>7

(* refresh() as a whole keeps the page's invariant.                        *)
LEMMA RefreshKeeps ==
    ASSUME PageInv, NEW t \in Targets, target' = t, refreshOf(t), UNCHANGED <<backend, object>>,
           terminalMounted' \in BOOLEAN, yamlMounted' \in BOOLEAN
    PROVE  PageInv'
BY RefreshLoads DEF PageInv, ServerOK, backend

(* The API server's answer, on its way.                                    *)
LEMMA ServedKeeps ==
    ASSUME PageInv, NEW g \in gets, Served(g)
    PROVE  PageInv' /\ PageMoves
<1> DEFINE new == [g EXCEPT !.answer = server[g.key]]
<1>1. g \in Get /\ server[g.key] \in Object /\ server[g.key].of = g.key
  BY DEF PageInv, GetsOK, ServerOK, Get
<1>2. /\ new \in Get /\ new.gen = g.gen /\ new.key = g.key
      /\ new.answer = server[g.key] /\ new.answer.of = new.key
  BY <1>1 DEF Get
<1>3. gets' = (gets \ {g}) \cup {new}
  BY DEF Served
<1> HIDE DEF new
<1>4. UNCHANGED <<backend, target, object, loading, error, generation, mounts>>
  BY DEF Served
<1>5. GetsOK'
  BY <1>2, <1>3, <1>4 DEF PageInv, GetsOK
<1>6. ServerOK' /\ ObjectOK' /\ PageMoves
  BY <1>4 DEF PageInv, ServerOK, ObjectOK, PageMoves, backend, mounts
<1> QED
  BY <1>5, <1>6 DEF PageInv

(* An answer that arrives: taken where no later load has begun.            *)
LEMMA GotKeeps ==
    ASSUME PageInv, NEW g \in gets, Got(g)
    PROVE  PageInv' /\ PageMoves
<1>1. g \in Get /\ g.answer \in Object /\ g.answer.of = g.key
  BY DEF PageInv, GetsOK, Get, Got
<1>2. ServerOK' /\ GetsOK'
  BY <1>1 DEF PageInv, GetsOK, ServerOK, Got, backend
<1>3. ObjectOK'
  BY <1>1 DEF PageInv, GetsOK, ObjectOK, Got, mounts
<1>4. PageMoves
  BY <1>1, DetailAssumption DEF PageInv, GetsOK, ObjectOK, Got, PageMoves, HandedOver, Get, mounts
<1> QED
  BY <1>2, <1>3, <1>4 DEF PageInv

(* A load that fails: what it was a refresh of stays.                      *)
LEMMA GetFailsKeeps ==
    ASSUME PageInv, NEW g \in gets, GetFails(g)
    PROVE  PageInv' /\ PageMoves
<1>1. g \in Get
  BY DEF PageInv, GetsOK
<1>2. ServerOK' /\ GetsOK'
  BY <1>1 DEF PageInv, GetsOK, ServerOK, GetFails, backend
<1>3. ObjectOK'
  BY <1>1, DetailAssumption DEF PageInv, GetsOK, ObjectOK, GetFails, loadedKey, Get, mounts
<1>4. PageMoves
  BY <1>1, DetailAssumption
     DEF PageInv, GetsOK, ObjectOK, GetFails, PageMoves, HandedOver, loadedKey, Get, mounts
<1> QED
  BY <1>2, <1>3, <1>4 DEF PageInv

(* An object made anew is an object of the same name.                      *)
LEMMA AnewIsObject ==
    ASSUME NEW o \in Object, NEW content \in Nat
    PROVE  Anew(o, content) \in Object /\ Anew(o, content).of = o.of
           /\ Anew(o, content).content = content
<1> DEFINE uid == o.uid + 1
<1>1. uid \in Nat
  BY DEF Object
<1>2. Anew(o, content) = [o EXCEPT !.uid = uid, !.content = content, !.held = FALSE]
  BY Zenon DEF Anew
<1> HIDE DEF uid
<1>3. [o EXCEPT !.uid = uid] \in Object /\ [o EXCEPT !.uid = uid].of = o.of
  BY <1>1 DEF Object
<1> DEFINE o1 == [o EXCEPT !.uid = uid]
<1> HIDE DEF o1
<1>4. [o1 EXCEPT !.content = content] \in Object /\ [o1 EXCEPT !.content = content].of = o.of
      /\ [o1 EXCEPT !.content = content].content = content
  BY <1>3 DEF Object, o1
<1> QED
  BY <1>2, <1>3, <1>4 DEF Object

(* Someone else's change leaves everything of the page as it was.          *)
LEMMA ServerKeeps ==
    ASSUME PageInv, NEW t \in Targets, ServerEdits(t) \/ Recreated(t)
    PROVE  PageInv' /\ PageMoves
<1>1. PICK o \in Object : /\ server' = [server EXCEPT ![t] = o] /\ edits' = edits + 1
                          /\ o.of = t /\ o.content = edits'
  <2>1. server[t] \in Object /\ server[t].of = t /\ edits + 1 \in Nat
    BY DEF PageInv, ServerOK
  <2>2. CASE ServerEdits(t)
    <3> DEFINE o == [server[t] EXCEPT !.content = edits']
    <3>1. o \in Object /\ o.of = t /\ o.content = edits'
      BY <2>1, <2>2 DEF ServerEdits, Object
    <3> QED
      BY <2>2, <3>1 DEF ServerEdits
  <2>3. CASE Recreated(t)
    <3> DEFINE o == Anew(server[t], edits')
    <3>1. edits' \in Nat
      BY <2>1, <2>3 DEF Recreated
    <3>2. server' = [server EXCEPT ![t] = o] /\ edits' = edits + 1
      BY <2>3 DEF Recreated
    <3>3. o \in Object /\ o.of = t /\ o.content = edits'
      BY <2>1, <3>1, AnewIsObject
    <3> QED
      BY <3>2, <3>3
  <2> QED
    BY <2>2, <2>3
<1>2. ServerOK'
  BY <1>1 DEF PageInv, ServerOK, Object
<1>3. UNCHANGED <<target, loadVars, mounts>>
  BY DEF ServerEdits, Recreated
<1>4. GetsOK' /\ ObjectOK' /\ PageMoves
  BY <1>3 DEF PageInv, GetsOK, ObjectOK, PageMoves, loadVars, mounts
<1> QED
  BY <1>2, <1>4 DEF PageInv

(* The page is left: no get is of its last generation.                     *)
LEMMA LeaveKeeps ==
    ASSUME PageInv, Leave
    PROVE  PageInv' /\ PageMoves
<1>1. \A g \in gets : g.gen \in Nat /\ g.gen < generation'
  BY DEF PageInv, GetsOK, Get, Leave
<1>2. GetsOK'
  BY <1>1 DEF PageInv, GetsOK, Leave
<1> QED
  BY <1>2 DEF PageInv, ServerOK, ObjectOK, Leave, PageMoves, HandedOver, backend, mounts

(* Every step of the page keeps its invariant.                             *)
LEMMA PageKeeps ==
    ASSUME PageInv, PageStep
    PROVE  PageInv' /\ PageMoves
<1>1. ASSUME NEW t \in Targets, Navigate(t) PROVE PageInv' /\ PageMoves
  <2>1. PageInv'
    BY <1>1, RefreshKeeps DEF Navigate, PageInv, ObjectOK, mounts
  <2> QED
    BY <1>1, <2>1 DEF Navigate, refreshOf, PageMoves, HandedOver
<1>2. CASE ClickRefresh
  <2>1. PageInv'
    BY <1>2, RefreshKeeps DEF ClickRefresh, refresh, PageInv, ObjectOK, mounts
  <2> QED
    BY <1>2, <2>1 DEF ClickRefresh, refresh, refreshOf, PageMoves, HandedOver
<1> QED
  BY <1>1, <1>2, LeaveKeeps, ServerKeeps, ServedKeeps, GotKeeps, GetFailsKeeps DEF PageStep

(* Selecting a tab, and everything that leaves the load alone.             *)
LEMMA PageStays ==
    ASSUME PageInv, UNCHANGED <<backend, target, loadVars>>,
           terminalMounted' \in BOOLEAN, yamlMounted' \in BOOLEAN
    PROVE  PageInv'
BY DEF PageInv, ServerOK, GetsOK, ObjectOK, backend, loadVars

-----------------------------------------------------------------------------
(* The owned pods and every walk that may still land are the workload's on *)
(* screen, and lastUid is that workload.                                   *)
OwnedOK ==
    /\ loadId \in Nat
    /\ kind(object) = "Owner" => lastUid = uidOf(object)
    /\ owned.result # None => kind(object) = "Owner" /\ owned.result.uid = uidOf(object)
    /\ \A w \in walks : /\ w.id \in Nat /\ w.id <= loadId
                        /\ w.kept # None => w.kept.uid = w.uid
                        /\ w.id = loadId => kind(object) = "Owner" /\ w.uid = uidOf(object)
    /\ owned.loading => \E w \in walks : w.id = loadId

CardOK ==
    /\ cardId \in Nat
    /\ card.result # None => object # None /\ card.result = uidOf(object)
    /\ \A s \in scans : /\ s.id \in Nat /\ s.id <= cardId
                        /\ s.id = cardId => object # None /\ s.uid = uidOf(object)
    /\ card.loading => \E s \in scans : s.id = cardId

(* Off the page the Overview is selected.                                  *)
TabOK == activeTab \in tabs(object, owned) /\ (target = None => activeTab = "overview")

CardsInv == PageInv /\ OwnedOK /\ CardOK /\ TabOK

(* The watch on the tabs leaves a tab that exists.                         *)
LEMMA BounceKeeps == ASSUME Bounce PROVE TabOK'
<1>1. "overview" \in tabs(object', owned')
  BY DEF tabs
<1> QED
  BY <1>1 DEF Bounce, TabOK

(* load() of useOwnedPods: no earlier walk is of its load, and what it     *)
(* keeps is of the uid it asks for.                                        *)
LEMMA OwnedLoadKeeps ==
    ASSUME OwnedOK, OwnedLoad(object')
    PROVE  OwnedOK'
<1>1. loadId' \in Nat /\ \A w \in walks : w.id \in Nat /\ w.id < loadId'
  BY DEF OwnedOK, OwnedLoad
<1>2. CASE kind(object') # "Owner"
  <2>1. lastUid' = None /\ walks' = walks /\ ~owned'.loading /\ owned'.result = None
    BY <1>2 DEF OwnedLoad, IDLE
  <2> QED
    BY <1>1, <1>2, <2>1 DEF OwnedOK
<1>3. CASE kind(object') = "Owner"
  <2> DEFINE kept == IF uidOf(object') = lastUid THEN owned.result ELSE None
             new == [id |-> loadId', uid |-> uidOf(object'), kept |-> kept]
  <2>1. /\ lastUid' = uidOf(object') /\ walks' = walks \cup {new}
        /\ owned' = [loading |-> TRUE, failed |-> FALSE, result |-> kept]
    BY <1>3 DEF OwnedLoad
  <2>2. owned'.result = kept
    BY <2>1
  <2>3. new.id = loadId' /\ new.uid = uidOf(object') /\ new.kept = kept
    OBVIOUS
  <2>4. kept # None => kept.uid = uidOf(object')
    BY DEF OwnedOK
  <2> HIDE DEF new, kept
  <2>5. walks' = walks \cup {new}
    BY <2>1
  <2>6. lastUid' = uidOf(object')
    BY <2>1
  <2> QED
    BY <1>1, <1>3, <2>2, <2>3, <2>4, <2>5, <2>6 DEF OwnedOK
<1> QED
  BY <1>2, <1>3

(* load() of a card, for the object it finds on screen.                    *)
LEMMA CardLoadKeeps ==
    ASSUME CardOK, CardLoad(object'), object' # None
    PROVE  CardOK'
<1> DEFINE new == [id |-> cardId', uid |-> uidOf(object')]
<1>1. cardId' \in Nat /\ \A s \in scans : s.id \in Nat /\ s.id < cardId'
  BY DEF CardOK, CardLoad
<1>2. new.id = cardId' /\ new.uid = uidOf(object')
  OBVIOUS
<1>3. scans' = scans \cup {new} /\ card'.result = None
  BY DEF CardLoad, eventsFor
<1> HIDE DEF new
<1> QED
  BY <1>1, <1>2, <1>3 DEF CardOK

(* The events card unmounts: no scan still in flight may fill it again.    *)
LEMMA CardGoneKeeps ==
    ASSUME CardOK, CardGone
    PROVE  CardOK'
<1>1. cardId' \in Nat /\ \A s \in scans : s.id \in Nat /\ s.id < cardId'
  BY DEF CardOK, CardGone
<1>2. scans' = scans /\ card'.result = None /\ ~card'.loading
  BY DEF CardGone, IDLE
<1> QED
  BY <1>1, <1>2 DEF CardOK

(* A step of the page: an object handed over is loaded for, and one that   *)
(* stays keeps all there is.                                               *)
LEMMA CardsFollowKeeps ==
    ASSUME CardsInv, PageStep, CardsFollow
    PROVE  CardsInv'
<1>1. PageInv' /\ PageMoves
  BY PageKeeps DEF CardsInv
<1>2. TabOK'
  BY BounceKeeps DEF CardsFollow
<1>3. OwnedOK'
  <2>1. CASE Replaced
    BY <2>1, OwnedLoadKeeps DEF CardsFollow, CardsInv
  <2>2. CASE ~Replaced
    BY <2>2 DEF CardsFollow, CardsInv, Replaced, OwnedOK
  <2> QED
    BY <2>1, <2>2
<1>4. CardOK'
  <2>1. CASE Replaced /\ object' # None /\ activeTab' = "overview"
    BY <2>1, CardLoadKeeps DEF CardsFollow, CardsInv
  <2>2. CASE Replaced /\ ~(object' # None /\ activeTab' = "overview")
    BY <2>2, CardGoneKeeps DEF CardsFollow, CardsInv
  <2>3. CASE ~Replaced
    BY <2>3 DEF CardsFollow, CardsInv, Replaced, CardOK
  <2> QED
    BY <2>1, <2>2, <2>3
<1> QED
  BY <1>1, <1>2, <1>3, <1>4 DEF CardsInv

(* A tab is selected.                                                      *)
LEMMA SelectKeeps ==
    ASSUME PageInv, NEW t, SelectTab(t)
    PROVE  PageInv' /\ TabOK' /\ UNCHANGED <<backend, target, loadVars, owned>>
<1>1. UNCHANGED <<backend, target, loadVars, owned>>
  BY DEF SelectTab
<1>2. PageInv'
  BY <1>1, PageStays DEF SelectTab, PageInv, ObjectOK
<1>3. TabOK'
  BY <1>1 DEF SelectTab, TabOK, PageInv, ObjectOK, loadVars, tabs, kind, ownedPods
<1> QED
  BY <1>1, <1>2, <1>3

(* A tab the user picks, with the events card's mount or unmount.          *)
LEMMA CardsSelectKeeps ==
    ASSUME CardsInv, NEW t, CardsSelect(t)
    PROVE  CardsInv'
<1>1. PageInv' /\ TabOK' /\ UNCHANGED <<backend, target, loadVars, owned>>
  BY SelectKeeps DEF CardsInv, CardsSelect
<1>2. object' = object /\ object # None
  BY <1>1 DEF loadVars, CardsSelect, SelectTab
<1>3. CardOK'
  BY <1>2, CardLoadKeeps, CardGoneKeeps DEF CardsSelect, CardsInv
<1>4. OwnedOK'
  BY <1>1, <1>2 DEF CardsSelect, CardsInv, OwnedOK
<1> QED
  BY <1>1, <1>3, <1>4 DEF CardsInv

(* A walk over the pods ends.  A Logs tab that goes with it leaves for the *)
(* Overview of the workload, whose cards load.                             *)
LEMMA WalkedKeeps ==
    ASSUME CardsInv, NEW w \in walks, NEW outcome, Walked(w, outcome)
    PROVE  CardsInv'
<1>1. UNCHANGED <<target, object, lastUid, loadId>> /\ PageInv'
  BY PageStays DEF Walked, CardsInv, PageInv, ObjectOK, loadVars, mounts
<1>2. TabOK'
  BY BounceKeeps DEF Walked
<1>3. OwnedOK'
  <2>1. walks' = walks \ {w}
    BY DEF Walked
  <2>2. CASE w.id # loadId
    <3>1. owned' = owned
      BY <2>2 DEF Walked, Settled
    <3> QED
      BY <1>1, <2>1, <2>2, <3>1 DEF CardsInv, OwnedOK
  <2>3. CASE w.id = loadId
    <3>1. owned' = Landed(w, outcome)
      BY <2>3 DEF Walked, Settled
    <3>2. ~owned'.loading
      BY <3>1 DEF Landed
    <3>3. owned'.result = IF outcome = "fails" THEN w.kept
                          ELSE [uid |-> w.uid, pods |-> outcome = "some"]
      BY <3>1 DEF Landed
    <3>4. owned'.result # None => owned'.result.uid = w.uid
      BY <3>3 DEF CardsInv, OwnedOK
    <3> HIDE <3>1, <3>3
    <3> QED
      BY <1>1, <2>1, <2>3, <3>2, <3>4 DEF CardsInv, OwnedOK
  <2> QED
    BY <2>2, <2>3
<1>4. CardOK'
  <2>1. CASE activeTab' = activeTab
    BY <1>1, <2>1 DEF Walked, CardsInv, CardOK
  <2>2. CASE activeTab' # activeTab
    <3>1. object # None
      <4> SUFFICES ASSUME object = None PROVE FALSE
        OBVIOUS
      <4>1. activeTab \in {"overview", "yaml"}
        BY DEF CardsInv, TabOK, tabs, kind, ownedPods, OwnedOK
      <4>2. activeTab \in tabs(object', owned')
        BY <4>1 DEF tabs
      <4> QED
        BY <1>1, <2>2, <4>2 DEF Walked, Bounce, CardsInv, TabOK
    <3> QED
      BY <1>1, <2>2, <3>1, CardLoadKeeps DEF Walked, CardsInv
  <2> QED
    BY <2>1, <2>2
<1> QED
  BY <1>1, <1>2, <1>3, <1>4 DEF CardsInv

(* A scan that ends, for the card's present generation or an earlier one.  *)
LEMMA ScannedKeeps ==
    ASSUME CardsInv, NEW s \in scans, NEW ok \in BOOLEAN, Scanned(s, ok)
    PROVE  CardsInv'
<1>1. UNCHANGED <<page, lastUid, loadId, walks, cardId>> /\ scans' = scans \ {s}
  BY DEF Scanned
<1>2. PageInv' /\ TabOK' /\ OwnedOK'
  BY <1>1, PageStays
     DEF page, tabVars, loadVars, CardsInv, PageInv, ObjectOK, TabOK, tabs, kind, ownedPods, OwnedOK
<1>3. CASE s.id # cardId
  BY <1>1, <1>2, <1>3 DEF Scanned, CardsInv, CardOK, page, loadVars
<1>4. CASE s.id = cardId
  <2>1. ~card'.loading
    BY <1>4 DEF Scanned, CardShown
  <2>2. card'.result \in {s.uid, None}
    BY <1>4 DEF Scanned, CardShown
  <2> QED
    BY <1>1, <1>2, <1>4, <2>1, <2>2 DEF CardsInv, CardOK, page, loadVars
<1> QED
  BY <1>3, <1>4

(* Every step of the page and its cards keeps their invariant.             *)
LEMMA CardsStep ==
    ASSUME CardsInv, [CardsNext]_<<page, cardVars>>
    PROVE  CardsInv'
<1>1. CASE UNCHANGED <<page, cardVars>>
  BY <1>1, PageStays
     DEF page, tabVars, loadVars, cardVars, CardsInv, PageInv, ObjectOK, TabOK, tabs, kind,
         ownedPods, OwnedOK, CardOK
<1>2. CASE CardsNext
  BY <1>2, CardsFollowKeeps, CardsSelectKeeps, WalkedKeeps, ScannedKeeps DEF CardsNext
<1> QED
  BY <1>1, <1>2

(* The cards start empty, with no walk and no scan.                        *)
LEMMA CardsInitially == PageInit /\ CardsInit => CardsInv
<1> SUFFICES ASSUME PageInit, CardsInit PROVE CardsInv
  OBVIOUS
<1>1. owned.result = None /\ ~owned.loading /\ card.result = None /\ ~card.loading
  BY DEF PageInit, CardsInit, IDLE
<1>2. object = None /\ walks = {} /\ scans = {} /\ loadId = 0 /\ cardId = 0
  BY DEF PageInit, CardsInit
<1>3. OwnedOK /\ CardOK
  BY <1>1, <1>2 DEF OwnedOK, CardOK, kind
<1>4. activeTab = "overview"
  BY DEF PageInit
<1>5. TabOK
  BY <1>4 DEF TabOK, tabs
<1> QED
  BY <1>3, <1>5, PageInitially DEF CardsInv

(* What is on screen goes together, whatever loads, walks and card loads   *)
(* are in flight: useResourceObject's generation, useOwnedPods' loadId and *)
(* the cards' own each admit the answer of the last load only.             *)
THEOREM CardsBelong == CardsSpec => []PageBelongs
<1>1. CardsInv => PageBelongs
  BY DEF CardsInv, PageInv, ObjectOK, GetsOK, OwnedOK, CardOK, TabOK, PageBelongs, kind
<1> QED
  BY <1>1, CardsInitially, CardsStep, PTL DEF CardsSpec

-----------------------------------------------------------------------------
Socket == [id : Nat, pod : Targets \X Nat, open : BOOLEAN, closing : BOOLEAN, attached : BOOLEAN]

(* A session exists only while the tab is on screen.                       *)
SessionOK ==
    /\ gen \in Nat /\ started \in BOOLEAN
    /\ ws # None => ws = gen /\ started
    /\ started => terminalShown
    /\ screen \subseteq {gen}

(* The start of the present generation is for the pod on screen and has    *)
(* opened no socket.                                                       *)
StartsOK ==
    /\ \A s \in starts : /\ s.gen \in Nat /\ s.gen <= gen /\ s.pod \in Targets \X Nat
                         /\ s.gen = gen => /\ started /\ s.pod = uidOf(object)
                                           /\ \A k \in sockets : k.id # gen
    /\ \A s, r \in starts : s.gen = r.gen => s = r

(* Sockets are one per generation, and only the present one is not closing.*)
SocketsOK ==
    /\ sockets \subseteq Socket
    /\ \A s \in sockets : /\ s.id <= gen /\ (s.attached <=> ~s.closing)
                          /\ ~s.closing => /\ s.id = gen /\ ws = gen /\ started
                                           /\ s.pod = uidOf(object)
    /\ \A s, r \in sockets : s.id = r.id => s = r

StatusOK ==
    status \in {"connecting", "ready"} => ws = gen \/ \E s \in starts : s.gen = gen

ShellInv == SessionOK /\ StartsOK /\ SocketsOK /\ StatusOK

ExecInv == PageInv /\ ShellInv

(* stop() closes the one socket that was not closing.                      *)
LEMMA ClosingAll ==
    ASSUME SocketsOK, gen \in Nat
    PROVE  /\ Closing \subseteq Socket
           /\ \A k \in Closing : k.closing /\ ~k.attached /\ k.id <= gen
           /\ \A k, r \in Closing : k.id = r.id => k = r
<1> DEFINE close(s) == IF s.id = ws THEN [s EXCEPT !.closing = TRUE, !.attached = FALSE] ELSE s
<1>1. ASSUME NEW s \in sockets
      PROVE  /\ close(s) \in Socket /\ close(s).id = s.id /\ s.id <= gen
             /\ close(s).closing /\ ~close(s).attached
  <2>0. s \in Socket /\ s.id <= gen /\ (s.attached <=> ~s.closing) /\ (~s.closing => s.id = ws)
    BY DEF SocketsOK
  <2>1. CASE s.id = ws
    BY <2>0, <2>1 DEF Socket
  <2>2. CASE s.id # ws
    BY <2>0, <2>2 DEF Socket
  <2> QED
    BY <2>1, <2>2
<1>2. Closing = {close(s) : s \in sockets}
  BY DEF Closing
<1> HIDE DEF close
<1>3. \A s, r \in sockets : s.id = r.id => s = r
  BY DEF SocketsOK
<1> QED
  BY <1>1, <1>2, <1>3

(* Once stopped, nothing of the session is left, whatever the page shows.  *)
LEMMA StopKeeps ==
    ASSUME ShellInv, stop, status' \notin {"connecting", "ready"}
    PROVE  ShellInv'
<1>1. /\ gen \in Nat /\ gen' = gen + 1 /\ ws' = None /\ sockets' = Closing
      /\ started' = FALSE /\ screen' = {} /\ starts' = starts
  BY DEF ShellInv, SessionOK, stop
<1>2. \A s \in starts : s.gen \in Nat /\ s.gen < gen'
  BY <1>1 DEF ShellInv, StartsOK
<1>3. /\ sockets' \subseteq Socket
      /\ \A k \in sockets' : k.closing /\ ~k.attached /\ k.id <= gen
      /\ \A k, r \in sockets' : k.id = r.id => k = r
  BY <1>1, ClosingAll DEF ShellInv
<1>4. SocketsOK'
  BY <1>1, <1>3 DEF SocketsOK, Socket
<1>5. StartsOK'
  BY <1>1, <1>2 DEF ShellInv, StartsOK
<1>6. StatusOK'
  BY DEF StatusOK
<1>7. SessionOK'
  <2>1. gen' \in Nat
    BY <1>1
  <2> QED
    BY <1>1, <2>1, Zenon DEF SessionOK
<1> QED
  BY <1>4, <1>5, <1>6, <1>7 DEF ShellInv

(* Start terminal: a new generation with a start and no socket.            *)
LEMMA StartKeeps ==
    ASSUME ExecInv, Start
    PROVE  ExecInv'
<1> DEFINE new == [gen |-> gen', pod |-> uidOf(object)]
<1>1. /\ gen \in Nat /\ gen' = gen + 2 /\ gen' \in Nat /\ ws' = None /\ sockets' = Closing
      /\ started' = TRUE /\ screen' = {} /\ starts' = starts \cup {new} /\ UNCHANGED page
  BY DEF ExecInv, ShellInv, SessionOK, Start
<1>2. object' = object /\ terminalMounted' = terminalMounted /\ terminalShown
  BY <1>1 DEF page, loadVars, tabVars, Start
<1>3. uidOf(object) \in Targets \X Nat
  BY <1>2 DEF terminalShown, kind, uidOf, ExecInv, PageInv, ObjectOK, Object
<1>4. new.gen = gen' /\ new.pod = uidOf(object)
  OBVIOUS
<1> HIDE DEF new
<1>5. \A s \in starts : s.gen \in Nat /\ s.gen < gen'
  BY <1>1 DEF ExecInv, ShellInv, StartsOK
<1>6. /\ sockets' \subseteq Socket
      /\ \A k \in sockets' : k.closing /\ ~k.attached /\ k.id <= gen
      /\ \A k, r \in sockets' : k.id = r.id => k = r
  BY <1>1, ClosingAll DEF ExecInv, ShellInv
<1>7. \A k \in sockets' : k.id \in Nat /\ k.id < gen'
  BY <1>1, <1>6 DEF Socket
<1>8. SocketsOK'
  BY <1>1, <1>6, <1>7 DEF SocketsOK
<1>9. StartsOK' /\ StatusOK'
  BY <1>1, <1>2, <1>3, <1>4, <1>5, <1>7 DEF ExecInv, ShellInv, StartsOK, StatusOK
<1>10. SessionOK'
  BY <1>1, <1>2 DEF SessionOK, terminalShown
<1>11. PageInv'
  BY <1>1, PageStays DEF ExecInv, PageInv, ObjectOK, page, loadVars, tabVars
<1> QED
  BY <1>8, <1>9, <1>10, <1>11 DEF ExecInv, ShellInv

(* The token: the socket it opens is the first of its generation.          *)
LEMMA TokenKeeps ==
    ASSUME ShellInv, NEW s \in starts, TokenArrives(s) \/ NotAuthenticated(s),
           UNCHANGED <<object, terminalMounted>>
    PROVE  ShellInv'
<1>1. gen \in Nat /\ s.gen \in Nat /\ s.pod \in Targets \X Nat
  BY DEF ShellInv, SessionOK, StartsOK
<1>2. starts' = starts \ {s} /\ UNCHANGED <<started, gen, screen>>
  BY DEF TokenArrives, NotAuthenticated
<1>3. CASE UNCHANGED <<ws, sockets>> /\ ((status' = status /\ s.gen # gen) \/ status' = "error")
  BY <1>1, <1>2, <1>3 DEF ShellInv, SessionOK, StartsOK, SocketsOK, StatusOK, terminalShown
<1>4. CASE TokenArrives(s) /\ s.gen = gen
  <2> DEFINE new == [id |-> s.gen, pod |-> s.pod, open |-> FALSE, closing |-> FALSE, attached |-> TRUE]
  <2>1. ws' = gen /\ sockets' = sockets \cup {new} /\ status' = status
    BY <1>4 DEF TokenArrives
  <2>2. new \in Socket /\ new.id = gen /\ new.pod = s.pod /\ new.attached /\ ~new.closing
    BY <1>1, <1>4 DEF Socket
  <2> HIDE DEF new
  <2>3. started /\ s.pod = uidOf(object) /\ \A k \in sockets : k.id # gen
    BY <1>4 DEF ShellInv, StartsOK
  <2>4. SocketsOK'
    BY <1>1, <1>2, <2>1, <2>2, <2>3 DEF ShellInv, SocketsOK
  <2>5. StartsOK'
    BY <1>1, <1>2, <1>4, <2>1 DEF ShellInv, StartsOK
  <2>6. SessionOK' /\ StatusOK'
    BY <1>1, <1>2, <2>1, <2>3 DEF ShellInv, SessionOK, StatusOK, terminalShown
  <2> QED
    BY <2>4, <2>5, <2>6 DEF ShellInv
<1> QED
  BY <1>3, <1>4 DEF TokenArrives, NotAuthenticated

(* The socket opens; nothing but its own state changes.                    *)
LEMMA OpenedKeeps ==
    ASSUME ShellInv, NEW s \in sockets, Opened(s), UNCHANGED <<object, terminalMounted>>
    PROVE  ShellInv'
<1> DEFINE new == [s EXCEPT !.open = TRUE]
<1>1. s \in Socket
  BY DEF ShellInv, SocketsOK
<1>2. /\ new \in Socket /\ new.id = s.id /\ new.pod = s.pod
      /\ new.closing = s.closing /\ new.attached = s.attached
  BY <1>1 DEF Socket
<1>3. sockets' = (sockets \ {s}) \cup {new}
      /\ UNCHANGED <<started, status, gen, ws, starts, screen>>
  BY DEF Opened
<1> HIDE DEF new
<1>4. SocketsOK'
  BY <1>2, <1>3 DEF ShellInv, SocketsOK
<1>5. SessionOK' /\ StartsOK' /\ StatusOK'
  BY <1>2, <1>3 DEF ShellInv, SessionOK, StartsOK, StatusOK, terminalShown
<1> QED
  BY <1>4, <1>5 DEF ShellInv

(* A control frame or output: only the present session's is heard.         *)
LEMMA FrameKeeps ==
    ASSUME ShellInv, NEW s \in sockets, UNCHANGED <<object, terminalMounted>>,
           Output(s) \/ \E type : Control(s, type)
    PROVE  ShellInv'
<1>1. s.id = gen /\ ws = gen
  BY DEF ShellInv, SocketsOK, Output, Control
<1>2. UNCHANGED <<started, gen, ws, starts, sockets>> /\ screen' \subseteq screen \cup {s.id}
  BY DEF Output, Control
<1> QED
  BY <1>1, <1>2 DEF ShellInv, SessionOK, StartsOK, SocketsOK, StatusOK, terminalShown

(* A socket that goes: the one held goes with the hold on it.              *)
LEMMA ClosedKeeps ==
    ASSUME ShellInv, NEW s \in sockets, UNCHANGED <<object, terminalMounted>>,
           Closed(s) \/ SocketFails(s)
    PROVE  ShellInv'
<1>1. sockets' = sockets \ {s} /\ UNCHANGED <<started, gen, starts, screen>>
  BY DEF Closed, SocketFails
<1>2. s \in Socket /\ gen \in Nat /\ (s.attached <=> ~s.closing)
  BY DEF ShellInv, SocketsOK, SessionOK
<1>3. ~s.closing => ws' = None /\ status' \notin {"connecting", "ready"}
  <2>1. ~s.closing => s.attached /\ ws = s.id
    BY DEF ShellInv, SocketsOK
  <2> QED
    BY <2>1 DEF Closed, SocketFails
<1>4. s.closing => ws' = ws /\ status' = status
  BY <1>2 DEF Closed, SocketFails
<1>5. ws' \in {ws, None}
  BY <1>3, <1>4
<1>6. \A r \in sockets' : ~r.closing => s.closing
  BY <1>1 DEF ShellInv, SocketsOK
<1>7. SocketsOK'
  BY <1>1, <1>4, <1>6 DEF ShellInv, SocketsOK
<1>8. StartsOK' /\ SessionOK'
  BY <1>1, <1>5 DEF ShellInv, StartsOK, SessionOK, terminalShown
<1>9. StatusOK'
  BY <1>1, <1>3, <1>4 DEF ShellInv, StatusOK
<1> QED
  BY <1>7, <1>8, <1>9 DEF ShellInv

(* A step of the page: the tab stops before the pod it shows is another.   *)
LEMMA TerminalFollowsKeeps ==
    ASSUME ShellInv, TerminalFollows
    PROVE  ShellInv'
<1> DEFINE shown == terminalMounted' /\ kind(object') = "Pod"
<1>1. CASE terminalShown /\ (~shown \/ target' # target)
  BY <1>1, StopKeeps DEF TerminalFollows
<1>2. CASE terminalShown /\ shown /\ target' = target /\ uidOf(object') # uidOf(object)
  BY <1>2, StopKeeps DEF TerminalFollows, Stopped
<1>3. CASE /\ UNCHANGED execVars
           /\ ~terminalShown \/ (shown /\ uidOf(object') = uidOf(object))
  <2>1. started => terminalShown' /\ uidOf(object') = uidOf(object)
    BY <1>3 DEF ShellInv, SessionOK, terminalShown
  <2> QED
    BY <1>3, <2>1 DEF execVars, ShellInv, SessionOK, StartsOK, SocketsOK, StatusOK
<1> QED
  BY <1>1, <1>2, <1>3 DEF TerminalFollows

(* Every step of the page and the terminal keeps their invariant.          *)
LEMMA ExecStep ==
    ASSUME ExecInv, [ExecNext]_<<page, execVars>>
    PROVE  ExecInv'
<1>1. CASE UNCHANGED <<page, execVars>>
  <2>1. PageInv' /\ UNCHANGED <<object, terminalMounted>>
    BY <1>1, PageStays DEF page, tabVars, loadVars, ExecInv, PageInv, ObjectOK
  <2> QED
    BY <1>1, <2>1
       DEF ExecInv, execVars, ShellInv, SessionOK, StartsOK, SocketsOK, StatusOK, terminalShown
<1>2. CASE PageStep /\ TerminalFollows
  BY <1>2, PageKeeps, TerminalFollowsKeeps DEF ExecInv
<1>3. ASSUME NEW t, SelectTab(t), UNCHANGED execVars PROVE ExecInv'
  <2>1. PageInv' /\ object' = object /\ (terminalMounted => terminalMounted')
    BY <1>3, SelectKeeps DEF ExecInv, SelectTab, loadVars
  <2> QED
    BY <1>3, <2>1
       DEF ExecInv, execVars, ShellInv, SessionOK, StartsOK, SocketsOK, StatusOK, terminalShown
<1>4. CASE Start
  BY <1>4, StartKeeps
<1>5. ASSUME UNCHANGED page PROVE PageInv' /\ UNCHANGED <<object, terminalMounted>>
  BY <1>5, PageStays DEF page, tabVars, loadVars, ExecInv, PageInv, ObjectOK
<1>6. CASE Disconnect
  BY <1>5, <1>6, StopKeeps DEF Disconnect, Stopped, ExecInv
<1>7. ASSUME NEW s \in starts, TokenArrives(s) \/ NotAuthenticated(s) PROVE ExecInv'
  BY <1>5, <1>7, TokenKeeps DEF TokenArrives, NotAuthenticated, ExecInv
<1>8. ASSUME NEW s \in sockets, Opened(s) PROVE ExecInv'
  BY <1>5, <1>8, OpenedKeeps DEF Opened, ExecInv
<1>9. ASSUME NEW s \in sockets, Output(s) \/ \E type : Control(s, type) PROVE ExecInv'
  BY <1>5, <1>9, FrameKeeps DEF Output, Control, ExecInv
<1>10. ASSUME NEW s \in sockets, Closed(s) \/ SocketFails(s) PROVE ExecInv'
  BY <1>5, <1>10, ClosedKeeps DEF Closed, SocketFails, ExecInv
<1> QED
  BY <1>1, <1>2, <1>3, <1>4, <1>6, <1>7, <1>8, <1>9, <1>10 DEF ExecNext

(* The terminal starts disconnected, with no socket of any attempt.        *)
LEMMA ExecInitially == PageInit /\ ExecInit => ExecInv
<1> SUFFICES ASSUME PageInit, ExecInit PROVE ExecInv
  OBVIOUS
<1>1. SessionOK /\ StatusOK
  BY DEF ExecInit, SessionOK, StatusOK
<1>2. StartsOK /\ SocketsOK
  BY DEF ExecInit, StartsOK, SocketsOK
<1> QED
  BY <1>1, <1>2, PageInitially DEF ExecInv, ShellInv

(* The terminal tells the truth, however starts, tokens, socket events and *)
(* page loads interleave: useExecSession's generation admits one start and *)
(* one socket at a time, and the tab stops it before its pod is another.   *)
THEOREM TerminalIsTruthful == ExecSpec => []TerminalTruthful
<1>1. ExecInv => TerminalTruthful
  BY DEF ExecInv, ShellInv, SessionOK, SocketsOK, StatusOK, TerminalTruthful, terminalShown, kind
<1> QED
  BY <1>1, ExecInitially, ExecStep, PTL DEF ExecSpec

(* The held socket is let go only by a Disconnect, with the socket itself, *)
(* or where the page moves to another route or pod.                        *)
LEMMA ShellStep ==
    ASSUME ExecInv, ExecNext, ws # None, ws' = None
    PROVE  \/ Disconnect \/ target' # target \/ object.of # target
           \/ object' # None /\ uidOf(object') # uidOf(object)
           \/ ws \notin {s.id : s \in sockets'}
<1>0. ws = gen /\ started /\ terminalShown
  BY DEF ExecInv, ShellInv, SessionOK
<1>1. CASE PageStep /\ TerminalFollows
  <2>1. PageMoves
    BY <1>1, PageKeeps DEF ExecInv
  <2>2. object # None /\ object \in Object /\ Kind[object.of] = "Pod" /\ terminalMounted
    BY <1>0 DEF terminalShown, kind, ExecInv, PageInv, ObjectOK
  <2>3. CASE ~(terminalMounted' /\ kind(object') = "Pod") /\ target' = target
    <3>1. terminalMounted' = terminalMounted
      BY <2>1, <2>3 DEF PageMoves, mounts
    <3>2. kind(object') # kind(object) /\ object' # object
      BY <2>2, <2>3, <3>1 DEF kind
    <3>3. CASE object' = None
      BY <2>1, <2>3, <3>2, <3>3 DEF PageMoves
    <3>4. CASE object' # None
      BY <2>1, <2>2, <2>3, <3>2, <3>4 DEF PageMoves, kind
    <3> QED
      BY <3>3, <3>4
  <2>4. CASE terminalMounted' /\ kind(object') = "Pod" /\ target' = target
    <3>1. uidOf(object') # uidOf(object)
      BY <1>0, <1>1, <2>4 DEF TerminalFollows, execVars
    <3> QED
      BY <2>4, <3>1 DEF kind
  <2> QED
    BY <2>3, <2>4
<1>2. ASSUME NEW s \in sockets, Closed(s) \/ SocketFails(s)
      PROVE  ws \notin {r.id : r \in sockets'}
  <2>1. sockets' = sockets \ {s} /\ ws = s.id
    BY <1>2 DEF Closed, SocketFails
  <2> QED
    BY <2>1 DEF ExecInv, ShellInv, SocketsOK
<1>3. ASSUME NEW s \in starts, TokenArrives(s) \/ NotAuthenticated(s) PROVE FALSE
  BY <1>0, <1>3 DEF TokenArrives, NotAuthenticated
<1>4. ASSUME UNCHANGED ws PROVE FALSE
  BY <1>4
<1> QED
  BY <1>0, <1>1, <1>2, <1>3, <1>4
     DEF ExecNext, Start, execVars, Opened, Output, Control

(* A live shell survives refreshes, failed ones included, and changes of   *)
(* tabs: TerminalFollows stops it only for another route or another pod.   *)
THEOREM ShellAlwaysSurvives == ExecSpec => ShellSurvives
<1>1. ASSUME ExecInv, [ExecNext]_<<page, execVars>>
      PROVE  [ws # None /\ ws' = None =>
                \/ Disconnect \/ target' # target \/ object.of # target
                \/ object' # None /\ uidOf(object') # uidOf(object)
                \/ ws \notin {s.id : s \in sockets'}]_<<page, execVars>>
  BY <1>1, ShellStep
<1> QED
  BY <1>1, ExecInitially, ExecStep, PTL DEF ExecSpec, ShellSurvives

-----------------------------------------------------------------------------
Write(verb, to, hits, done, mine) ==
    [verb |-> verb, to |-> to, hits |-> hits, done |-> done, mine |-> mine]

(* A request in flight names an object; once carried out, the server has   *)
(* what it did or newer.  Off the page no dialog is mounted.               *)
WritesOK ==
    /\ \A w \in writes : /\ w = Write(w.verb, w.to, w.hits, w.done, w.mine) /\ w.to \in Targets
                         /\ w.done # None => w.done \in Nat /\ w.done <= server[w.to].content
                         /\ w.mine => target # None
                         /\ w.mine /\ w.verb # "delete" => object # None
    /\ dialog # None => object # None
    /\ target = None => del = DeleteDialog

(* What a mounted dialog reported done is on the server, in the answer to  *)
(* the present get, and on screen.                                         *)
AckOK ==
    /\ acked \in [Targets -> Nat]
    /\ \A t \in Targets : acked[t] <= server[t].content
    /\ \A g \in gets : g.gen = generation /\ g.answer # None => g.answer.content >= acked[g.key]
    /\ OwnWritesShown

DialogInv == PageInv /\ WritesOK /\ AckOK

(* Contents only grow: every change brings a newer one.                    *)
ServerGrows == \A t \in Targets : server[t].content <= server'[t].content

(* No step of the page takes an object of the server back to older         *)
(* content.                                                                *)
LEMMA PageServerGrows == ASSUME PageInv, PageStep PROVE ServerGrows
<1>1. ASSUME NEW t \in Targets, ServerEdits(t) PROVE ServerGrows
  <2>1. \A u \in Targets : server[u] \in Object /\ server[u].content <= edits
    BY DEF PageInv, ServerOK
  <2>2. edits \in Nat /\ edits' = edits + 1 /\ server' = [server EXCEPT ![t].content = edits']
    BY <1>1 DEF ServerEdits, PageInv, ServerOK
  <2>3. [server[t] EXCEPT !.content = edits'].content = edits'
    BY <2>1 DEF Object
  <2>4. server'[t].content = edits' /\ \A u \in Targets \ {t} : server'[u] = server[u]
    BY <2>2, <2>3 DEF PageInv, ServerOK
  <2> QED
    BY <2>1, <2>2, <2>4 DEF ServerGrows, Object
<1>2. ASSUME NEW t \in Targets, Recreated(t) PROVE ServerGrows
  <2>1. \A u \in Targets : server[u] \in Object /\ server[u].content <= edits
    BY DEF PageInv, ServerOK
  <2>2. edits \in Nat /\ edits' = edits + 1
        /\ server' = [server EXCEPT ![t] = Anew(server[t], edits')]
    BY <1>2 DEF Recreated, PageInv, ServerOK
  <2>3. Anew(server[t], edits').content = edits'
    BY <2>1, <2>2, AnewIsObject
  <2>4. server'[t].content = edits' /\ \A u \in Targets \ {t} : server'[u] = server[u]
    BY <2>2, <2>3 DEF PageInv, ServerOK
  <2> QED
    BY <2>1, <2>2, <2>4 DEF ServerGrows, Object
<1>3. ASSUME server' = server PROVE ServerGrows
  BY <1>3 DEF ServerGrows, PageInv, ServerOK, Object
<1> QED
  BY <1>1, <1>2, <1>3
     DEF PageStep, Navigate, ClickRefresh, Leave, Served, Got, GetFails, backend

(* A step of the page shows no less than was reported done.                *)
LEMMA AckFollows ==
    ASSUME PageInv, AckOK, PageStep, UNCHANGED acked
    PROVE  AckOK'
<1>0. PageInv' /\ ServerGrows
  BY PageKeeps, PageServerGrows
<1>1. \A t \in Targets : acked'[t] <= server'[t].content
  BY <1>0 DEF ServerGrows, AckOK, PageInv, ServerOK, Object
<1>2. acked' \in [Targets -> Nat]
  BY DEF AckOK
<1>a. \A g \in gets : g \in Get /\ g.gen <= generation /\ generation \in Nat
  BY DEF PageInv, GetsOK
<1>3. ASSUME loading', NEW t \in Targets, refreshOf(t)
      PROVE  AckOK'
  <2> DEFINE new == [gen |-> generation', key |-> t, answer |-> None]
  <2>1. gets' = gets \cup {new} /\ new.answer = None /\ generation' = generation + 1
    BY <1>3 DEF refreshOf
  <2> HIDE DEF new
  <2>2. \A g \in gets' : g.gen = generation' => g.answer = None
    BY <2>1, <1>a DEF Get
  <2> QED
    BY <1>1, <1>2, <1>3, <2>2 DEF AckOK, OwnWritesShown
<1>4. ASSUME NEW g \in gets, Served(g) PROVE AckOK'
  <2> DEFINE new == [g EXCEPT !.answer = server[g.key]]
  <2>1. new.gen = g.gen /\ new.key = g.key /\ new.answer = server[g.key] /\ g.key \in Targets
    BY <1>a DEF Get
  <2>2. gets' = (gets \ {g}) \cup {new}
        /\ UNCHANGED <<server, target, object, loading, error, generation>>
    BY <1>4 DEF Served, backend
  <2> HIDE DEF new
  <2> QED
    BY <1>1, <1>2, <2>1, <2>2 DEF AckOK, OwnWritesShown
<1>5. ASSUME NEW g \in gets, Got(g) PROVE AckOK'
  <2>1. gets' = gets \ {g} /\ UNCHANGED <<target, error, generation>>
    BY <1>5 DEF Got
  <2>2. CASE g.gen = generation
    <3>1. object' = g.answer /\ g.answer # None /\ g.key = target
      BY <1>5, <2>2 DEF Got, PageInv, GetsOK
    <3> QED
      BY <1>1, <1>2, <2>1, <2>2, <3>1 DEF AckOK, OwnWritesShown
  <2>3. CASE g.gen # generation
    BY <1>1, <1>2, <1>5, <2>1, <2>3 DEF Got, AckOK, OwnWritesShown
  <2> QED
    BY <2>2, <2>3
<1>6. ASSUME NEW g \in gets, GetFails(g) PROVE AckOK'
  BY <1>1, <1>2, <1>6 DEF GetFails, AckOK, OwnWritesShown
<1>7. CASE Leave
  BY <1>1, <1>2, <1>7, <1>a DEF Leave, AckOK, OwnWritesShown, Get
<1>8. ASSUME NEW t \in Targets, ServerEdits(t) \/ Recreated(t) PROVE AckOK'
  BY <1>1, <1>2, <1>8 DEF ServerEdits, Recreated, loadVars, AckOK, OwnWritesShown
<1>9. ASSUME NEW t \in Targets, Navigate(t) PROVE AckOK'
  BY <1>3, <1>9 DEF Navigate, refreshOf
<1>10. CASE ClickRefresh
  BY <1>3, <1>10 DEF ClickRefresh, refresh, refreshOf, PageInv, ObjectOK
<1> QED
  BY <1>4, <1>5, <1>6, <1>7, <1>8, <1>9, <1>10 DEF PageStep

(* Requests whose dialogs the page's step leaves on screen.                *)
LEMMA WritesFollow ==
    ASSUME PageInv, WritesOK, PageStep, DialogsFollow
    PROVE  WritesOK'
<1> DEFINE heard(w) == w.mine /\ target' # None /\ (w.verb = "delete" \/ dialog' # None)
           after(w) == [w EXCEPT !.mine = heard(w)]
<1>1. writes' = {after(w) : w \in writes}
  BY DEF DialogsFollow
<1>2. ServerGrows /\ PageInv'
  BY PageServerGrows, PageKeeps
<1>3. dialog' # None => object' # None
  BY DEF DialogsFollow, actionsFor, kind
<1>4. ASSUME NEW w \in writes
      PROVE  /\ after(w) = Write(after(w).verb, after(w).to, after(w).hits, after(w).done, after(w).mine)
             /\ after(w).verb = w.verb /\ after(w).to = w.to /\ after(w).done = w.done
             /\ after(w).mine = heard(w)
  <2>0. w = Write(w.verb, w.to, w.hits, w.done, w.mine)
    BY DEF WritesOK
  <2>1. PICK m : m = heard(w)
    BY Zenon
  <2>2. PICK x : x = after(w)
    BY Zenon
  <2>3. x = [w EXCEPT !.mine = m]
    BY <2>1, <2>2, Zenon
  <2>4. /\ x = Write(x.verb, x.to, x.hits, x.done, x.mine)
        /\ x.verb = w.verb /\ x.to = w.to /\ x.done = w.done /\ x.mine = m
    BY <2>0, <2>3 DEF Write
  <2> QED
    BY <2>1, <2>2, <2>4, Zenon
<1> HIDE DEF after
<1>5. ASSUME NEW w \in writes
      PROVE  /\ w.to \in Targets
             /\ w.done # None => w.done \in Nat /\ w.done <= server'[w.to].content
  <2>1. /\ w.to \in Targets
        /\ w.done # None => w.done \in Nat /\ w.done <= server[w.to].content
    BY DEF WritesOK
  <2>2. /\ server[w.to].content \in Nat /\ server'[w.to].content \in Nat
        /\ server[w.to].content <= server'[w.to].content
    BY <1>2, <2>1 DEF PageInv, ServerOK, Object, ServerGrows
  <2> QED
    BY <2>1, <2>2
<1>6. ASSUME NEW x \in writes'
      PROVE  /\ x = Write(x.verb, x.to, x.hits, x.done, x.mine) /\ x.to \in Targets
             /\ x.done # None => x.done \in Nat /\ x.done <= server'[x.to].content
             /\ x.mine => target' # None
             /\ x.mine /\ x.verb # "delete" => object' # None
  <2>1. PICK w \in writes : x = after(w)
    BY <1>1, <1>6
  <2>2. /\ x = Write(x.verb, x.to, x.hits, x.done, x.mine)
        /\ x.verb = w.verb /\ x.to = w.to /\ x.done = w.done /\ x.mine = heard(w)
    BY <1>4, <2>1, Zenon
  <2>3. /\ x.to \in Targets
        /\ x.done # None => x.done \in Nat /\ x.done <= server'[x.to].content
    <3>1. x.to = w.to /\ x.done = w.done
      BY <2>2
    <3> QED
      BY <1>5, <3>1, Zenon
  <2>4. x.mine => target' # None /\ (x.verb = "delete" \/ dialog' # None)
    BY <2>2, Zenon
  <2> QED
    BY <1>3, <2>2, <2>3, <2>4, Zenon
<1>7. target' = None => del' = DeleteDialog
  BY DEF DialogsFollow
<1> QED
  BY <1>3, <1>6, <1>7, Zenon DEF WritesOK

(* A success reported is one the server has: what w did, or newer.         *)
LEMMA ReportedOnServer ==
    ASSUME DialogInv, NEW w \in writes, w.done # None
    PROVE  /\ Reported(acked, w) \in [Targets -> Nat]
           /\ \A t \in Targets : Reported(acked, w)[t] <= server[t].content
<1>1. w.to \in Targets /\ w.done \in Nat /\ w.done <= server[w.to].content
  BY DEF DialogInv, WritesOK
<1>2. acked \in [Targets -> Nat] /\ \A t \in Targets : acked[t] <= server[t].content
  BY DEF DialogInv, AckOK
<1> QED
  BY <1>1, <1>2 DEF Reported

(* onDeleted: the page is gone, and with it every dialog.                  *)
LEMMA DeletedKeeps ==
    ASSUME DialogInv, NEW w \in writes, onDeleted(w)
    PROVE  DialogInv'
<1> DEFINE after(x) == [x EXCEPT !.mine = FALSE]
<1>1. PageStep /\ Leave /\ acked' = Reported(acked, w) /\ w.done # None
  BY DEF onDeleted, PageStep
<1>2. PageInv' /\ AckOK'
  <2>1. PageInv'
    BY <1>1, PageKeeps DEF DialogInv
  <2>2. \A g \in gets : g \in Get /\ g.gen <= generation /\ generation \in Nat
    BY DEF DialogInv, PageInv, GetsOK
  <2>3. \A g \in gets' : g.gen # generation'
    BY <1>1, <2>2 DEF Leave, Get
  <2>4. target' = None /\ server' = server
    BY <1>1 DEF Leave, backend
  <2>5. /\ acked' \in [Targets -> Nat]
        /\ \A t \in Targets : acked'[t] <= server'[t].content
    BY <1>1, <2>4, ReportedOnServer
  <2> QED
    BY <2>1, <2>3, <2>4, <2>5 DEF AckOK, OwnWritesShown
<1>3. /\ writes' = {after(x) : x \in writes \ {w}} /\ dialog' = None /\ del' = DeleteDialog
      /\ target' = None /\ object' = None /\ server' = server
  BY DEF onDeleted, Leave, backend
<1>4. ASSUME NEW x \in writes
      PROVE  /\ after(x) = Write(after(x).verb, after(x).to, after(x).hits, after(x).done, after(x).mine)
             /\ after(x).to = x.to /\ after(x).done = x.done /\ after(x).mine = FALSE
  <2>0. x = Write(x.verb, x.to, x.hits, x.done, x.mine)
    BY DEF DialogInv, WritesOK
  <2>1. PICK m : m = FALSE
    BY Zenon
  <2>2. PICK y : y = after(x)
    BY Zenon
  <2>3. y = [x EXCEPT !.mine = m]
    BY <2>1, <2>2, Zenon
  <2>4. /\ y = Write(y.verb, y.to, y.hits, y.done, y.mine)
        /\ y.verb = x.verb /\ y.to = x.to /\ y.done = x.done /\ y.mine = m
    BY <2>0, <2>3 DEF Write
  <2> QED
    BY <2>1, <2>2, <2>4, Zenon
<1> HIDE DEF after
<1>5. ASSUME NEW y \in writes'
      PROVE  /\ y = Write(y.verb, y.to, y.hits, y.done, y.mine) /\ y.to \in Targets
             /\ y.done # None => y.done \in Nat /\ y.done <= server'[y.to].content
             /\ ~y.mine
  <2>1. PICK x \in writes : y = after(x)
    BY <1>3, <1>5
  <2>2. /\ x.to \in Targets
        /\ x.done # None => x.done \in Nat /\ x.done <= server'[x.to].content
    BY <1>3 DEF DialogInv, WritesOK
  <2> QED
    BY <1>4, <2>1, <2>2, Zenon
<1>6. WritesOK'
  BY <1>3, <1>5, Zenon DEF WritesOK
<1> QED
  BY <1>2, <1>6 DEF DialogInv

(* A request carried out leaves an object of the same name, no older.      *)
LEMMA CarriedObject ==
    ASSUME NEW o \in Object, NEW verb, NEW content \in Nat
    PROVE  LET r == CarriedOut(o, verb, content)
           IN  r \in Object /\ r.of = o.of /\ r.content \in {o.content, content}
<1>1. CASE verb = "delete"
  BY <1>1, AnewIsObject DEF CarriedOut
<1>2. CASE verb # "delete" /\ ~Takes(o, verb)
  BY <1>2 DEF CarriedOut
<1>3. CASE verb # "delete" /\ Takes(o, verb)
  <2> DEFINE held == verb \in {"suspend", "cordon"} \/
                     (o.held /\ verb \notin {"resume", "uncordon"})
             o1 == [o EXCEPT !.content = content]
  <2>1. CarriedOut(o, verb, content) = [o EXCEPT !.content = content, !.held = held]
    BY <1>3, Zenon DEF CarriedOut
  <2>2. held \in BOOLEAN
    BY Zenon
  <2> HIDE DEF held
  <2>3. o1 \in Object /\ o1.of = o.of /\ o1.content = content
    BY DEF Object
  <2> HIDE DEF o1
  <2>4. [o1 EXCEPT !.held = held] \in Object
        /\ [o1 EXCEPT !.held = held].of = o.of /\ [o1 EXCEPT !.held = held].content = content
    BY <2>2, <2>3 DEF Object
  <2> QED
    BY <2>1, <2>4, Zenon DEF o1
<1> QED
  BY <1>1, <1>2, <1>3

(* The API server carries a write out: what it holds next is that write's. *)
LEMMA CarriedKeeps ==
    ASSUME DialogInv, NEW w \in writes, Carried(w)
    PROVE  DialogInv'
<1> DEFINE o == CarriedOut(server[w.to], w.verb, edits')
           x == [w EXCEPT !.done = server'[w.to].content]
<1>1. /\ w.to \in Targets /\ edits \in Nat /\ edits' = edits + 1
      /\ server[w.to] \in Object /\ server[w.to].of = w.to /\ server[w.to].content <= edits
  BY DEF Carried, DialogInv, WritesOK, PageInv, ServerOK
<1>2. o \in Object /\ o.of = w.to /\ o.content \in {server[w.to].content, edits'}
  BY <1>1, CarriedObject
<1>3. /\ server' = [server EXCEPT ![w.to] = o]
      /\ UNCHANGED <<target, loadVars, tabVars, dialog, del, acked>>
  BY DEF Carried, history
<1>4. writes' = (writes \ {w}) \cup {x}
  BY DEF Carried
<1> HIDE DEF o
<1>5. ServerOK' /\ ServerGrows
  BY <1>1, <1>2, <1>3 DEF ServerOK, ServerGrows, DialogInv, PageInv, Object
<1>6. PageInv'
  BY <1>3, <1>5 DEF DialogInv, PageInv, GetsOK, ObjectOK, loadVars, tabVars
<1>7. \A t \in Targets : /\ server[t].content \in Nat /\ server'[t].content \in Nat
                         /\ server[t].content <= server'[t].content
  BY <1>5, <1>6 DEF DialogInv, PageInv, ServerOK, ServerGrows, Object
<1>8. AckOK'
  BY <1>3, <1>7 DEF DialogInv, AckOK, OwnWritesShown, loadVars
<1>9. /\ x = Write(x.verb, x.to, x.hits, x.done, x.mine) /\ x.to = w.to /\ x.verb = w.verb
      /\ x.done = server'[w.to].content /\ x.mine = w.mine
  <2>1. w = Write(w.verb, w.to, w.hits, w.done, w.mine)
    BY DEF DialogInv, WritesOK
  <2> QED
    BY <2>1 DEF Write
<1> HIDE DEF x
<1>10. \A v \in writes \ {w} : v.done # None => v.done \in Nat /\ v.done <= server'[v.to].content
  BY <1>7 DEF DialogInv, WritesOK
<1>11. x.done \in Nat /\ x.done <= server'[x.to].content
  BY <1>1, <1>7, <1>9
<1>12. WritesOK'
  BY <1>1, <1>3, <1>4, <1>9, <1>10, <1>11 DEF DialogInv, WritesOK, loadVars
<1> QED
  BY <1>6, <1>8, <1>12 DEF DialogInv

(* Done: the load it asks for is the one whose answer will show it.        *)
LEMMA DoneKeeps ==
    ASSUME DialogInv, NEW w \in writes, Done(w)
    PROVE  DialogInv'
<1>1. /\ w.to \in Targets /\ w.done \in Nat /\ w.done <= server[w.to].content
      /\ target # None /\ object # None
  BY DEF Done, DialogInv, WritesOK
<1>2. /\ acked' = Reported(acked, w) /\ writes' = writes \ {w} /\ del' = del
      /\ UNCHANGED <<backend, target, object, tabVars>>
      /\ target \in Targets /\ refreshOf(target)
  BY <1>1 DEF Done, refresh, DialogInv, PageInv, ObjectOK
<1>3. PageInv'
  BY <1>2, RefreshKeeps DEF DialogInv, PageInv, ObjectOK, tabVars
<1>4. AckOK'
  <2> DEFINE new == [gen |-> generation', key |-> target, answer |-> None]
  <2>1. gets' = gets \cup {new} /\ new.answer = None /\ generation' = generation + 1
    BY <1>2 DEF refreshOf
  <2> HIDE DEF new
  <2>2. \A g \in gets' : g.gen = generation' => g.answer = None
    BY <2>1 DEF Get, DialogInv, PageInv, GetsOK
  <2>3. loading' /\ server' = server
    BY <1>2 DEF refreshOf, backend
  <2>4. acked' \in [Targets -> Nat] /\ \A t \in Targets : acked'[t] <= server'[t].content
    BY <1>2, <2>3, ReportedOnServer DEF Done
  <2> QED
    BY <2>2, <2>3, <2>4 DEF AckOK, OwnWritesShown
<1>5. WritesOK'
  BY <1>1, <1>2 DEF DialogInv, WritesOK, backend
<1> QED
  BY <1>3, <1>4, <1>5 DEF DialogInv

(* Steps of the dialogs alone: a dialog is used where it is on screen, and *)
(* sends a request for the object it is about.                             *)
LEMMA DialogAlone ==
    ASSUME DialogInv, UNCHANGED <<page, acked>>,
           dialog' = dialog \/ object # None, del' = del \/ target # None,
           \/ writes' \subseteq writes
           \/ \E verb, to, hits : /\ writes' = writes \cup {Request(verb, to, hits)}
                                  /\ to \in Targets /\ target # None
                                  /\ verb # "delete" => object # None
    PROVE  DialogInv'
<1>1. UNCHANGED <<server, target, object, loading, error, generation, gets, terminalMounted,
                  yamlMounted, acked>>
  BY DEF page, backend, loadVars, tabVars
<1>2. PageInv' /\ AckOK'
  BY <1>1 DEF DialogInv, PageInv, ServerOK, GetsOK, ObjectOK, AckOK, OwnWritesShown, page, backend
<1>3. ASSUME writes' \subseteq writes PROVE WritesOK'
  BY <1>1, <1>3 DEF DialogInv, WritesOK
<1>4. ASSUME NEW verb, NEW to \in Targets, NEW hits, target # None,
             verb # "delete" => object # None,
             writes' = writes \cup {Request(verb, to, hits)}
      PROVE  WritesOK'
  <2> DEFINE new == Request(verb, to, hits)
  <2>1. new = Write(new.verb, new.to, new.hits, new.done, new.mine)
        /\ new.verb = verb /\ new.to = to /\ new.done = None
    BY DEF Request, Write
  <2>2. writes' = writes \cup {new}
    BY <1>4
  <2> HIDE DEF new
  <2> QED
    BY <1>1, <1>4, <2>1, <2>2 DEF DialogInv, WritesOK
<1>5. WritesOK'
  <2>1. CASE writes' \subseteq writes
    BY <1>3, <2>1
  <2>2. CASE ~(writes' \subseteq writes)
    <3>1. PICK verb, to, hits : /\ writes' = writes \cup {Request(verb, to, hits)}
                                /\ to \in Targets /\ target # None
                                /\ verb # "delete" => object # None
      BY <2>2, Zenon
    <3> QED
      BY <1>4, <3>1, Zenon
  <2> QED
    BY <2>1, <2>2
<1> QED
  BY <1>2, <1>5 DEF DialogInv

(* Every step of the page and its dialogs keeps their invariant.           *)
LEMMA DialogStep ==
    ASSUME DialogInv, [DialogNext]_<<page, dialogVars>>
    PROVE  DialogInv'
<1>0. /\ object # None => target # None /\ object.of \in Targets
      /\ target # None => target \in Targets
      /\ dialog # None => object # None
  BY DEF DialogInv, PageInv, ObjectOK, WritesOK, Object
<1>a. del.open => target # None
  BY DEF DialogInv, WritesOK, DeleteDialog
<1>1. CASE UNCHANGED <<page, dialogVars>>
  BY <1>1, DialogAlone DEF dialogVars, history
<1>2. CASE PageStep /\ DialogsFollow
  BY <1>2, PageKeeps, WritesFollow, AckFollows DEF DialogInv, DialogsFollow, history
<1>3. ASSUME NEW a, start(a) PROVE DialogInv'
  BY <1>0, <1>3, DialogAlone DEF start, history
<1>4. ASSUME NEW input, Edit(input) PROVE DialogInv'
  BY <1>0, <1>4, DialogAlone DEF Edit, ActionShown, history
<1>5. CASE runAction
  <2>1. UNCHANGED <<page, acked, del>> /\ object # None /\ target # None /\ object.of \in Targets
    BY <1>0, <1>5 DEF runAction, ActionShown, history
  <2>2. \E verb, to, hits : /\ writes' = writes \cup {Request(verb, to, hits)}
                            /\ to \in Targets /\ target # None
                            /\ verb # "delete" => object # None
    BY <1>5, <2>1, Zenon DEF runAction, perform
  <2> QED
    BY <2>1, <2>2, DialogAlone
<1>6. CASE Dismiss
  BY <1>0, <1>6, DialogAlone DEF Dismiss, ActionShown, history
<1>7. CASE OpenDelete
  BY <1>0, <1>7, DialogAlone DEF OpenDelete, history
<1>8. ASSUME NEW t, TypeName(t) PROVE DialogInv'
  BY <1>a, <1>8, DialogAlone DEF TypeName, history
<1>9. CASE runDelete
  <2>1. UNCHANGED <<page, acked, dialog>> /\ target # None /\ target \in Targets
    BY <1>0, <1>a, <1>9 DEF runDelete, history
  <2>2. \E verb, to, hits : /\ writes' = writes \cup {Request(verb, to, hits)}
                            /\ to \in Targets /\ target # None
                            /\ verb # "delete" => object # None
    BY <1>9, <2>1, Zenon DEF runDelete
  <2> QED
    BY <2>1, <2>2, DialogAlone
<1>10. CASE DismissDelete
  BY <1>a, <1>10, DialogAlone DEF DismissDelete, history
<1>11. ASSUME NEW w \in writes, Failed(w) PROVE DialogInv'
  <2>1. w.mine => target # None /\ (w.verb # "delete" => object # None)
    BY DEF DialogInv, WritesOK
  <2>2. (dialog' = dialog \/ object # None) /\ (del' = del \/ target # None)
    BY <1>11, <2>1 DEF Failed
  <2> QED
    BY <1>11, <2>2, DialogAlone DEF Failed, history
<1>12. ASSUME NEW w \in writes, DoneUnmounted(w) PROVE DialogInv'
  BY <1>12, DialogAlone DEF DoneUnmounted
<1> QED
  BY <1>1, <1>2, <1>3, <1>4, <1>5, <1>6, <1>7, <1>8, <1>9, <1>10, <1>11, <1>12,
     CarriedKeeps, DoneKeeps, DeletedKeeps DEF DialogNext

(* The dialogs start closed, with no write in flight.                      *)
LEMMA DialogInitially == PageInit /\ DialogInit => DialogInv
<1> SUFFICES ASSUME PageInit, DialogInit PROVE DialogInv
  OBVIOUS
<1>1. PageInv
  BY PageInitially
<1>2. WritesOK
  BY DEF DialogInit, WritesOK
<1>3. acked \in [Targets -> Nat] /\ \A t \in Targets : acked[t] = 0
  BY DEF DialogInit
<1>4. \A t \in Targets : acked[t] <= server[t].content
  BY <1>1, <1>3 DEF PageInv, ServerOK, Object
<1>5. gets = {} /\ target = None
  BY DEF PageInit
<1> QED
  BY <1>1, <1>2, <1>3, <1>4, <1>5 DEF DialogInv, AckOK, OwnWritesShown

(* A success that a mounted dialog reports is on screen once the loads     *)
(* settle: Done begins a load after the write was carried out, and the     *)
(* generation drops every answer that left the server before it.  Nothing  *)
(* is said of an unmounted dialog's toast, behind which no load begins.    *)
THEOREM OwnWritesAreShown == DialogSpec => []OwnWritesShown
<1>1. DialogInv => OwnWritesShown
  BY DEF DialogInv, AckOK
<1> QED
  BY <1>1, DialogInitially, DialogStep, PTL DEF DialogSpec

-----------------------------------------------------------------------------
Text == [of : Targets, content : Nat, decoded : BOOLEAN]
Fields == {"draft", "baseline", "decoded", "showFull", "busy", "banner", "objectChanged"}

(* No content is newer than the newest.                                    *)
SeenOK ==
    /\ object # None => object.content <= edits
    /\ \A g \in gets : g.answer # None => g.answer.content <= edits

(* At rest the baseline is the object on screen, and an editor without     *)
(* unsaved edits is clean.                                                 *)
EditorOK ==
    tab # None =>
        /\ DOMAIN tab = Fields /\ tab.decoded \in BOOLEAN
        /\ tab.draft \in Text /\ tab.draft.content <= edits
        /\ tab.baseline \in Text /\ tab.baseline.content <= edits
        /\ object # None
        /\ ~loading /\ ~error => tab.baseline = project(object, tab.decoded)
        /\ unsaved = None => tab.draft = tab.baseline

(* An apply of an earlier editor does not carry what is unsaved in this    *)
(* one.                                                                    *)
AppliesOK ==
    /\ tabId \in Nat
    /\ \A a \in applies : /\ a.by \in Nat /\ a.by <= tabId
                          /\ a.body \in Text /\ a.body.content <= edits
                          /\ a.by # tabId => unsaved # a.body.content

YamlInv == PageInv /\ SeenOK /\ EditorOK /\ AppliesOK

(* An editor that differs in what it says about itself only.               *)
Like(y, z) ==
    DOMAIN z = Fields /\ z.draft = y.draft /\ z.baseline = y.baseline /\ z.decoded = y.decoded

(* A text of an object is a text, as new as the object.                    *)
LEMMA ProjectType ==
    ASSUME NEW o \in Object, NEW d \in BOOLEAN
    PROVE  project(o, d) \in Text /\ project(o, d).content = o.content
BY DEF project, Text, Object

(* What a step of the page shows was on the server.                        *)
LEMMA SeenFollows ==
    ASSUME PageInv, SeenOK, PageStep
    PROVE  SeenOK' /\ edits' \in Nat /\ edits <= edits'
<1>0. PageInv'
  BY PageKeeps
<1>1. edits \in Nat /\ edits' \in Nat /\ edits <= edits'
  <2>1. edits' = edits \/ edits' = edits + 1
    BY DEF PageStep, Navigate, ServerEdits, Recreated, ClickRefresh, Leave, Served, Got, GetFails,
           backend
  <2> QED
    BY <2>1 DEF PageInv, ServerOK
<1>2. \A o \in Object : o.content <= edits => o.content <= edits'
  BY <1>1 DEF Object
<1>3. \A g \in gets : g.answer # None => g.answer \in Object /\ g.answer.content <= edits
  BY DEF PageInv, GetsOK, Get, SeenOK
<1>4. object' # None => object'.content <= edits'
  <2>1. object' # None => \/ object' = object
                          \/ \E g \in gets : g.answer # None /\ object' = g.answer
    BY DEF PageStep, Navigate, ServerEdits, Recreated, ClickRefresh, Leave, Served, Got, GetFails,
           loadVars
  <2>2. object # None => object \in Object /\ object.content <= edits
    BY DEF PageInv, ObjectOK, SeenOK
  <2> QED
    BY <1>2, <1>3, <2>1, <2>2
<1>5. ASSUME NEW h \in gets', h.answer # None PROVE h.answer.content <= edits'
  <2>1. CASE h \in gets
    BY <1>2, <1>3, <1>5, <2>1
  <2>2. ASSUME NEW g \in gets, Served(g), h \notin gets PROVE h.answer.content <= edits'
    <3>1. h = [g EXCEPT !.answer = server[g.key]] /\ g \in Get
      BY <1>5, <2>2 DEF Served, PageInv, GetsOK
    <3>2. h.answer = server[g.key] /\ g.key \in Targets
      BY <3>1 DEF Get
    <3> QED
      BY <1>2, <3>2 DEF PageInv, ServerOK
  <2>3. ASSUME NEW t \in Targets, refreshOf(t), h \notin gets PROVE FALSE
    <3>1. h = [gen |-> generation', key |-> t, answer |-> None]
      BY <1>5, <2>3 DEF refreshOf
    <3> QED
      BY <1>5, <3>1
  <2>4. ASSUME gets' \subseteq gets PROVE h \in gets
    BY <1>5, <2>4
  <2>5. ClickRefresh => target \in Targets
    BY DEF ClickRefresh, refresh, PageInv, ObjectOK
  <2> QED
    BY <2>1, <2>2, <2>3, <2>4, <2>5
       DEF PageStep, Navigate, ServerEdits, Recreated, ClickRefresh, refresh, Leave, Got, GetFails,
           loadVars
<1> QED
  BY <1>1, <1>4, <1>5 DEF SeenOK

(* The tab is mounted: an editor of the object on screen, with every apply *)
(* in flight an earlier editor's.                                          *)
LEMMA MountKeeps ==
    ASSUME AppliesOK, Mount, UNCHANGED applies, object' \in Object, object' # None,
           edits' \in Nat, edits \in Nat, edits <= edits', object'.content <= edits'
    PROVE  EditorOK' /\ AppliesOK'
<1>1. tabId \in Nat /\ tabId' = tabId + 1 /\ unsaved' = None
  BY DEF AppliesOK, Mount
<1>2. AppliesOK'
  <2>1. ASSUME NEW a \in applies
        PROVE  a.by <= tabId' /\ a.body.content <= edits' /\ None # a.body.content
    BY <1>1, DetailAssumption DEF AppliesOK, Text
  <2> QED
    BY <1>1, <2>1 DEF AppliesOK
<1>3. /\ DOMAIN tab' = Fields /\ tab'.decoded = FALSE
      /\ tab'.draft = project(object', FALSE) /\ tab'.baseline = project(object', FALSE)
  BY DEF Mount, Seeded, Fields
<1>4. tab'.decoded \in BOOLEAN
  BY <1>3
<1>5. tab'.draft = project(object', tab'.decoded) /\ tab'.baseline = tab'.draft
  BY <1>3, Zenon
<1>6. tab'.draft \in Text /\ tab'.draft.content = object'.content
  BY <1>4, <1>5, ProjectType
<1>7. EditorOK'
  BY <1>3, <1>4, <1>5, <1>6 DEF EditorOK
<1> QED
  BY <1>2, <1>7

(* The watch on the object: the baseline is its text, and a clean editor   *)
(* stays clean.                                                            *)
LEMMA WatchKeeps ==
    ASSUME NEW y, DOMAIN y = Fields, NEW o
    PROVE  LET z == WatchObject(y, o)
           IN  /\ DOMAIN z = Fields /\ z.decoded = y.decoded
               /\ z.baseline = project(o, y.decoded)
               /\ z.draft \in {y.draft, z.baseline}
               /\ y.draft = y.baseline => z.draft = z.baseline
<1> DEFINE next == project(o, y.decoded)
<1>1. CASE next = y.baseline
  BY <1>1 DEF WatchObject
<1>2. CASE next # y.baseline /\ dirty(y)
  <2>1. WatchObject(y, o) = [y EXCEPT !.baseline = next, !.objectChanged = TRUE]
    BY <1>2 DEF WatchObject
  <2> HIDE DEF next
  <2> QED
    BY <1>2, <2>1 DEF Fields, dirty, next
<1>3. CASE next # y.baseline /\ ~dirty(y)
  <2>1. WatchObject(y, o) =
          [y EXCEPT !.baseline = next, !.draft = next, !.objectChanged = FALSE, !.banner = FALSE]
    BY <1>3 DEF WatchObject
  <2> HIDE DEF next
  <2> QED
    BY <1>3, <2>1 DEF Fields, next
<1> QED
  BY <1>1, <1>2, <1>3

(* A step of the page: the editor goes, is another, or watches the object. *)
LEMMA FollowsKeeps ==
    ASSUME YamlInv, PageStep, FollowsPage
    PROVE  YamlInv'
<1>1. PageInv' /\ PageMoves
  BY PageKeeps DEF YamlInv
<1>2. SeenOK' /\ edits \in Nat /\ edits' \in Nat /\ edits <= edits'
  BY SeenFollows DEF YamlInv, PageInv, ServerOK
<1>3. applies' = applies /\ AppliesOK
  BY DEF FollowsPage, YamlInv
<1>4. ASSUME tabId' = tabId, unsaved' \in {unsaved, None} PROVE AppliesOK'
  <2>1. ASSUME NEW a \in applies
        PROVE  a.body.content <= edits' /\ (a.by # tabId => unsaved' # a.body.content)
    BY <1>2, <1>3, <1>4, DetailAssumption DEF AppliesOK, Text
  <2> QED
    BY <1>3, <1>4, <2>1 DEF AppliesOK
<1>5. CASE object' = None \/ ~yamlMounted'
  BY <1>1, <1>2, <1>4, <1>5 DEF FollowsPage, YamlInv, EditorOK
<1>6. CASE object' # None /\ yamlMounted' /\ (tab = None \/ target' # target)
  <2>1. Mount
    BY <1>6 DEF FollowsPage
  <2>2. object' \in Object /\ object' # None /\ object'.content <= edits'
    BY <1>1, <1>2, <1>6 DEF PageInv, ObjectOK, SeenOK
  <2> QED
    BY <1>1, <1>2, <1>3, <2>1, <2>2, MountKeeps DEF YamlInv
<1>7. CASE object' # None /\ yamlMounted' /\ tab # None /\ target' = target
  <2>1. /\ tab' = IF HandedOver THEN WatchObject(tab, object') ELSE tab
        /\ tabId' = tabId /\ unsaved' = unsaved
    BY <1>7 DEF FollowsPage
  <2>2. object' \in Object /\ object'.content <= edits' /\ target' # None
    BY <1>1, <1>2, <1>7 DEF PageInv, ObjectOK, SeenOK
  <2>3. /\ DOMAIN tab = Fields /\ tab.decoded \in BOOLEAN
        /\ tab.draft \in Text /\ tab.draft.content <= edits'
        /\ tab.baseline \in Text /\ tab.baseline.content <= edits'
        /\ ~loading /\ ~error => tab.baseline = project(object, tab.decoded)
        /\ unsaved = None => tab.draft = tab.baseline
    BY <1>2, <1>7 DEF YamlInv, EditorOK, Text
  <2>4. EditorOK'
    <3>1. CASE HandedOver
      <4>1. tab' = WatchObject(tab, object')
        BY <2>1, <3>1
      <4>2. /\ DOMAIN tab' = Fields /\ tab'.decoded = tab.decoded
            /\ tab'.baseline = project(object', tab.decoded)
            /\ tab'.draft \in {tab.draft, tab'.baseline}
            /\ tab.draft = tab.baseline => tab'.draft = tab'.baseline
        BY <2>3, <4>1, WatchKeeps
      <4>3. tab'.baseline \in Text /\ tab'.baseline.content <= edits'
        BY <2>2, <2>3, <4>2, ProjectType
      <4> QED
        BY <1>7, <2>1, <2>3, <4>2, <4>3, Zenon DEF EditorOK
    <3>2. CASE ~HandedOver
      <4>1. tab' = tab
        BY <2>1, <3>2
      <4>2. ~loading' /\ ~error' => object' = object /\ ~loading /\ ~error
        BY <1>1, <2>2, <3>2 DEF PageMoves
      <4> QED
        BY <1>7, <2>1, <2>3, <4>1, <4>2, Zenon DEF EditorOK
    <3> QED
      BY <3>1, <3>2
  <2> QED
    BY <1>1, <1>2, <1>4, <2>1, <2>4 DEF YamlInv
<1> QED
  BY <1>5, <1>6, <1>7

(* The load and the server stay.                                           *)
LEMMA SeenStays ==
    ASSUME YamlInv, UNCHANGED page
    PROVE  /\ PageInv' /\ SeenOK' /\ edits \in Nat
           /\ UNCHANGED <<edits, server, target, object, loading, error>>
BY PageStays DEF YamlInv, PageInv, ObjectOK, ServerOK, SeenOK, page, backend, loadVars, tabVars

(* A tab is picked: YAML mounts the editor the first time, and it stays.   *)
LEMMA ShowKeeps ==
    ASSUME YamlInv, NEW t, Show(t)
    PROVE  YamlInv'
<1>1. PageInv' /\ UNCHANGED <<backend, target, loadVars>> /\ object # None /\ applies' = applies
  BY SelectKeeps DEF YamlInv, Show, SelectTab
<1>2. UNCHANGED <<edits, object, loading, error, gets>> /\ edits \in Nat /\ object \in Object
  BY <1>1 DEF backend, loadVars, YamlInv, PageInv, ServerOK, ObjectOK
<1>3. SeenOK'
  BY <1>2 DEF YamlInv, SeenOK
<1>4. CASE Mount
  <2>1. object' \in Object /\ object' # None /\ object'.content <= edits' /\ edits <= edits'
    BY <1>1, <1>2 DEF YamlInv, SeenOK
  <2> QED
    BY <1>1, <1>2, <1>3, <1>4, <2>1, MountKeeps DEF YamlInv
<1>5. CASE UNCHANGED <<tab, tabId, unsaved>>
  BY <1>1, <1>2, <1>3, <1>5 DEF YamlInv, EditorOK, AppliesOK
<1> QED
  BY <1>4, <1>5 DEF Show

(* Typing: the new content is newer than any that an apply carries.        *)
LEMMA TypeKeeps ==
    ASSUME YamlInv, Type
    PROVE  YamlInv'
<1>1. /\ edits \in Nat /\ edits' = edits + 1 /\ unsaved' = edits' /\ tab # None
      /\ UNCHANGED <<server, target, loadVars, tabVars, tabId, applies>>
  BY DEF Type, OnTab, YamlInv, PageInv, ServerOK
<1>2. PageInv'
  <2>1. ServerOK'
    BY <1>1 DEF YamlInv, PageInv, ServerOK, Object
  <2> QED
    BY <1>1, <2>1 DEF YamlInv, PageInv, GetsOK, ObjectOK, loadVars, tabVars
<1>3. SeenOK'
  <2>1. \A o \in Object : o.content <= edits => o.content <= edits'
    BY <1>1 DEF Object
  <2> QED
    BY <1>1, <2>1 DEF YamlInv, PageInv, ObjectOK, GetsOK, Get, SeenOK, loadVars
<1>4. AppliesOK'
  <2>1. ASSUME NEW a \in applies PROVE a.body.content <= edits' /\ unsaved' # a.body.content
    BY <1>1 DEF YamlInv, AppliesOK, Text
  <2> QED
    BY <1>1, <2>1 DEF YamlInv, AppliesOK
<1>5. EditorOK'
  <2>1. /\ DOMAIN tab = Fields /\ tab.decoded \in BOOLEAN /\ tab.draft \in Text
        /\ tab.baseline \in Text /\ tab.baseline.content <= edits'
    BY <1>1 DEF YamlInv, EditorOK, Text
  <2>2. tab' = [tab EXCEPT !.draft.content = edits', !.banner = FALSE]
    BY DEF Type
  <2>3. /\ DOMAIN tab' = Fields /\ tab'.draft = [tab.draft EXCEPT !.content = edits']
        /\ tab'.baseline = tab.baseline /\ tab'.decoded = tab.decoded
    BY <2>1, <2>2 DEF Fields
  <2>4. edits' \in Nat /\ unsaved' # None
    BY <1>1, DetailAssumption
  <2>5. tab'.draft \in Text /\ tab'.draft.content = edits'
    BY <2>1, <2>3, <2>4 DEF Text
  <2>6. tab'.draft.content <= edits'
    BY <2>4, <2>5
  <2>7. /\ object' # None
        /\ ~loading' /\ ~error' => tab'.baseline = project(object', tab'.decoded)
    BY <1>1, <2>3 DEF YamlInv, EditorOK, loadVars
  <2> QED
    BY <2>1, <2>3, <2>4, <2>5, <2>6, <2>7, Zenon DEF EditorOK
<1> QED
  BY <1>2, <1>3, <1>4, <1>5 DEF YamlInv

(* The applies in flight, with the edits unsaved as before or given up.    *)
LEMMA AppliesStay ==
    ASSUME AppliesOK, UNCHANGED <<edits, tabId>>, applies' \subseteq applies,
           unsaved' \in {unsaved, None}
    PROVE  AppliesOK'
<1>1. ASSUME NEW a \in applies PROVE a.by # tabId => unsaved' # a.body.content
  BY DetailAssumption DEF AppliesOK, Text
<1> QED
  BY <1>1 DEF AppliesOK

(* An editor whose texts stay.                                             *)
LEMMA EditorStays ==
    ASSUME EditorOK, UNCHANGED <<edits, object, loading, error, unsaved>>,
           tab' = tab \/ (tab # None /\ Like(tab, tab'))
    PROVE  EditorOK'
<1>1. CASE tab' = tab
  BY <1>1 DEF EditorOK
<1>2. CASE tab # None /\ Like(tab, tab')
  BY <1>2 DEF EditorOK, Like
<1> QED
  BY <1>1, <1>2

(* What the tab says about itself.                                         *)
LEMMA LikeItself ==
    ASSUME NEW y, DOMAIN y = Fields
    PROVE  /\ Like(y, [y EXCEPT !.busy = TRUE, !.banner = FALSE])
           /\ Like(y, [y EXCEPT !.busy = FALSE])
           /\ Like(y, [y EXCEPT !.busy = FALSE, !.banner = TRUE])
           /\ Like(y, [y EXCEPT !.banner = TRUE])
           /\ Like(y, [y EXCEPT !.showFull = ~@])
BY DEF Like, Fields

(* cancel and the encoding switch leave a clean editor.                    *)
LEMMA CleanKeeps ==
    ASSUME YamlInv, cancel \/ setDecoded
    PROVE  YamlInv'
<1>1. tab # None /\ UNCHANGED <<page, tabId, applies>> /\ unsaved' = None
  BY DEF cancel, setDecoded, OnTab
<1>2. PageInv' /\ SeenOK' /\ UNCHANGED <<edits, object, loading, error>>
  BY <1>1, SeenStays
<1>3. AppliesOK'
  BY <1>1, <1>2, AppliesStay DEF YamlInv
<1>4. /\ DOMAIN tab = Fields /\ tab.decoded \in BOOLEAN /\ object # None /\ object \in Object
      /\ tab.baseline \in Text /\ tab.baseline.content <= edits /\ object.content <= edits
      /\ ~loading /\ ~error => tab.baseline = project(object, tab.decoded)
  BY <1>1 DEF YamlInv, EditorOK, PageInv, ObjectOK, SeenOK
<1>5. CASE cancel
  <2>1. tab' = [tab EXCEPT !.draft = tab.baseline, !.banner = FALSE, !.objectChanged = FALSE]
    BY <1>5 DEF cancel
  <2>2. /\ DOMAIN tab' = Fields /\ tab'.draft = tab.baseline /\ tab'.baseline = tab.baseline
        /\ tab'.decoded = tab.decoded
    BY <1>4, <2>1 DEF Fields
  <2>3. EditorOK'
    BY <1>2, <1>4, <2>2 DEF EditorOK
  <2> QED
    BY <1>2, <1>3, <2>3 DEF YamlInv
<1>6. CASE setDecoded
  <2>1. PICK d \in BOOLEAN : d = ~tab.decoded
    BY Zenon
  <2> DEFINE text == project(object, d)
  <2>2. tab' = [tab EXCEPT !.decoded = d, !.draft = text, !.baseline = text,
                           !.objectChanged = FALSE, !.banner = FALSE]
    BY <1>6, <2>1, Zenon DEF setDecoded
  <2>3. text \in Text /\ text.content <= edits
    BY <1>4, ProjectType
  <2> HIDE DEF text
  <2>4. /\ DOMAIN tab' = Fields /\ tab'.draft = text /\ tab'.baseline = text
        /\ tab'.decoded = d
    BY <1>4, <2>2 DEF Fields
  <2>5. EditorOK'
    BY <1>2, <1>4, <2>3, <2>4 DEF EditorOK, text
  <2> QED
    BY <1>2, <1>3, <2>5 DEF YamlInv
<1> QED
  BY <1>5, <1>6

(* run(): the request carries the draft, and is this editor's.             *)
LEMMA RunKeeps ==
    ASSUME YamlInv, NEW dryRun, run(dryRun)
    PROVE  YamlInv'
<1> DEFINE new == serverSideApply(tab.draft, dryRun)
<1>1. /\ tab # None /\ UNCHANGED <<page, tabId, unsaved>> /\ applies' = applies \cup {new}
      /\ tab' = [tab EXCEPT !.busy = TRUE, !.banner = FALSE]
  BY DEF run, OnTab
<1>2. PageInv' /\ SeenOK' /\ UNCHANGED <<edits, object, loading, error>>
  BY <1>1, SeenStays
<1>3. EditorOK'
  BY <1>1, <1>2, EditorStays, LikeItself DEF YamlInv, EditorOK
<1>4. new.by = tabId /\ new.body = tab.draft
  BY DEF serverSideApply
<1> HIDE DEF new
<1>5. AppliesOK'
  BY <1>1, <1>2, <1>4 DEF YamlInv, EditorOK, AppliesOK
<1> QED
  BY <1>2, <1>3, <1>5 DEF YamlInv

(* Steps that change no text.                                              *)
LEMMA EditorAlone ==
    ASSUME YamlInv, UNCHANGED <<page, tabId, unsaved>>, applies' \subseteq applies,
           \/ tab' = tab
           \/ /\ tab # None
              /\ \/ tab' = [tab EXCEPT !.busy = FALSE] \/ tab' = [tab EXCEPT !.banner = TRUE]
                 \/ tab' = [tab EXCEPT !.busy = FALSE, !.banner = TRUE]
                 \/ tab' = [tab EXCEPT !.showFull = ~@]
    PROVE  YamlInv'
<1>1. PageInv' /\ SeenOK' /\ UNCHANGED <<edits, object, loading, error>>
  BY SeenStays
<1>2. tab # None => DOMAIN tab = Fields
  BY DEF YamlInv, EditorOK
<1>3. tab' = tab \/ (tab # None /\ Like(tab, tab'))
  BY <1>2, LikeItself, Zenon
<1> QED
  BY <1>1, <1>3, EditorStays, AppliesStay DEF YamlInv

(* Applied: this editor takes its draft for clean while the page loads     *)
(* again; an earlier editor's apply leaves this one as it is.              *)
LEMMA AppliedKeeps ==
    ASSUME YamlInv, NEW a \in applies, Applied(a)
    PROVE  YamlInv'
<1>1. /\ UNCHANGED <<edits, target, object, tabVars, tabId>> /\ applies' = applies \ {a}
      /\ unsaved' = IF unsaved = a.body.content THEN None ELSE unsaved
      /\ server' = [server EXCEPT ![a.body.of].content = a.body.content]
  BY DEF Applied
<1>2. a.body \in Text /\ a.body.content <= edits /\ edits \in Nat
  BY DEF YamlInv, AppliesOK, PageInv, ServerOK
<1>3. ServerOK'
  <2> DEFINE o == [server[a.body.of] EXCEPT !.content = a.body.content]
  <2>1. a.body.of \in Targets /\ a.body.content \in Nat
    BY <1>2 DEF Text
  <2>2. o \in Object /\ o.of = a.body.of /\ o.content = a.body.content
    BY <2>1 DEF YamlInv, PageInv, ServerOK, Object
  <2>3. server' = [server EXCEPT ![a.body.of] = o]
    BY <1>1
  <2> HIDE DEF o
  <2> QED
    BY <1>1, <1>2, <2>1, <2>2, <2>3 DEF YamlInv, PageInv, ServerOK
<1>4. AppliesOK'
  BY <1>1, AppliesStay DEF YamlInv
<1>5. CASE Mine(a)
  <2>1. /\ tab' = [tab EXCEPT !.baseline = tab.draft, !.objectChanged = FALSE, !.busy = FALSE]
        /\ target \in Targets /\ refreshOf(target) /\ tab # None
    BY <1>5 DEF Applied, refresh, Mine, YamlInv, PageInv, ObjectOK
  <2>2. GetsOK' /\ ObjectOK'
    BY <1>1, <2>1, RefreshLoads DEF YamlInv, PageInv, ObjectOK, tabVars
  <2>3. SeenOK'
    <3> DEFINE new == [gen |-> generation', key |-> target, answer |-> None]
    <3>1. gets' = gets \cup {new} /\ new.answer = None
      BY <2>1 DEF refreshOf
    <3> HIDE DEF new
    <3> QED
      BY <1>1, <3>1 DEF YamlInv, SeenOK
  <2>4. DOMAIN tab = Fields
    BY <2>1 DEF YamlInv, EditorOK
  <2>5. /\ DOMAIN tab' = Fields /\ tab'.draft = tab.draft /\ tab'.baseline = tab.draft
        /\ tab'.decoded = tab.decoded
    BY <2>1, <2>4 DEF Fields
  <2>6. loading'
    BY <2>1 DEF refreshOf
  <2>7. EditorOK'
    BY <1>1, <2>1, <2>5, <2>6 DEF YamlInv, EditorOK
  <2> QED
    BY <1>3, <1>4, <2>2, <2>3, <2>7 DEF YamlInv, PageInv
<1>6. CASE ~Mine(a)
  <2>1. UNCHANGED <<tab, loading, error, generation, gets>>
    BY <1>6 DEF Applied
  <2>2. GetsOK' /\ ObjectOK' /\ SeenOK'
    BY <1>1, <2>1 DEF YamlInv, PageInv, GetsOK, ObjectOK, SeenOK, tabVars
  <2>3. tab # None => unsaved' = unsaved
    BY <1>1, <1>6 DEF Mine, YamlInv, AppliesOK
  <2>4. EditorOK'
    BY <1>1, <2>1, <2>3 DEF YamlInv, EditorOK
  <2> QED
    BY <1>3, <1>4, <2>2, <2>4 DEF YamlInv, PageInv
<1> QED
  BY <1>5, <1>6

(* Every step of the page and the editor keeps their invariant.            *)
LEMMA YamlStep ==
    ASSUME YamlInv, [YamlNext]_<<page, yamlVars>>
    PROVE  YamlInv'
<1>1. CASE UNCHANGED <<page, yamlVars>>
  BY <1>1, EditorAlone DEF yamlVars
<1>2. CASE ShowFull
  BY <1>2, EditorAlone DEF ShowFull, OnTab
<1>3. CASE encodeFails
  BY <1>3, EditorAlone DEF encodeFails, OnTab
<1>4. ASSUME NEW a \in applies, DryRan(a) PROVE YamlInv'
  BY <1>4, EditorAlone DEF DryRan, Mine
<1>5. ASSUME NEW a \in applies, ApplyFails(a) PROVE YamlInv'
  BY <1>5, EditorAlone DEF ApplyFails, Mine
<1> QED
  BY <1>1, <1>2, <1>3, <1>4, <1>5, FollowsKeeps, ShowKeeps, TypeKeeps, CleanKeeps, RunKeeps,
     AppliedKeeps DEF YamlNext

(* The page starts without an editor.                                      *)
LEMMA YamlInitially == PageInit /\ YamlInit => YamlInv
<1> SUFFICES ASSUME PageInit, YamlInit PROVE YamlInv
  OBVIOUS
<1>1. SeenOK
  BY DEF PageInit, SeenOK
<1>2. EditorOK /\ AppliesOK
  BY DEF YamlInit, EditorOK, AppliesOK
<1> QED
  BY <1>1, <1>2, PageInitially DEF YamlInv

(* An editor that says it is clean, or has nothing unsaved, shows the      *)
(* object the page has: the baseline follows every object handed over, and *)
(* the one step that leaves it behind, a successful apply, loads again.    *)
THEOREM CleanEditorIsCurrent == YamlSpec => []CleanIsCurrent
<1>1. YamlInv => CleanIsCurrent
  BY DEF YamlInv, EditorOK, CleanIsCurrent, dirty
<1> QED
  BY <1>1, YamlInitially, YamlStep, PTL DEF YamlSpec
=============================================================================
