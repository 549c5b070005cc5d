----------------------------- MODULE DetailCards ------------------------------
(***************************************************************************)
(* What the detail page loads beside its object: useOwnedPods, the pods    *)
(* behind a workload's Logs tab, and a card of the Overview tab (events,   *)
(* pods of a node, related resources): these load by one pattern.          *)
(***************************************************************************)
EXTENDS DetailPage

CONSTANT MaxCards    \* bound: loads of a card before a tab is changed

ASSUME CardsAssumption == MaxCards \in Nat

VARIABLES
    lastUid, loadId, walks,      \* useOwnedPods
    card, cardId, scans          \* a card of the Overview tab

cardVars == <<lastUid, loadId, walks, card, cardId, scans>>

CardsInit ==
    /\ lastUid = None /\ loadId = 0 /\ walks = {}
    /\ card = IDLE /\ cardId = 0 /\ scans = {}

(* useOwnedPods.load(), on every object handed over, a refreshed one too:  *)
(* the same uid keeps the pods it had, another clears them at once.        *)
OwnedLoad(o) ==
    /\ loadId' = loadId + 1
    /\ IF kind(o) # "Owner"
       THEN lastUid' = None /\ owned' = IDLE /\ UNCHANGED walks
       ELSE LET kept == IF uidOf(o) = lastUid THEN owned.result ELSE None
            IN /\ lastUid' = uidOf(o)
               /\ owned' = [loading |-> TRUE, failed |-> FALSE, result |-> kept]
               /\ walks' = walks \cup {[id |-> loadId', uid |-> uidOf(o), kept |-> kept]}

(* The request of the events card asks by the object's identity.           *)
eventsFor(o) == uidOf(o)

(* load() of a card: what it showed is dropped before the request.  The    *)
(* cards live in the Overview tab, whose body comes and goes.              *)
CardLoad(o) ==
    /\ cardId' = cardId + 1 /\ card' = [loading |-> TRUE, failed |-> FALSE, result |-> None]
    /\ scans' = scans \cup {[id |-> cardId', uid |-> eventsFor(o)]}

CardGone == cardId' = cardId + 1 /\ card' = IDLE /\ UNCHANGED scans

Replaced == HandedOver \/ object' # object

CardsFollow ==
    /\ IF Replaced THEN OwnedLoad(object') ELSE UNCHANGED <<owned, lastUid, loadId, walks>>
    /\ Bounce
    /\ IF ~Replaced THEN UNCHANGED <<card, cardId, scans>>
       ELSE IF object' # None /\ activeTab' = "overview" THEN CardLoad(object') ELSE CardGone

CardsSelect(t) ==
    /\ cardId < MaxCards /\ SelectTab(t)
    /\ IF t = "overview" THEN CardLoad(object) ELSE CardGone
    /\ UNCHANGED <<lastUid, loadId, walks>>

-----------------------------------------------------------------------------
(* resolveOwnedPods settled: no pods, some, or a failure that keeps what   *)
(* there was ...                                                           *)
Landed(w, outcome) ==
    [loading |-> FALSE, failed |-> outcome = "fails",
     result |-> IF outcome = "fails" THEN w.kept ELSE [uid |-> w.uid, pods |-> outcome = "some"]]

SlipSettled(w, outcome) == Landed(w, outcome)

(* ... unless another load began.                                          *)
Settled(w, outcome) == IF w.id # loadId THEN owned ELSE Landed(w, outcome)

Walked(w, outcome) ==
    /\ walks' = walks \ {w} /\ owned' = Settled(w, outcome)
    /\ UNCHANGED <<backend, target, loadVars, mounts, lastUid, loadId>>
    /\ Bounce
    /\ IF activeTab' # activeTab THEN CardLoad(object) ELSE UNCHANGED <<card, cardId, scans>>

(* A card's rows, or its error line.                                       *)
CardShown(s, ok) == [loading |-> FALSE, failed |-> ~ok, result |-> IF ok THEN s.uid ELSE None]

Scanned(s, ok) ==
    /\ scans' = scans \ {s}
    /\ card' = IF s.id # cardId THEN card ELSE CardShown(s, ok)
    /\ UNCHANGED <<page, lastUid, loadId, walks, cardId>>

CardsNext ==
    \/ PageStep /\ CardsFollow
    \/ \E t \in tabs(object, owned) : CardsSelect(t)
    \/ \E w \in walks, outcome \in {"none", "some", "fails"} : Walked(w, outcome)
    \/ \E s \in scans, ok \in BOOLEAN : Scanned(s, ok)

CardsSpec == PageInit /\ CardsInit /\ [][CardsNext]_<<page, cardVars>>

-----------------------------------------------------------------------------
(* What is on screen goes together: at rest the object is the one the      *)
(* route names, the pods behind the Logs tab and the rows of the cards are *)
(* that object's own, the selected tab exists, and a spinner stands for a  *)
(* request that will clear it.                                             *)
PageBelongs ==
    /\ target # None /\ ~loading /\ object # None => object.of = target
    /\ owned.result # None => object # None /\ owned.result.uid = uidOf(object)
    /\ card.result # None => object # None /\ card.result = uidOf(object)
    /\ activeTab \in tabs(object, owned)
    /\ loading => \E g \in gets : g.gen = generation
    /\ owned.loading => \E w \in walks : w.id = loadId
    /\ card.loading => \E s \in scans : s.id = cardId
=============================================================================
