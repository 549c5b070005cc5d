------------------------------ MODULE DetailPage ------------------------------
(***************************************************************************)
(* The resource detail page: useResourceObject's load and refresh of the   *)
(* object the route names, and the tab list.  What watches the object (the *)
(* cards, the YAML tab, the terminal, the header's dialogs) is a tenant: a *)
(* module that conjoins its reaction to every PageStep.  An object is      *)
(* known by its route target, uid, editable content and whether it is held *)
(* (a suspended job, a cordoned node).                                     *)
(***************************************************************************)
EXTENDS Naturals, FiniteSets

CONSTANTS
    Targets,        \* what a route can name
    Kind,           \* Targets -> "Pod", "Node", "Owner" (of pods) or "Other"
    None,
    MaxLoads,       \* bound: loads of the page
    MaxEdits        \* bound: contents an object goes through

ASSUME DetailAssumption ==
    /\ None \notin Targets \cup Nat
    /\ Kind \in [Targets -> {"Pod", "Node", "Owner", "Other"}]
    /\ MaxLoads \in Nat /\ MaxEdits \in Nat

VARIABLES
    server,          \* per target, the object as the API server has it
    edits,           \* contents so far
    target,          \* the route, or None off the page
    object, loading, error, generation, gets,
    activeTab, terminalMounted, yamlMounted,
    owned            \* useOwnedPods' state: the pods of a workload

backend == <<server, edits>>
loadVars == <<object, loading, error, generation, gets>>
tabVars == <<activeTab, terminalMounted, yamlMounted>>
page == <<backend, target, loadVars, tabVars, owned>>

IDLE == [loading |-> FALSE, failed |-> FALSE, result |-> None]

PageInit ==
    /\ server = [t \in Targets |-> [of |-> t, uid |-> 1, content |-> 0, held |-> FALSE]]
    /\ edits = 0
    /\ target = None /\ object = None /\ loading = FALSE /\ error = FALSE
    /\ generation = 0 /\ gets = {}
    /\ activeTab = "overview" /\ terminalMounted = FALSE /\ yamlMounted = FALSE
    /\ owned = IDLE

uidOf(o) == <<o.of, o.uid>>
kind(o) == IF o = None THEN "" ELSE Kind[o.of]

-----------------------------------------------------------------------------
(* The tab list: a workload has a Logs tab while it is known to have pods. *)
ownedPods(ow) == ow.result # None /\ ow.result.pods

tabs(o, ow) ==
    {"overview", "yaml"} \cup
    CASE kind(o) = "Pod" -> {"env", "logs", "metrics", "terminal"}
      [] kind(o) = "Node" -> {"metrics"}
      [] OTHER -> IF ownedPods(ow) THEN {"logs"} ELSE {}

(* The watch on tabs: a tab that disappears gives way to the Overview.     *)
Bounce ==
    activeTab' = IF target' # None /\ activeTab \in tabs(object', owned') THEN activeTab ELSE "overview"

SelectTab(t) ==
    /\ object # None /\ t \in tabs(object, owned) \ {activeTab} /\ activeTab' = t
    /\ terminalMounted' = (terminalMounted \/ t = "terminal")
    /\ yamlMounted' = (yamlMounted \/ t = "yaml")
    /\ UNCHANGED <<backend, target, loadVars, owned>>

-----------------------------------------------------------------------------
(* useResourceObject.refresh() up to its await.                            *)
refreshOf(t) ==
    /\ generation < MaxLoads /\ generation' = generation + 1
    /\ loading' = TRUE /\ error' = FALSE
    /\ gets' = gets \cup {[gen |-> generation', key |-> t, answer |-> None]}

refresh == target # None /\ refreshOf(target)

(* A write is addressed by the route's resource and the object's name: two *)
(* different things while another object is loading.                       *)
Addressed == Kind[target] = Kind[object.of]

mounts == <<terminalMounted, yamlMounted>>

(* The route names another object: the one on screen stays until the load  *)
(* settles.                                                                *)
Navigate(t) == t # target /\ target' = t /\ refreshOf(t) /\ UNCHANGED <<backend, object, mounts>>

ClickRefresh == ~loading /\ refresh /\ UNCHANGED <<backend, target, object, mounts>>

(* The API server answers with the object as it is now; the answer travels.*)
Served(g) ==
    /\ g.answer = None /\ gets' = (gets \ {g}) \cup {[g EXCEPT !.answer = server[g.key]]}
    /\ UNCHANGED <<backend, target, object, loading, error, generation, mounts>>

(* ... and after it: a superseded answer is dropped.                       *)
Got(g) ==
    /\ g.answer # None /\ gets' = gets \ {g}
    /\ IF g.gen = generation THEN loading' = FALSE /\ object' = g.answer
       ELSE UNCHANGED <<object, loading>>
    /\ UNCHANGED <<backend, target, error, generation, mounts>>

(* A failed refresh keeps the object it was a refresh of; loadedKey is the *)
(* target the object came from.                                            *)
loadedKey == IF object = None THEN None ELSE object.of

SlipGetFails(g) ==
    /\ gets' = gets \ {g}
    /\ IF g.gen = generation THEN loading' = FALSE /\ error' = TRUE /\ object' = None
       ELSE UNCHANGED <<object, loading, error>>
    /\ UNCHANGED <<backend, target, generation, mounts>>

GetFails(g) ==
    /\ gets' = gets \ {g}
    /\ IF g.gen = generation
       THEN /\ loading' = FALSE /\ error' = TRUE
            /\ object' = IF loadedKey = g.key THEN object ELSE None
       ELSE UNCHANGED <<object, loading, error>>
    /\ UNCHANGED <<backend, target, generation, mounts>>

(* The page is left: nothing of it remains but requests in flight.         *)
Leave ==
    /\ target # None /\ target' = None
    /\ object' = None /\ loading' = FALSE /\ error' = FALSE /\ generation' = generation + 1
    /\ terminalMounted' = FALSE /\ yamlMounted' = FALSE
    /\ UNCHANGED <<backend, gets>>

(* An object deleted and made anew has another uid.                        *)
Anew(o, content) == [o EXCEPT !.uid = @ + 1, !.content = content, !.held = FALSE]

(* Someone else edits the object, or deletes it and makes it anew.         *)
ServerEdits(t) ==
    /\ edits < MaxEdits /\ edits' = edits + 1
    /\ server' = [server EXCEPT ![t].content = edits']
    /\ UNCHANGED <<target, loadVars, mounts>>

Recreated(t) ==
    /\ edits < MaxEdits /\ edits' = edits + 1
    /\ server' = [server EXCEPT ![t] = Anew(@, edits')]
    /\ UNCHANGED <<target, loadVars, mounts>>

PageStep ==
    \/ \E t \in Targets : Navigate(t) \/ ServerEdits(t) \/ Recreated(t)
    \/ ClickRefresh \/ Leave
    \/ \E g \in gets : Served(g) \/ Got(g) \/ GetFails(g)

(* A load of the page has handed over an object.                           *)
HandedOver == loading /\ ~loading' /\ ~error' /\ target' # None
=============================================================================
