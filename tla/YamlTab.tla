------------------------------- MODULE YamlTab --------------------------------
(***************************************************************************)
(* The YAML tab of the detail page: an editable draft of the object, kept  *)
(* while the page stays on the object, applied or dry-run on request.  A   *)
(* text is known by its content and, for a Secret, its encoding; every     *)
(* keystroke makes a new content.                                          *)
(***************************************************************************)
EXTENDS DetailPage

VARIABLES
    tab,          \* the mounted tab, or None
    tabId,        \* mounts so far
    applies,      \* serverSideApply calls in flight
    unsaved       \* history: what the user typed last, neither sent nor cancelled

yamlVars == <<tab, tabId, applies, unsaved>>

YamlInit == tab = None /\ tabId = 0 /\ applies = {} /\ unsaved = None

(* toEditableYaml or toDecodedSecretYaml.                                  *)
project(o, decoded) == [of |-> o.of, content |-> o.content, decoded |-> decoded]

Seeded(o) ==
    [draft |-> project(o, FALSE), baseline |-> project(o, FALSE), decoded |-> FALSE,
     showFull |-> FALSE, busy |-> FALSE, banner |-> FALSE, objectChanged |-> FALSE]

dirty(y) == y.draft # y.baseline
actionsDisabled(y) == y.busy \/ ~dirty(y) \/ y.showFull

SlipWatchObject(y, o) ==
    LET next == project(o, y.decoded)
    IN IF next = y.baseline THEN y
       ELSE IF dirty(y) THEN [y EXCEPT !.baseline = next, !.objectChanged = TRUE]
       ELSE [y EXCEPT !.baseline = next, !.objectChanged = FALSE]

(* The watch on the object: a clean draft follows it, a dirty one stays.   *)
WatchObject(y, o) ==
    LET next == project(o, y.decoded)
    IN IF next = y.baseline THEN y
       ELSE IF dirty(y) THEN [y EXCEPT !.baseline = next, !.objectChanged = TRUE]
       ELSE [y EXCEPT !.baseline = next, !.draft = next, !.objectChanged = FALSE, !.banner = FALSE]

(* The page's steps seen from the tab: it is mounted on first use, keyed   *)
(* by the route, and goes when no object is on screen.                     *)
Mount == tab' = Seeded(object') /\ tabId' = tabId + 1 /\ unsaved' = None

FollowsPage ==
    /\ IF object' = None \/ ~yamlMounted'
       THEN tab' = None /\ unsaved' = None /\ UNCHANGED tabId
       ELSE IF tab = None \/ target' # target THEN Mount
       ELSE /\ tab' = IF HandedOver THEN WatchObject(tab, object') ELSE tab
            /\ UNCHANGED <<tabId, unsaved>>
    /\ UNCHANGED applies

Show(t) ==
    /\ SelectTab(t)
    /\ IF t = "yaml" /\ tab = None THEN Mount ELSE UNCHANGED <<tab, tabId, unsaved>>
    /\ UNCHANGED applies

-----------------------------------------------------------------------------
OnTab == tab # None /\ activeTab = "yaml"

Type ==
    /\ OnTab /\ ~tab.showFull /\ edits < MaxEdits /\ edits' = edits + 1
    /\ tab' = [tab EXCEPT !.draft.content = edits', !.banner = FALSE]
    /\ unsaved' = edits'
    /\ UNCHANGED <<server, target, loadVars, tabVars, owned, tabId, applies>>

setDecoded ==
    /\ OnTab /\ ~tab.busy /\ ~dirty(tab)
    /\ LET text == project(object, ~tab.decoded)
       IN tab' = [tab EXCEPT !.decoded = ~@, !.draft = text, !.baseline = text,
                             !.objectChanged = FALSE, !.banner = FALSE]
    /\ unsaved' = None
    /\ UNCHANGED <<page, tabId, applies>>

ShowFull == OnTab /\ tab' = [tab EXCEPT !.showFull = ~@] /\ UNCHANGED <<page, tabId, applies, unsaved>>

cancel ==
    /\ OnTab /\ ~actionsDisabled(tab)
    /\ tab' = [tab EXCEPT !.draft = tab.baseline, !.banner = FALSE, !.objectChanged = FALSE]
    /\ unsaved' = None
    /\ UNCHANGED <<page, tabId, applies>>

(* The request: the draft's text, addressed by the object on screen; the   *)
(* API server refuses a text that names another object than the address.   *)
serverSideApply(body, dryRun) ==
    [by |-> tabId, hits |-> Addressed /\ body.of = object.of, body |-> body, dryRun |-> dryRun]

(* run() up to its await.                                                  *)
run(dryRun) ==
    /\ OnTab /\ ~actionsDisabled(tab)
    /\ applies' = applies \cup {serverSideApply(tab.draft, dryRun)}
    /\ tab' = [tab EXCEPT !.busy = TRUE, !.banner = FALSE]
    /\ UNCHANGED <<page, tabId, unsaved>>

(* A decoded draft that does not encode back is not sent.                  *)
encodeFails ==
    /\ OnTab /\ ~actionsDisabled(tab) /\ tab.decoded
    /\ tab' = [tab EXCEPT !.banner = TRUE]
    /\ UNCHANGED <<page, tabId, applies, unsaved>>

Mine(a) == tab # None /\ a.by = tabId

(* The server took it, as it was sent; the tab takes its draft for clean   *)
(* and asks the page for a refresh.                                        *)
Applied(a) ==
    /\ ~a.dryRun /\ a.hits /\ applies' = applies \ {a}
    /\ server' = [server EXCEPT ![a.body.of].content = a.body.content]
    /\ unsaved' = IF unsaved = a.body.content THEN None ELSE unsaved
    /\ IF Mine(a)
       THEN /\ tab' = [tab EXCEPT !.baseline = tab.draft, !.objectChanged = FALSE, !.busy = FALSE]
            /\ refresh
       ELSE UNCHANGED <<tab, loading, error, generation, gets>>
    /\ UNCHANGED <<edits, target, object, tabVars, owned, tabId>>

DryRan(a) ==
    /\ a.dryRun /\ a.hits /\ applies' = applies \ {a}
    /\ tab' = IF Mine(a) THEN [tab EXCEPT !.busy = FALSE] ELSE tab
    /\ UNCHANGED <<page, tabId, unsaved>>

ApplyFails(a) ==
    /\ applies' = applies \ {a}
    /\ tab' = IF Mine(a) THEN [tab EXCEPT !.busy = FALSE, !.banner = TRUE] ELSE tab
    /\ UNCHANGED <<page, tabId, unsaved>>

YamlNext ==
    \/ PageStep /\ UNCHANGED owned /\ Bounce /\ FollowsPage
    \/ \E t \in {"overview", "yaml"} : Show(t)
    \/ Type \/ setDecoded \/ ShowFull \/ cancel \/ encodeFails
    \/ \E dryRun \in BOOLEAN : run(dryRun)
    \/ \E a \in applies : Applied(a) \/ DryRan(a) \/ ApplyFails(a)

YamlSpec == PageInit /\ YamlInit /\ [][YamlNext]_<<page, yamlVars>>

-----------------------------------------------------------------------------
(* An editor that shows no "Unsaved changes", or holds nothing the user    *)
(* typed and has not sent, shows the object the page has, once nothing is  *)
(* loading and the last load succeeded.                                    *)
CleanIsCurrent ==
    tab # None /\ ~loading /\ ~error /\ (~dirty(tab) \/ unsaved = None) =>
        tab.draft = project(object, tab.decoded)

(* "your edits are kept": what the user typed and has neither sent nor     *)
(* cancelled is what the editor still holds.                               *)
EditsKept == unsaved # None => tab # None /\ tab.draft.content = unsaved
=============================================================================
