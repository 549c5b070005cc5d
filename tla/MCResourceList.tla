---------------------------- MODULE MCResourceList ----------------------------
(***************************************************************************)
(* The two halves of the resource list page, which share nothing a         *)
(* property of either depends on: the table's loads and watches, with two  *)
(* clusters, two selections, walks of at most two pages and three loads,   *)
(* enough for a load to be superseded twice; and the view's URL, with a    *)
(* namespaced and a cluster-scoped list and a history of two entries.      *)
(***************************************************************************)
EXTENDS ResourceList, ListView, TLC

CONSTANTS ctxA, ctxB, selA, selB, pods, nodes, web, app, teamA

VARIABLE half

MCContexts == {ctxA, ctxB}
MCSelections == {selA, selB}
MCOneSelection == {selA}
MCLists == {pods, nodes}
MCNamespaced == {pods}
MCFilters == {web}
MCSelectors == {app}
MCSpaces == {teamA}

(* For the safety run only.                                                *)
MCSymmetry == Permutations(MCContexts) \cup Permutations(MCSelections)

(* No selector is tried on the cluster-scoped list.                        *)
InScope == route'.key = nodes => view'.draft = None /\ view'.applied = None

(* Once a flush has overwritten an entry the address claims nothing.       *)
NotOverwritten == ~overwritten

MCInit ==
    \/ half = "table" /\ Init
         /\ route = Elsewhere /\ view = adoptQuery(Bare, [ns |-> None]) /\ entries = <<Elsewhere>>
         /\ at = 1 /\ urlTimer = FALSE /\ leaving = FALSE /\ nav = "none"
         /\ remembered = Nothing /\ overwritten = FALSE
    \/ half = "view" /\ ViewInit /\ (route.key = nodes => view.draft = None)
         /\ mounted = FALSE /\ ctx = ctxA /\ seenCtx = ctxA /\ session = {ctxA}
         /\ sel = selA /\ loadedSel = selA /\ wantSel = selA
         /\ rows = {} /\ rv = NoVersion /\ loadGen = 0 /\ walks = {} /\ loops = {}
         /\ controller = 0 /\ stopped = TRUE
         /\ cont = FALSE /\ paged = FALSE /\ loading = FALSE /\ error = FALSE /\ degraded = FALSE

MCNext ==
    /\ UNCHANGED half
    /\ \/ half = "table" /\ Next /\ UNCHANGED viewVars
       \/ half = "view" /\ ViewNext /\ InScope /\ UNCHANGED vars

MCSpec == MCInit /\ [][MCNext]_<<half, vars, viewVars>>
===============================================================================
