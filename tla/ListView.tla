------------------------------- MODULE ListView -------------------------------
(***************************************************************************)
(* The view of the resource list page and its URL: the filter, the label   *)
(* selector (draft and applied) and the selected namespace of              *)
(* ResourceListPage.vue, mirrored into the address by a debounced          *)
(* router.replace and adopted from it on every navigation, with the tab's  *)
(* history under both.                                                     *)
(*                                                                         *)
(* A navigation between lists, like the page's own replace, ends within    *)
(* the task that starts it (its guards only await settled promises), and   *)
(* Vue flushes the watchers in the same task: one step.  A navigation away *)
(* may have to fetch the next page's code first and stays pending          *)
(* meanwhile; the router drops it when a newer navigation starts.          *)
(***************************************************************************)
EXTENDS Naturals, Sequences

CONSTANTS
    Lists,        \* the resources with a list page
    Namespaced,   \* those that live in namespaces
    Filters, Selectors, Spaces,
    Bad,          \* a namespace parameter that is no DNS-1123 label
    None,         \* the empty string: a default, never written
    Away,         \* any page that is not a list
    MaxEntries    \* bound on the tab's history

ASSUME ViewAssumption ==
    /\ Namespaced \subseteq Lists /\ Away \notin Lists
    /\ None \notin Filters \cup Selectors \cup Spaces \cup {Bad}
    /\ Bad \notin Spaces
    /\ MaxEntries \in Nat \ {0}

VARIABLES
    route,       \* the router's current route
    view,        \* filter, draft, applied selector; ns is ui.namespace
    urlTimer,    \* a debounced write is due
    leaving,
    nav,         \* a navigation away that waits for the next page's code
    entries,     \* the tab's history ...
    at,          \* ... and the entry the address bar shows
    remembered,  \* ui.listQueries
    overwritten  \* history: a flush has hit an entry Back had moved to

viewVars == <<route, view, urlTimer, leaving, nav, entries, at, remembered, overwritten>>

Query == [ns : Spaces \cup {Bad, None}, filter : Filters \cup {None},
          selector : Selectors \cup {None}]
Bare == [ns |-> None, filter |-> None, selector |-> None]
Elsewhere == [key |-> Away, query |-> Bare]
Entry == [key : Lists, query : Query] \cup {Elsewhere}

OnList == route.key # Away

-----------------------------------------------------------------------------
(* Variants named Slip... are what a plausible mistake in the same place   *)
(* would do; they are not part of the specification.                       *)

(* listQuery over the page's state: a cluster-scoped list has no namespace *)
(* to write.                                                               *)
listQuery(key, v) ==
    [ns |-> IF key \in Namespaced THEN v.ns ELSE None, filter |-> v.filter,
     selector |-> v.applied]

urlQuery == listQuery(route.key, view)

(* What the computed query is recomputed for.                              *)
QueryInputs(key, v) == <<key \in Namespaced, listQuery(key, v)>>

(* parseListQuery: a namespace that cannot name one reads as none.         *)
parseListQuery(q) == [q EXCEPT !.ns = IF q.ns = Bad THEN None ELSE q.ns]

SlipAdoptQuery(q, v) ==
    [filter |-> q.filter, draft |-> q.selector, applied |-> None,
     ns |-> IF parseListQuery(q).ns # None THEN q.ns ELSE v.ns]

(* adoptQuery: a URL that names no namespace keeps the selected one.       *)
adoptQuery(q, v) ==
    LET state == parseListQuery(q)
    IN  [filter |-> state.filter, draft |-> state.selector, applied |-> state.selector,
         ns |-> IF state.ns # None THEN state.ns ELSE v.ns]

(* The adopting watches: another resource, or a query the view does not    *)
(* hold.                                                                   *)
Adopted(to, v) ==
    IF to.key # route.key \/ to.query # listQuery(to.key, v)
    THEN adoptQuery(to.query, v) ELSE v

(* flushUrlWrite: a pending write goes straight into entry i, the one the  *)
(* address bar shows when the guard runs.                                  *)
Flushed(i) ==
    IF urlTimer /\ urlQuery # route.query
    THEN [entries EXCEPT ![i] = [key |-> route.key, query |-> urlQuery]]
    ELSE entries

SlipMayWrite(lv, r, q) == q # r.query
MayWrite(lv, r, q) == ~lv /\ q # r.query

(* writeUrl at route r with view v, if due: the replace is the router's    *)
(* newest navigation, passes the page's update guard and lands a query     *)
(* the adopting watch compares with the view.                              *)
writeUrl(due, r, v, lv, es, i, pending) ==
    LET q == listQuery(r.key, v)
        to == [r EXCEPT !.query = q]
    IN  IF due /\ MayWrite(lv, r, q)
        THEN /\ route' = to /\ entries' = [es EXCEPT ![i] = to]
             /\ view' = Adopted(to, v)
             /\ leaving' = FALSE /\ nav' = "none"
        ELSE /\ route' = r /\ entries' = es /\ view' = v
             /\ leaving' = lv /\ nav' = pending

(* The watch on urlQuery, after a step has brought route r and view v: a   *)
(* change of the filter alone is debounced, anything else is written now.  *)
WatchQuery(r, v, lv, es, i, pending, timer) ==
    LET q == listQuery(r.key, v)
        fired == QueryInputs(r.key, v) # QueryInputs(route.key, view)
        filterOnly == q.ns = urlQuery.ns /\ q.selector = urlQuery.selector
    IN  /\ urlTimer' = (IF fired THEN filterOnly ELSE timer)
        /\ writeUrl(fired /\ ~filterOnly, r, v, lv, es, i, pending)
        /\ remembered' = [remembered EXCEPT ![r.key] = q]

(* Setup: a fresh page adopts its URL and, unless the two agree, writes it *)
(* back at once.                                                           *)
Mount(to, es, i, known) ==
    LET v == adoptQuery(to.query, view)
    IN  /\ urlTimer' = FALSE
        /\ writeUrl(TRUE, to, v, FALSE, es, i, "none")
        /\ remembered' = [known EXCEPT ![to.key] = listQuery(to.key, v)]

(* The page goes: its state with it, the namespace stays in the store.     *)
ClosePage ==
    /\ route' = Elsewhere
    /\ view' = [filter |-> None, draft |-> None, applied |-> None, ns |-> view.ns]
    /\ urlTimer' = FALSE /\ leaving' = FALSE /\ nav' = "none"

-----------------------------------------------------------------------------
(* The user's input.                                                       *)

Edited(v) ==
    /\ OnList /\ v # view
    /\ WatchQuery(route, v, leaving, entries, at, nav, urlTimer)
    /\ UNCHANGED <<at, overwritten>>

(* Every keystroke of the filter restarts the debounce; the selector's     *)
(* draft reaches neither the list nor the URL before it is applied.        *)
Type(f) ==
    /\ OnList /\ f # view.filter
    /\ view' = [view EXCEPT !.filter = f] /\ urlTimer' = TRUE
    /\ remembered' = [remembered EXCEPT ![route.key].filter = f]
    /\ UNCHANGED <<route, leaving, nav, entries, at, overwritten>>

TypeSelector(s) ==
    /\ OnList /\ s # view.draft
    /\ view' = [view EXCEPT !.draft = s]
    /\ UNCHANGED <<route, urlTimer, leaving, nav, entries, at, remembered, overwritten>>

applySelector == Edited([view EXCEPT !.applied = view.draft])

(* ui.namespace changes under any page.                                    *)
SetNamespace(n) ==
    IF OnList
    THEN Edited([view EXCEPT !.ns = n])
    ELSE /\ n # view.ns /\ view' = [view EXCEPT !.ns = n]
         /\ UNCHANGED <<route, urlTimer, leaving, nav, entries, at, remembered, overwritten>>

(* The selector in the top bar, as a list or as a free text that is only   *)
(* committed when it can name a namespace.                                 *)
commitFreeText(n) == SetNamespace(n)

(* The namespaces, walked up to a page cap: complete if no continue token  *)
(* is left.                                                                *)
fetchNamespaces == [names : SUBSET Spaces, complete : BOOLEAN]

(* A complete list arrives without the selected namespace.                 *)
Reconcile ==
    \E list \in fetchNamespaces :
      /\ list.complete /\ view.ns # None /\ view.ns \notin list.names
      /\ SetNamespace(None)

(* The debounce ends.                                                      *)
TimerFires ==
    /\ urlTimer /\ urlTimer' = FALSE
    /\ writeUrl(TRUE, route, view, leaving, entries, at, nav)
    /\ UNCHANGED <<at, remembered, overwritten>>

-----------------------------------------------------------------------------
(* Navigation.                                                             *)

Pushed(es, to) == Append(SubSeq(es, 1, at), to)

(* The update guard lets the page write again; then the watches run.       *)
onBeforeRouteUpdate(to, es, i) ==
    WatchQuery(to, Adopted(to, view), FALSE, es, i, "none", FALSE)

(* A link to a list: bare in the sidebar, with the remembered query on the *)
(* detail page.  One to the very location shown is dropped by the router   *)
(* as a duplicate, which still cancels what was pending.                   *)
FollowLink(to) ==
    IF to = route
    THEN /\ nav # "none" /\ nav' = "none"
         /\ UNCHANGED <<route, view, urlTimer, leaving, entries, at, remembered, overwritten>>
    ELSE LET es == Pushed(IF OnList THEN Flushed(at) ELSE entries, to)
         IN  /\ at < MaxEntries
             /\ at' = at + 1
             /\ IF OnList THEN onBeforeRouteUpdate(to, es, at + 1) ELSE Mount(to, es, at + 1, remembered)
             /\ UNCHANGED overwritten

Links ==
    {[key |-> k, query |-> Bare] : k \in Lists}
      \cup (IF OnList THEN {} ELSE {[key |-> k, query |-> remembered[k]] : k \in Lists})

(* The page's leave guard, with the address bar on entry i.                *)
onBeforeRouteLeave(how, i) ==
    /\ entries' = Flushed(i) /\ urlTimer' = FALSE
    /\ leaving' = TRUE /\ nav' = how

(* A row opens its object; any other link away starts the same way.        *)
openDetail ==
    /\ OnList /\ at < MaxEntries
    /\ onBeforeRouteLeave("push", at)
    /\ UNCHANGED <<route, view, at, remembered, overwritten>>

LeaveDone ==
    /\ nav # "none"
    /\ ClosePage
    /\ IF nav = "push"
       THEN entries' = Pushed(entries, Elsewhere) /\ at' = at + 1
       ELSE UNCHANGED <<entries, at>>
    /\ UNCHANGED <<remembered, overwritten>>

(* The code of the next page cannot be fetched: the router undoes a Back   *)
(* or Forward and calls no afterEach.                                      *)
LeaveFails ==
    /\ nav # "none" /\ nav' = "none"
    /\ at' = (CASE nav = "back" -> at + 1 [] nav = "forward" -> at - 1 [] OTHER -> at)
    /\ UNCHANGED <<route, view, urlTimer, leaving, entries, remembered, overwritten>>

(* Back and Forward, from or to a list: the address bar moves first, the   *)
(* guards run then.                                                        *)
Traverse(dir) ==
    LET i == IF dir = "back" THEN at - 1 ELSE at + 1
        to == entries[i]
        es == IF OnList THEN Flushed(i) ELSE entries
    IN  /\ i \in DOMAIN entries /\ at' = i
        /\ overwritten' = (overwritten \/ es # entries)
        /\ \/ /\ to.key # Away
              /\ IF OnList THEN onBeforeRouteUpdate(to, es, i) ELSE Mount(to, es, i, remembered)
           \/ /\ to.key = Away /\ OnList
              /\ onBeforeRouteLeave(dir, i)
              /\ UNCHANGED <<route, view, remembered>>

Nothing == [k \in Lists |-> Bare]

(* The tab is reloaded: only the address and the stored namespace survive. *)
ReloadTab ==
    /\ IF entries[at].key # Away
       THEN Mount(entries[at], entries, at, Nothing)
       ELSE ClosePage /\ remembered' = Nothing /\ UNCHANGED entries
    /\ UNCHANGED <<at, overwritten>>

-----------------------------------------------------------------------------
(* A tab opened on another page, or on a link anyone may have written.     *)
ViewInit ==
    \E to \in Entry, n \in Spaces \cup {None} :
      LET v == adoptQuery(to.query, [ns |-> n])
          shown == IF to.key = Away THEN to ELSE [to EXCEPT !.query = listQuery(to.key, v)]
      IN  /\ route = shown /\ view = v /\ entries = <<shown>> /\ at = 1
          /\ urlTimer = FALSE /\ leaving = FALSE /\ nav = "none"
          /\ remembered = [k \in Lists |-> IF k = to.key THEN shown.query ELSE Bare]
          /\ overwritten = FALSE

ViewNext ==
    \/ \E f \in Filters \cup {None} : Type(f)
    \/ \E s \in Selectors \cup {None} : TypeSelector(s)
    \/ applySelector
    \/ \E n \in Spaces \cup {None} : commitFreeText(n)
    \/ Reconcile
    \/ TimerFires
    \/ \E to \in Links : FollowLink(to)
    \/ openDetail \/ LeaveDone \/ LeaveFails
    \/ \E dir \in {"back", "forward"} : Traverse(dir)
    \/ ReloadTab

ViewSpec == ViewInit /\ [][ViewNext]_viewVars

-----------------------------------------------------------------------------
(* Properties.                                                             *)

(* UrlTruthful: with no write due and no navigation away begun, the        *)
(* address is that of the list on screen, with its filter and its applied  *)
(* selector, and it names no namespace but the selected one                *)
(* (ResourceListPage.vue: writeUrl, flushUrlWrite, adoptQuery).            *)
UrlTruthful ==
    OnList /\ ~urlTimer /\ ~leaving /\ ~overwritten =>
      /\ entries[at].key = route.key
      /\ entries[at].query.filter = view.filter
      /\ entries[at].query.selector = view.applied
      /\ entries[at].query.ns \in {None, urlQuery.ns}

(* OwnWritesHarmless: a URL write the user did not ask for, at the end of  *)
(* the debounce or after the namespaces were reconciled, neither cancels a *)
(* navigation away that is still pending nor rolls back what was typed,    *)
(* the selector's draft included, nor adds to the history                  *)
(* (ResourceListPage.vue: leaving, writeUrl, the watch on route.query).    *)
OwnWritesHarmless ==
    [][TimerFires \/ Reconcile =>
         /\ UNCHANGED <<nav, at>>
         /\ Len(entries') = Len(entries)
         /\ \A x \in {"filter", "draft", "applied"} : view'[x] = view[x]]_viewVars
===============================================================================
