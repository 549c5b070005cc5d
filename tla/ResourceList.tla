----------------------------- MODULE ResourceList -----------------------------
(***************************************************************************)
(* The resource table of the SPA: useResourceList (load, refresh,          *)
(* nextPage, searchAllByName, the watch on the active cluster) on top of   *)
(* useWatch (start, stop, the retry loop) and walkTable.                   *)
(*                                                                         *)
(* JavaScript runs one callback at a time; what interleaves are the pieces *)
(* between awaits: page responses of several overlapping walks, the events *)
(* and the end of several watch attempts, backoff timers, the user and     *)
(* Vue's watchers, which run after the change they react to.               *)
(*                                                                         *)
(* A row is reduced to where it was listed: a pair of cluster and          *)
(* selection (resource, namespace and applied label selector).  A          *)
(* resourceVersion is reduced to the listing it belongs to.                *)
(***************************************************************************)
EXTENDS Naturals, FiniteSets

CONSTANTS
    Contexts,     \* clusters
    Selections,   \* what the page can be asked to list
    MaxPages,     \* pages a walk fetches at most (MAX_LIST_PAGES)
    MaxLoads,     \* bound on loadGen
    NoVersion     \* the empty resourceVersion

ASSUME ListAssumption ==
    /\ MaxPages \in Nat \ {0}
    /\ MaxLoads \in Nat
    /\ NoVersion \notin Contexts \X Selections

VARIABLES
    mounted,     \* the page's component is on screen
    ctx,         \* auth.activeContext
    seenCtx,     \* the context Vue's watch last ran for
    session,     \* contexts that have a session
    sel,         \* what getRef/getOptions return
    loadedSel,   \* the selection pinned by load()
    wantSel,     \* history: the selection the newest load or search captured
    rows,        \* where the rows on screen come from
    rv,          \* resourceVersion
    cont,        \* a continue token is outstanding
    paged, loading, error,
    degraded,    \* watchDegraded
    loadGen,
    walks,       \* walkTable calls waiting for a page
    loops,       \* watch loops that have not returned
    controller,  \* the loop whose attempt useWatch can abort, 0 for none
    stopped      \* useWatch's flag

env == <<mounted, ctx, seenCtx, session, sel>>
table == <<loadedSel, wantSel, rows, rv, cont, paged, loading, error, degraded,
           loadGen, walks>>
watch == <<loops, controller, stopped>>
vars == <<mounted, ctx, seenCtx, session, sel, loadedSel, wantSel,
          rows, rv, cont, paged, loading, error, degraded, loadGen, walks,
          loops, controller, stopped>>

Origin == Contexts \X Selections
Version == Origin \cup {NoVersion}

(* A walk of generation gen, waiting for its page-th page; its request was *)
(* stamped with cluster ctx and carried that cluster's token if auth.      *)
Walk == [gen : 1..MaxLoads, kind : {"refresh", "next", "search"},
         sel : Selections, page : 1..MaxPages, ctx : Contexts,
         auth : BOOLEAN, acc : SUBSET Origin]

(* A watch loop: cur is myGeneration = generation; while "open" its        *)
(* attempt streams from, having resumed version since.                     *)
Loop == [id : 1..MaxLoads, st : {"open", "backoff"}, from : Origin,
         since : Version, cur : BOOLEAN, aborted : BOOLEAN]

TypeOK ==
    /\ mounted \in BOOLEAN /\ ctx \in Contexts /\ seenCtx \in Contexts
    /\ session \subseteq Contexts
    /\ {sel, loadedSel, wantSel} \subseteq Selections
    /\ rows \subseteq Origin /\ rv \in Version
    /\ {cont, paged, loading, error, degraded, stopped} \subseteq BOOLEAN
    /\ loadGen \in 0..MaxLoads
    /\ walks \subseteq Walk /\ loops \subseteq Loop
    /\ controller \in 0..MaxLoads

Init ==
    /\ mounted = TRUE
    /\ ctx \in Contexts /\ seenCtx = ctx
    /\ session \in SUBSET Contexts /\ ctx \in session
    /\ sel \in Selections /\ loadedSel = sel /\ wantSel = sel
    /\ rows = {} /\ rv = NoVersion /\ cont = FALSE
    /\ paged = FALSE /\ loading = FALSE /\ error = FALSE /\ degraded = FALSE
    /\ loadGen = 0 /\ walks = {}
    /\ loops = {} /\ controller = 0 /\ stopped = TRUE

isAuthenticated == ctx \in session

-----------------------------------------------------------------------------
(* Variants named Slip... are what a plausible mistake in the same place   *)
(* would do; they are not part of the specification.                       *)

SlipStoppedNoAbort == {[l EXCEPT !.cur = FALSE] : l \in loops}

(* useWatch.stop(): the generation moves on and the current attempt is     *)
(* aborted.                                                                *)
Stopped == {[l EXCEPT !.cur = FALSE, !.aborted = @ \/ l.id = controller] : l \in loops}

stop == loops' = Stopped /\ controller' = 0 /\ stopped' = TRUE

(* A watch request: where from, and the version it resumes.                *)
watchUrl(from, since) ==
    [id |-> loadGen, st |-> "open", from |-> from, since |-> since, cur |-> TRUE,
     aborted |-> FALSE]

(* useWatch.start() right after a load: loop() runs up to the first fetch. *)
start(from, since) ==
    /\ loops' = Stopped \cup {watchUrl(from, since)}
    /\ controller' = loadGen
    /\ stopped' = FALSE

(* The request for a page of walk w, stamped with the cluster and the      *)
(* token of the moment; a plain List is converted to a Table.              *)
listAsTable(w) == [w EXCEPT !.ctx = ctx, !.auth = isAuthenticated]

(* The synchronous part of load() and searchAllByName().                   *)
beginLoad(kind) ==
    /\ loadGen < MaxLoads
    /\ loadGen' = loadGen + 1
    /\ loadedSel' = IF kind = "search" THEN loadedSel ELSE sel
    /\ wantSel' = sel
    /\ loading' = TRUE /\ error' = FALSE /\ rows' = {}
    /\ walks' = walks \cup
         {listAsTable([gen |-> loadGen + 1, kind |-> kind, sel |-> sel, page |-> 1,
                       ctx |-> ctx, auth |-> FALSE, acc |-> {}])}
    /\ UNCHANGED <<rv, cont>>

refresh ==
    /\ paged' = FALSE
    /\ stop
    /\ beginLoad("refresh")
    /\ UNCHANGED degraded

-----------------------------------------------------------------------------
(* The user and Vue's watchers.                                            *)

(* Another resource, namespace or applied selector ...                     *)
Select(s) ==
    /\ mounted /\ s # sel
    /\ sel' = s
    /\ UNCHANGED <<mounted, ctx, seenCtx, session, table, watch>>

(* ... makes the page reload; so do mounting and the refresh button.       *)
Reload ==
    /\ mounted
    /\ refresh
    /\ UNCHANGED <<mounted, ctx, seenCtx, session, sel>>

(* The cluster selector.  Vue flushes its watchers before the next user    *)
(* event, though not before a response that is already due.                *)
SwitchContext(c) ==
    /\ c # ctx /\ (mounted => ctx = seenCtx)
    /\ ctx' = c
    /\ UNCHANGED <<mounted, seenCtx, session, sel, table, watch>>

(* The watch on auth.activeContext.                                        *)
ContextWatch ==
    /\ mounted /\ ctx # seenCtx
    /\ seenCtx' = ctx
    /\ \/ ~isAuthenticated /\ stop /\ UNCHANGED table
       \/ isAuthenticated /\ refresh
    /\ UNCHANGED <<mounted, ctx, session, sel>>

nextPage ==
    /\ mounted /\ cont
    /\ paged' = TRUE /\ degraded' = TRUE
    /\ stop
    /\ beginLoad("next")
    /\ UNCHANGED env

viewComplete == rv # NoVersion /\ ~cont /\ ~paged

SlipSearchNotDegraded ==
    /\ mounted /\ ~viewComplete
    /\ paged' = TRUE
    /\ stop
    /\ beginLoad("search")
    /\ UNCHANGED <<env, degraded>>

(* searchAllByName with a name; an empty query is a Reload.                *)
searchAllByName ==
    /\ mounted /\ ~viewComplete
    /\ paged' = TRUE /\ degraded' = TRUE
    /\ stop
    /\ beginLoad("search")
    /\ UNCHANGED env

(* onBeforeUnmount(stop); Vue disposes of the watchers.                    *)
Unmount ==
    /\ mounted
    /\ mounted' = FALSE
    /\ stop
    /\ UNCHANGED <<ctx, seenCtx, session, sel, table>>

-----------------------------------------------------------------------------
(* walkTable and what follows it.                                          *)

superseded(w) == w.gen # loadGen

(* A page for a superseded walk: shouldAbort, then load() returns.  If it  *)
(* failed with a 401, apiFetch ended that cluster's session all the same.  *)
DropPage(w, unauthorized) ==
    /\ superseded(w)
    /\ walks' = walks \ {w}
    /\ session' = IF unauthorized THEN session \ {w.ctx} ELSE session
    /\ UNCHANGED <<mounted, ctx, seenCtx, sel, loadedSel, wantSel, rows, rv,
                   cont, paged, loading, error, degraded, loadGen, watch>>

(* A page with a continue token: the next request is stamped afresh.       *)
MorePages(w) ==
    /\ ~superseded(w) /\ w.auth /\ w.page < MaxPages
    /\ walks' = (walks \ {w}) \cup
                {listAsTable([w EXCEPT !.page = @ + 1, !.acc = @ \cup {<<w.ctx, w.sel>>}])}
    /\ UNCHANGED <<env, loadedSel, wantSel, rows, rv, cont, paged, loading,
                   error, degraded, loadGen, watch>>

(* refresh() after load(): watch only a complete, uncapped collection.     *)
afterRefresh(ok, version) ==
    IF ok
    THEN /\ degraded' = FALSE
         /\ start(<<ctx, loadedSel>>, version)
    ELSE /\ degraded' = TRUE
         /\ UNCHANGED watch

SlipLastPageUnchecked(w, more, version) ==
    /\ w.auth /\ w.kind # "search"
    /\ more => w.page = MaxPages
    /\ rows' = w.acc \cup {<<w.ctx, w.sel>>}
    /\ walks' = walks \ {w}
    /\ loading' = FALSE
    /\ rv' = version /\ cont' = more
    /\ IF w.kind = "refresh"
       THEN afterRefresh(version # NoVersion /\ ~more, version)
       ELSE UNCHANGED <<degraded, watch>>
    /\ UNCHANGED <<env, loadedSel, wantSel, paged, error, loadGen>>

(* A search's matches are a set of their own: nothing to resume or page.   *)
searchShown == rv' = NoVersion /\ cont' = FALSE /\ UNCHANGED <<degraded, watch>>

(* The last page: more says that the cap was reached with a continue token *)
(* left; the server may leave the resourceVersion empty.                   *)
LastPage(w, more, version) ==
    /\ ~superseded(w) /\ w.auth
    /\ more => w.page = MaxPages
    /\ rows' = w.acc \cup {<<w.ctx, w.sel>>}
    /\ walks' = walks \ {w}
    /\ loading' = FALSE
    /\ \/ w.kind = "search" /\ searchShown
       \/ /\ w.kind # "search"
          /\ rv' = version /\ cont' = more
          /\ IF w.kind = "refresh"
             THEN afterRefresh(version # NoVersion /\ ~more, version)
             ELSE UNCHANGED <<degraded, watch>>
    /\ UNCHANGED <<env, loadedSel, wantSel, paged, error, loadGen>>

(* A failed page; a 401 ends that cluster's session.                       *)
PageFails(w, unauthorized) ==
    /\ ~superseded(w)
    /\ error' = TRUE /\ rows' = {} /\ loading' = FALSE
    /\ walks' = walks \ {w}
    /\ IF w.kind = "refresh" THEN afterRefresh(FALSE, rv)
                             ELSE UNCHANGED <<degraded, watch>>
    /\ session' = IF unauthorized THEN session \ {w.ctx} ELSE session
    /\ UNCHANGED <<mounted, ctx, seenCtx, sel, loadedSel, wantSel, rv,
                   cont, paged, loadGen>>

-----------------------------------------------------------------------------
(* useWatch.loop and runOnce.                                              *)

returns(l) == loops' = loops \ {l}

current(l) == ~stopped /\ l.cur

(* An event on an attempt nobody aborted: rows are added or replaced, or   *)
(* removed (of one origin, the last of them or not), or it is a bookmark.  *)
WatchEvent(l) ==
    /\ l.st = "open" /\ ~l.aborted
    /\ rows' \in {rows, rows \cup {l.from}, rows \ {l.from}}
    /\ rv' = l.from
    /\ UNCHANGED <<env, loadedSel, wantSel, cont, paged, loading, error,
                   degraded, loadGen, walks, watch>>

(* The attempt ends (stream closed, an error, its own abort): retry after  *)
(* the backoff, or return when the loop is no longer the current one.      *)
WatchEnds(l) ==
    /\ l.st = "open"
    /\ IF current(l) /\ ~l.aborted
       THEN loops' = (loops \ {l}) \cup {[l EXCEPT !.st = "backoff", !.aborted = TRUE]}
       ELSE returns(l)
    /\ UNCHANGED <<env, table, controller, stopped>>

(* 410 Gone on the current loop: relist.                                   *)
WatchStale(l) ==
    /\ l.st = "open" /\ ~l.aborted /\ current(l)
    /\ paged' = FALSE
    /\ loops' = {m \in Stopped : m.id # l.id}
    /\ controller' = 0 /\ stopped' = TRUE
    /\ beginLoad("refresh")
    /\ UNCHANGED <<env, degraded>>

(* 401: the loop gives up; the session of that cluster is over.            *)
WatchUnauthorized(l) ==
    /\ l.st = "open" /\ ~l.aborted
    /\ returns(l)
    /\ session' = session \ {l.from[1]}
    /\ UNCHANGED <<mounted, ctx, seenCtx, sel, table, controller, stopped>>

buildUrl == ~paged /\ ~cont /\ rv # NoVersion

(* The backoff timer.                                                      *)
WatchRetry(l) ==
    /\ l.st = "backoff"
    /\ IF current(l) /\ buildUrl
       THEN /\ loops' = (loops \ {l}) \cup
                        {[l EXCEPT !.st = "open", !.from = <<ctx, loadedSel>>,
                                   !.since = rv, !.aborted = FALSE]}
            /\ controller' = l.id
       ELSE returns(l) /\ UNCHANGED controller
    /\ UNCHANGED <<env, table, stopped>>

Responses ==
    \E w \in walks :
        \/ MorePages(w)
        \/ \E more \in BOOLEAN, version \in {NoVersion, <<w.ctx, w.sel>>} :
              LastPage(w, more, version)
        \/ \E unauthorized \in BOOLEAN :
              DropPage(w, unauthorized) \/ PageFails(w, unauthorized)

Watching ==
    \E l \in loops :
        WatchEvent(l) \/ WatchEnds(l) \/ WatchStale(l) \/ WatchUnauthorized(l)
        \/ WatchRetry(l)

Next ==
    \/ \E s \in Selections : Select(s)
    \/ Reload
    \/ \E c \in Contexts : SwitchContext(c)
    \/ ContextWatch
    \/ nextPage \/ searchAllByName \/ Unmount
    \/ Responses
    \/ Watching

Spec == Init /\ [][Next]_vars

-----------------------------------------------------------------------------
(* The page shows a cluster it is signed in to and has caught up with it.  *)
Settled == mounted /\ ctx = seenCtx /\ isAuthenticated

(* However walks, watch attempts and switches overlap, every row on screen *)
(* was listed for the newest request and on the active cluster: no slower  *)
(* response and no event of an earlier stream gets in.                     *)
RowsBelong == Settled => rows \subseteq {<<ctx, wantSel>>}

Live == {l \in loops : l.st = "open" /\ ~l.aborted}

(* At most one watch request is open at a time, on screen or not: restarts *)
(* and backoff cycles leave none behind.  The open one streams the         *)
(* collection on screen and resumed that collection's own resourceVersion. *)
OneLiveWatch ==
    /\ Cardinality(Live) <= 1
    /\ Settled => \A l \in Live : /\ l.from = <<ctx, loadedSel>>
                                  /\ l.since = l.from
                                  /\ loadedSel = wantSel /\ ~paged /\ ~cont

(* What the page says of itself is so: the spinner turns exactly while the *)
(* newest walk is in flight (a superseded one neither stops it early nor   *)
(* leaves it turning), and a table that does not say "watch degraded" has  *)
(* a loop that is streaming or about to reconnect.                         *)
BadgeTruthful ==
    /\ loading <=> \E w \in walks : ~superseded(w)
    /\ (Settled /\ loadGen > 0 /\ ~loading /\ ~degraded)
          => \E l \in loops : current(l)

(* "The watch is always closed on component unmount / route change."       *)
(* (useWatch.ts)                                                           *)
ClosedOnUnmount == ~mounted => Live = {}
===============================================================================
