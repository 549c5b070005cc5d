-------------------------- MODULE ResourceListProofs --------------------------
(***************************************************************************)
(* Proofs about ResourceList, for any clusters, selections, page cap and   *)
(* any number of loads: whatever walks, watch attempts, retries, cluster   *)
(* switches and sign-outs overlap, the table shows what it claims to show. *)
(*                                                                         *)
(* The argument is by generations.  Of all walks in flight at most one is  *)
(* of the newest generation, and it carries the selection the newest load  *)
(* captured; of all watch loops at most one is current, only a current one *)
(* can be streaming, and none is current while a load is in flight.  What  *)
(* is said of the cluster holds while the page is settled: a page can      *)
(* become settled only by the refresh of the watch on activeContext.       *)
(*                                                                         *)
(* And about ListView, for any lists, filters, selectors, namespaces and   *)
(* history: the address bar tells the truth about the list on screen, and  *)
(* the page's own writes to it do no harm.  There the argument is that the *)
(* page only ever writes queries that read back as they were written.      *)
(***************************************************************************)
EXTENDS ResourceList, ListView, FiniteSetTheorems, SequenceTheorems, TLAPS

(* The walk of the newest generation, if one is in flight.                 *)
WalkInv ==
    /\ \A w \in walks : w.gen <= loadGen
    /\ \A v, w \in walks : v.gen = loadGen /\ w.gen = loadGen => v = w
    /\ loading <=> \E w \in walks : w.gen = loadGen
    /\ \A w \in walks : w.gen = loadGen =>
          /\ w.sel = wantSel
          /\ w.kind # "search" => loadedSel = wantSel
          /\ w.kind = "refresh" => ~paged
          /\ w.kind # "refresh" => degraded

(* The current watch loop, if there is one.                                *)
LoopInv ==
    /\ \A l \in loops : l.id <= loadGen /\ (loading => l.id < loadGen)
    /\ \A l, m \in loops : l.id = m.id => l = m
    /\ \A l, m \in loops : l.cur /\ m.cur => l = m
    /\ \A l \in loops : l.cur => ~stopped /\ ~loading
    /\ \A l \in loops : l.st = "open" => (l.cur <=> ~l.aborted)
    /\ \A l \in loops : l.st = "open" /\ l.cur => l.id = controller

(* What a settled page's rows, newest walk and current loop belong to.     *)
BelongInv ==
    Settled =>
        /\ rows \subseteq {<<ctx, wantSel>>}
        /\ \A w \in walks : w.gen = loadGen =>
              w.ctx = ctx /\ w.acc \subseteq {<<ctx, wantSel>>}
        /\ \A l \in loops : l.cur =>
              /\ loadedSel = wantSel /\ ~paged /\ ~cont
              /\ rv = <<ctx, loadedSel>>
              /\ l.st = "open" => l.from = <<ctx, loadedSel>> /\ l.since = <<ctx, loadedSel>>
        /\ (loadGen > 0 /\ ~loading /\ ~degraded) => \E l \in loops : l.cur

ListInv ==
    /\ TypeOK
    /\ WalkInv
    /\ LoopInv
    /\ BelongInv

-----------------------------------------------------------------------------
(* The type invariant.                                                     *)

(* TypeOK with one conjunct per variable.                                  *)
FlatOK ==
    /\ mounted \in BOOLEAN /\ ctx \in Contexts /\ seenCtx \in Contexts
    /\ session \subseteq Contexts
    /\ sel \in Selections /\ loadedSel \in Selections /\ wantSel \in Selections
    /\ rows \subseteq Origin /\ rv \in Version
    /\ cont \in BOOLEAN /\ paged \in BOOLEAN /\ loading \in BOOLEAN
    /\ error \in BOOLEAN /\ degraded \in BOOLEAN /\ stopped \in BOOLEAN
    /\ loadGen \in 0..MaxLoads /\ controller \in 0..MaxLoads
    /\ walks \subseteq Walk /\ loops \subseteq Loop

(* The two say the same.                                                   *)
LEMMA FlatIsType == TypeOK <=> FlatOK
  <1>1. {sel, loadedSel, wantSel} \subseteq Selections <=>
            sel \in Selections /\ loadedSel \in Selections /\ wantSel \in Selections
    BY Zenon
  <1>2. {cont, paged, loading, error, degraded, stopped} \subseteq BOOLEAN <=>
            /\ cont \in BOOLEAN /\ paged \in BOOLEAN /\ loading \in BOOLEAN
            /\ error \in BOOLEAN /\ degraded \in BOOLEAN /\ stopped \in BOOLEAN
    BY Zenon
  <1>3. QED
    BY <1>1, <1>2, Zenon DEF TypeOK, FlatOK

(* The same, with the counters as numbers.                                 *)
LEMMA FlatType ==
    ASSUME TypeOK
    PROVE  FlatOK /\ loadGen \in Nat /\ controller \in Nat
  BY FlatIsType, ListAssumption DEF FlatOK

(* A stopped loop is a loop.                                               *)
LEMMA StoppedType == TypeOK => Stopped \subseteq Loop
  <1> SUFFICES ASSUME TypeOK, NEW m \in Stopped PROVE m \in Loop
    OBVIOUS
  <1>1. PICK l \in loops : m = [l EXCEPT !.cur = FALSE, !.aborted = @ \/ l.id = controller]
    BY DEF Stopped
  <1>2. l \in Loop
    BY DEF TypeOK
  <1>3. (l.aborted \/ l.id = controller) \in BOOLEAN
    OBVIOUS
  <1>4. QED
    BY <1>1, <1>2, <1>3 DEF Loop

(* A request keeps what its walk is for and carries the active cluster.    *)
LEMMA Stamped ==
    ASSUME TypeOK, NEW w \in Walk
    PROVE  /\ listAsTable(w) \in Walk
           /\ listAsTable(w).gen = w.gen /\ listAsTable(w).kind = w.kind
           /\ listAsTable(w).sel = w.sel /\ listAsTable(w).acc = w.acc
           /\ listAsTable(w).ctx = ctx
  <1>1. isAuthenticated \in BOOLEAN
    BY DEF isAuthenticated
  <1>2. QED
    BY <1>1 DEF listAsTable, Walk, TypeOK

(* The walk a load starts with.                                            *)
firstPage(kind) ==
    [gen |-> loadGen + 1, kind |-> kind, sel |-> sel, page |-> 1,
     ctx |-> ctx, auth |-> FALSE, acc |-> {}]

(* The walk a load begins is a walk.                                       *)
LEMMA FirstPage ==
    ASSUME TypeOK, loadGen < MaxLoads, NEW kind \in {"refresh", "next", "search"}
    PROVE  /\ firstPage(kind) \in Walk
           /\ firstPage(kind).gen = loadGen + 1 /\ firstPage(kind).kind = kind
           /\ firstPage(kind).sel = sel /\ firstPage(kind).acc = {}
  BY FlatType, ListAssumption DEF FlatOK, Walk, firstPage

(* The table's part of the state after the synchronous part of a load.     *)
LEMMA BeginType ==
    ASSUME TypeOK, NEW kind \in {"refresh", "next", "search"}, beginLoad(kind)
    PROVE  /\ {loadedSel', wantSel'} \subseteq Selections
           /\ rows' \subseteq Origin /\ rv' \in Version
           /\ loading' \in BOOLEAN /\ error' \in BOOLEAN /\ cont' \in BOOLEAN
           /\ loadGen' \in 0..MaxLoads
           /\ walks' \subseteq Walk
  <1>1. loadGen' = loadGen + 1 /\ loadGen' \in 0..MaxLoads /\ loadGen < MaxLoads
    BY ListAssumption DEF TypeOK, beginLoad
  <1>2. listAsTable(firstPage(kind)) \in Walk
    BY <1>1, FirstPage, Stamped
  <1>3. walks' \subseteq Walk
    BY <1>2 DEF TypeOK, beginLoad, firstPage
  <1>4. loading' \in BOOLEAN /\ error' \in BOOLEAN /\ cont' \in BOOLEAN
    BY Zenon DEF TypeOK, beginLoad
  <1>5. {loadedSel', wantSel'} \subseteq Selections
    BY FlatType, Zenon DEF FlatOK, beginLoad
  <1>6. rows' \subseteq Origin /\ rv' \in Version
    BY DEF TypeOK, beginLoad
  <1>7. QED
    BY <1>1, <1>3, <1>4, <1>5, <1>6

(* The types hold at first.                                                *)
LEMMA TypeInit == Init => TypeOK
  <1> SUFFICES ASSUME Init PROVE FlatOK
    BY FlatIsType
  <1>1. /\ mounted \in BOOLEAN /\ cont \in BOOLEAN /\ paged \in BOOLEAN /\ loading \in BOOLEAN
        /\ error \in BOOLEAN /\ degraded \in BOOLEAN /\ stopped \in BOOLEAN
    BY Zenon DEF Init
  <1>2. QED
    BY <1>1, ListAssumption DEF Init, FlatOK, Version

(* A load and the stop that goes with it, for each caller of beginLoad.    *)
LEMMA LoadType ==
    ASSUME TypeOK, NEW kind \in {"refresh", "next", "search"}, beginLoad(kind),
           loops' \subseteq Stopped, controller' = 0, stopped' \in BOOLEAN,
           paged' \in BOOLEAN, degraded' \in BOOLEAN,
           mounted' = mounted, ctx' = ctx, seenCtx' \in Contexts, session' = session, sel' = sel
    PROVE  TypeOK'
  <1>1. loops' \subseteq Loop
    BY StoppedType
  <1>2. FlatOK'
    <2>1. loadedSel' \in Selections /\ wantSel' \in Selections
      BY BeginType, Zenon
    <2>2. QED
      BY <1>1, <2>1, BeginType, FlatType, ListAssumption DEF FlatOK
  <1>3. QED
    BY <1>2, FlatIsType, PTL

(* No step breaks the types.                                               *)
LEMMA TypeStep ==
    ASSUME TypeOK, [Next]_vars
    PROVE  TypeOK'
  <1>0. FlatOK /\ loadGen \in Nat /\ controller \in Nat /\ Stopped \subseteq Loop
    BY FlatType, StoppedType
  <1>1. SUFFICES FlatOK' \/ TypeOK'
    BY FlatIsType, PTL
  <1>2. ASSUME NEW t \in Selections, Select(t) PROVE FlatOK'
    BY <1>0, <1>2 DEF FlatOK, Select, table, watch
  <1>3. CASE Reload
    <2>1. stopped' \in BOOLEAN /\ paged' \in BOOLEAN /\ degraded' \in BOOLEAN
      BY <1>0, <1>3, Zenon DEF Reload, refresh, stop, FlatOK
    <2>2. QED
      BY <1>0, <1>3, <2>1, LoadType DEF Reload, refresh, stop, FlatOK
  <1>4. ASSUME NEW c \in Contexts, SwitchContext(c) PROVE FlatOK'
    BY <1>0, <1>4 DEF FlatOK, SwitchContext, table, watch
  <1>5. CASE ContextWatch
    <2>1. CASE ~isAuthenticated /\ stop /\ UNCHANGED table
      <3>1. stopped' \in BOOLEAN
        BY <2>1, Zenon DEF stop
      <3>2. QED
        BY <1>0, <1>5, <2>1, <3>1, ListAssumption DEF FlatOK, ContextWatch, stop, table
    <2>2. CASE refresh
      <3>1. stopped' \in BOOLEAN /\ paged' \in BOOLEAN /\ degraded' \in BOOLEAN
        BY <1>0, <2>2, Zenon DEF refresh, stop, FlatOK
      <3>2. QED
        BY <1>0, <1>5, <2>2, <3>1, LoadType DEF ContextWatch, refresh, stop, FlatOK
    <2>3. QED
      BY <1>5, <2>1, <2>2 DEF ContextWatch
  <1>6. CASE nextPage \/ searchAllByName
    <2>1. stopped' \in BOOLEAN /\ paged' \in BOOLEAN /\ degraded' \in BOOLEAN
      BY <1>6, Zenon DEF nextPage, searchAllByName, stop
    <2>2. QED
      BY <1>0, <1>6, <2>1, LoadType DEF nextPage, searchAllByName, stop, env, FlatOK
  <1>7. CASE Unmount
    <2>1. stopped' \in BOOLEAN /\ mounted' \in BOOLEAN
      BY <1>7, Zenon DEF Unmount, stop
    <2>2. QED
      BY <1>0, <1>7, <2>1, ListAssumption DEF FlatOK, Unmount, stop, table
  <1>8. ASSUME NEW w \in walks, NEW un \in BOOLEAN, DropPage(w, un) PROVE FlatOK'
    BY <1>0, <1>8 DEF FlatOK, DropPage, watch
  <1>9. ASSUME NEW w \in walks, MorePages(w) PROVE FlatOK'
    <2> DEFINE v == [w EXCEPT !.page = @ + 1, !.acc = @ \cup {<<w.ctx, w.sel>>}]
    <2>1. w \in Walk
      BY <1>0 DEF FlatOK
    <2>2. v \in Walk
      <3>1. w.page + 1 \in 1..MaxPages
        BY <1>9, <2>1, ListAssumption DEF MorePages, Walk
      <3>2. w.acc \cup {<<w.ctx, w.sel>>} \in SUBSET Origin
        BY <2>1 DEF Walk, Origin
      <3>3. QED
        BY <2>1, <3>1, <3>2 DEF Walk
    <2>3. listAsTable(v) \in Walk
      BY <2>2, Stamped
    <2>4. walks' \subseteq Walk
      BY <1>0, <1>9, <2>3 DEF MorePages, FlatOK
    <2>5. QED
      BY <1>0, <1>9, <2>4 DEF MorePages, FlatOK, env, watch
  <1>10. ASSUME NEW w \in walks, NEW more \in BOOLEAN,
                NEW version \in {NoVersion, <<w.ctx, w.sel>>}, LastPage(w, more, version)
         PROVE FlatOK'
    <2>1. w \in Walk
      BY <1>0 DEF FlatOK
    <2>2. <<w.ctx, w.sel>> \in Origin /\ rows' \subseteq Origin /\ version \in Version
      BY <1>10, <2>1 DEF LastPage, Walk, Origin, Version
    <2>3. /\ walks' \subseteq Walk /\ rv' \in Version
          /\ UNCHANGED <<mounted, ctx, seenCtx, session, sel, loadedSel, wantSel, paged, error, loadGen>>
      BY <1>0, <1>10, <2>2 DEF LastPage, FlatOK, searchShown, env, Version
    <2>4. loading' \in BOOLEAN /\ cont' \in BOOLEAN
      BY <1>10, Zenon DEF LastPage, searchShown
    <2>5. /\ loops' \subseteq Loop /\ controller' \in 0..MaxLoads
          /\ degraded' \in BOOLEAN /\ stopped' \in BOOLEAN
      <3>1. CASE UNCHANGED <<degraded, watch>>
        BY <1>0, <3>1 DEF FlatOK, watch
      <3>2. CASE afterRefresh(version # NoVersion /\ ~more, version)
        <4>1. CASE version # NoVersion /\ ~more
          <5>1. degraded' \in BOOLEAN /\ stopped' \in BOOLEAN
            BY <3>2, <4>1, Zenon DEF afterRefresh, start
          <5>2. w.gen \in 1..MaxLoads /\ w.gen = loadGen
            BY <1>10, <2>1 DEF LastPage, superseded, Walk
          <5>3. watchUrl(<<ctx, loadedSel>>, version) \in Loop
            BY <1>0, <2>2, <5>2 DEF watchUrl, Loop, FlatOK, Origin
          <5>4. QED
            BY <1>0, <3>2, <4>1, <5>1, <5>3 DEF afterRefresh, start, FlatOK
        <4>2. CASE ~(version # NoVersion /\ ~more)
          <5>1. degraded' \in BOOLEAN
            BY <3>2, <4>2, Zenon DEF afterRefresh
          <5>2. QED
            BY <1>0, <3>2, <4>2, <5>1 DEF afterRefresh, FlatOK, watch
        <4>3. QED
          BY <4>1, <4>2
      <3>3. QED
        BY <1>10, <3>1, <3>2 DEF LastPage, searchShown
    <2>6. QED
      BY <1>0, <2>2, <2>3, <2>4, <2>5 DEF FlatOK
  <1>11. ASSUME NEW w \in walks, NEW un \in BOOLEAN, PageFails(w, un) PROVE FlatOK'
    <2>1. error' \in BOOLEAN /\ loading' \in BOOLEAN
      BY <1>11, Zenon DEF PageFails
    <2>2. degraded' \in BOOLEAN /\ UNCHANGED watch
      <3>1. CASE degraded' = TRUE /\ UNCHANGED watch
        BY <3>1, Zenon
      <3>2. CASE UNCHANGED <<degraded, watch>>
        BY <1>0, <3>2 DEF FlatOK
      <3>3. QED
        BY <1>11, <3>1, <3>2 DEF PageFails, afterRefresh
    <2>3. QED
      BY <1>0, <1>11, <2>1, <2>2 DEF PageFails, FlatOK, watch
  <1>12. ASSUME NEW l \in loops, WatchEvent(l) PROVE FlatOK'
    <2>1. l \in Loop
      BY <1>0 DEF FlatOK
    <2>2. QED
      BY <1>0, <1>12, <2>1 DEF FlatOK, WatchEvent, env, watch, Loop, Version
  <1>13. ASSUME NEW l \in loops, WatchEnds(l) PROVE FlatOK'
    <2>1. l \in Loop
      BY <1>0 DEF FlatOK
    <2>2. [l EXCEPT !.st = "backoff", !.aborted = TRUE] \in Loop
      BY <2>1 DEF Loop
    <2>3. loops' \subseteq Loop
      BY <1>0, <1>13, <2>2 DEF FlatOK, WatchEnds, returns
    <2>4. QED
      BY <1>0, <1>13, <2>3 DEF FlatOK, WatchEnds, env, table
  <1>14. ASSUME NEW l \in loops, WatchStale(l) PROVE TypeOK'
    <2>1. stopped' \in BOOLEAN /\ paged' \in BOOLEAN /\ degraded' \in BOOLEAN
      BY <1>0, <1>14, Zenon DEF WatchStale, FlatOK
    <2>2. loops' \subseteq Stopped
      BY <1>14 DEF WatchStale
    <2>3. QED
      BY <1>0, <1>14, <2>1, <2>2, LoadType DEF WatchStale, env, FlatOK
  <1>15. ASSUME NEW l \in loops, WatchUnauthorized(l) PROVE FlatOK'
    BY <1>0, <1>15 DEF FlatOK, WatchUnauthorized, returns, table
  <1>16. ASSUME NEW l \in loops, WatchRetry(l) PROVE FlatOK'
    <2>1. l \in Loop
      BY <1>0 DEF FlatOK
    <2>2. [l EXCEPT !.st = "open", !.from = <<ctx, loadedSel>>, !.since = rv, !.aborted = FALSE] \in Loop
      BY <1>0, <2>1 DEF FlatOK, Loop, Origin
    <2>3. loops' \subseteq Loop
      BY <1>0, <1>16, <2>2 DEF FlatOK, WatchRetry, returns
    <2>4. controller' \in 0..MaxLoads
      BY <1>0, <1>16, <2>1 DEF FlatOK, WatchRetry, Loop
    <2>5. QED
      BY <1>0, <1>16, <2>3, <2>4 DEF FlatOK, WatchRetry, env, table
  <1>17. CASE UNCHANGED vars
    BY <1>0, <1>17 DEF FlatOK, vars
  <1>18. QED
    BY <1>2, <1>3, <1>4, <1>5, <1>6, <1>7, <1>8, <1>9, <1>10, <1>11, <1>12, <1>13,
       <1>14, <1>15, <1>16, <1>17, Zenon DEF Next, Responses, Watching

-----------------------------------------------------------------------------
(* What a step does to the generations.                                    *)

(* Loops that nothing will hear from any more: none is current and no open *)
(* attempt is left unaborted.                                              *)
Quiet(S) ==
    /\ \A m \in S : /\ ~m.cur
                    /\ \E l \in loops : l.id = m.id
                    /\ m.st = "open" => m.aborted
    /\ \A l, m \in S : l.id = m.id => l = m

(* A stopped loop is of no current watch.                                  *)
LEMMA StoppedQuiet ==
    ASSUME ListInv, NEW S \in SUBSET Stopped
    PROVE  Quiet(S)
  <1>1. ASSUME NEW m \in Stopped
        PROVE  \E l \in loops :
                  /\ m = [l EXCEPT !.cur = FALSE, !.aborted = @ \/ l.id = controller]
                  /\ m.id = l.id /\ ~m.cur /\ (m.st = "open" => m.aborted)
    <2>1. PICK l \in loops : m = [l EXCEPT !.cur = FALSE, !.aborted = @ \/ l.id = controller]
      BY DEF Stopped
    <2>2. l \in Loop
      BY DEF ListInv, TypeOK
    <2>3. m.id = l.id /\ ~m.cur /\ m.st = l.st /\ (m.aborted <=> l.aborted \/ l.id = controller)
      BY <2>1, <2>2 DEF Loop
    <2>4. m.st = "open" => m.aborted
      BY <2>2, <2>3 DEF ListInv, LoopInv, Loop
    <2>5. QED
      BY <2>1, <2>3, <2>4
  <1>2. ASSUME NEW m \in S, NEW n \in S, m.id = n.id PROVE m = n
    <2>1. PICK l \in loops : /\ m = [l EXCEPT !.cur = FALSE, !.aborted = @ \/ l.id = controller]
                             /\ m.id = l.id
      BY <1>1
    <2>2. PICK k \in loops : /\ n = [k EXCEPT !.cur = FALSE, !.aborted = @ \/ k.id = controller]
                             /\ n.id = k.id
      BY <1>1
    <2>3. l = k
      BY <1>2, <2>1, <2>2 DEF ListInv, LoopInv
    <2>4. QED
      BY <2>1, <2>2, <2>3
  <1>3. QED
    BY <1>1, <1>2 DEF Quiet

(* A load that begins with a stop restores everything: the rows are gone,  *)
(* the new walk is the newest, and no loop is current.                     *)
LEMMA BeginStep ==
    ASSUME ListInv, NEW kind \in {"refresh", "next", "search"}, beginLoad(kind),
           Quiet(loops'), kind = "refresh" => ~paged', kind # "refresh" => degraded',
           sel' = sel, ctx' = ctx
    PROVE  WalkInv' /\ LoopInv' /\ BelongInv'
  <1> DEFINE n == listAsTable(firstPage(kind))
  <1>0. TypeOK /\ FlatOK /\ loadGen \in Nat
    BY FlatType DEF ListInv
  <1>1. /\ n \in Walk /\ n.gen = loadGen + 1 /\ n.kind = kind /\ n.sel = sel
        /\ n.acc = {} /\ n.ctx = ctx
    BY <1>0, FirstPage, Stamped DEF beginLoad
  <1>2. walks' = walks \cup {n} /\ loadGen' = loadGen + 1 /\ wantSel' = sel /\ rows' = {} /\ loading'
    BY DEF beginLoad, firstPage
  <1>3. loadedSel' = IF kind = "search" THEN loadedSel ELSE sel
    BY DEF beginLoad
  <1> HIDE DEF n
  <1>4. \A w \in walks : w.gen \in Nat /\ w.gen <= loadGen
    BY <1>0 DEF ListInv, WalkInv, FlatOK, Walk
  <1>5. \A w \in walks' : w.gen = loadGen' <=> w = n
    BY <1>0, <1>1, <1>2, <1>4
  <1>6. WalkInv'
    <2>1. \A w \in walks' : w.gen <= loadGen'
      BY <1>0, <1>1, <1>2, <1>4
    <2>2. \E w \in walks' : w.gen = loadGen'
      BY <1>1, <1>2
    <2>3. \A w \in walks' : w.gen = loadGen' =>
             /\ w.sel = wantSel'
             /\ w.kind # "search" => loadedSel' = wantSel'
             /\ w.kind = "refresh" => ~paged'
             /\ w.kind # "refresh" => degraded'
      BY <1>1, <1>2, <1>3, <1>5
    <2>4. QED
      BY <1>2, <1>5, <2>1, <2>2, <2>3 DEF WalkInv
  <1>7. LoopInv'
    <2>1. \A l \in loops : l.id \in Nat /\ l.id <= loadGen
      BY <1>0 DEF ListInv, LoopInv, FlatOK, Loop
    <2>2. \A m \in loops' : m.id \in Nat /\ m.id < loadGen'
      BY <1>0, <1>2, <2>1 DEF Quiet
    <2>3. QED
      BY <1>0, <1>2, <2>2 DEF LoopInv, Quiet
  <1>8. BelongInv'
    BY <1>1, <1>2, <1>5 DEF BelongInv, Quiet
  <1>9. QED
    BY <1>6, <1>7, <1>8

(* A stop with nothing loaded after it, on a page that is not settled.     *)
LEMMA StopStep ==
    ASSUME ListInv, stop, UNCHANGED table, ~Settled'
    PROVE  WalkInv' /\ LoopInv' /\ BelongInv'
  <1>1. Quiet(loops') /\ UNCHANGED <<loadGen, loading>>
    BY StoppedQuiet DEF stop, table
  <1>2. WalkInv'
    BY DEF ListInv, WalkInv, table
  <1>3. LoopInv'
    BY <1>1 DEF ListInv, LoopInv, Quiet
  <1>4. QED
    BY <1>2, <1>3 DEF BelongInv

(* Answers to walks.                                                       *)
LEMMA DropStep ==
    ASSUME ListInv, NEW w \in walks, NEW un \in BOOLEAN, DropPage(w, un)
    PROVE  WalkInv' /\ LoopInv' /\ BelongInv'
  <1>1. /\ walks' = walks \ {w} /\ w.gen # loadGen
        /\ UNCHANGED <<loadedSel, wantSel, rows, rv, cont, paged, loading, degraded, loadGen, ctx,
                       loops, controller, stopped>>
    BY DEF DropPage, superseded, watch
  <1>2. Settled' => Settled
    BY DEF Settled, isAuthenticated, DropPage
  <1>3. WalkInv'
    BY <1>1 DEF ListInv, WalkInv
  <1>4. LoopInv'
    BY <1>1 DEF ListInv, LoopInv
  <1>5. BelongInv'
    BY <1>1, <1>2 DEF ListInv, BelongInv
  <1>6. QED
    BY <1>3, <1>4, <1>5

(* A page that is not the last.                                            *)
LEMMA MoreStep ==
    ASSUME ListInv, NEW w \in walks, MorePages(w)
    PROVE  WalkInv' /\ LoopInv' /\ BelongInv'
  <1> DEFINE u == [w EXCEPT !.page = @ + 1, !.acc = @ \cup {<<w.ctx, w.sel>>}]
             n == listAsTable(u)
  <1>1. w \in Walk /\ w.gen = loadGen
    BY DEF ListInv, TypeOK, MorePages, superseded
  <1>2. u \in Walk /\ u.gen = w.gen /\ u.kind = w.kind /\ u.sel = w.sel
        /\ u.acc = w.acc \cup {<<w.ctx, w.sel>>}
    <2>1. w.page + 1 \in 1..MaxPages
      BY <1>1, ListAssumption DEF MorePages, Walk
    <2>2. w.acc \cup {<<w.ctx, w.sel>>} \in SUBSET Origin
      BY <1>1 DEF Walk, Origin
    <2>3. QED
      BY <1>1, <2>1, <2>2 DEF Walk
  <1> HIDE DEF u
  <1>3. n.gen = loadGen /\ n.kind = w.kind /\ n.sel = w.sel /\ n.ctx = ctx
        /\ n.acc = w.acc \cup {<<w.ctx, w.sel>>}
    BY <1>1, <1>2, Stamped DEF ListInv
  <1>4. /\ walks' = (walks \ {w}) \cup {n}
        /\ UNCHANGED <<loadedSel, wantSel, rows, rv, cont, paged, loading, degraded, loadGen, ctx,
                       loops, controller, stopped>>
    BY DEF MorePages, env, watch, u
  <1> HIDE DEF n
  <1>5. \A v \in walks' : v.gen = loadGen' <=> v = n
    BY <1>1, <1>3, <1>4 DEF ListInv, WalkInv
  <1>6. Settled' => Settled
    BY DEF Settled, isAuthenticated, MorePages, env
  <1>7. WalkInv'
    <2>1. \A v \in walks' : v.gen <= loadGen'
      BY <1>3, <1>4, FlatType DEF ListInv, WalkInv
    <2>2. loading' <=> \E v \in walks' : v.gen = loadGen'
      BY <1>1, <1>3, <1>4 DEF ListInv, WalkInv
    <2>3. \A v \in walks' : v.gen = loadGen' =>
             /\ v.sel = wantSel'
             /\ v.kind # "search" => loadedSel' = wantSel'
             /\ v.kind = "refresh" => ~paged'
             /\ v.kind # "refresh" => degraded'
      BY <1>1, <1>3, <1>4, <1>5 DEF ListInv, WalkInv
    <2>4. QED
      BY <1>5, <2>1, <2>2, <2>3 DEF WalkInv
  <1>8. LoopInv'
    BY <1>4 DEF ListInv, LoopInv
  <1>9. BelongInv'
    <2>1. ASSUME Settled
          PROVE  n.ctx = ctx' /\ n.acc \subseteq {<<ctx', wantSel'>>}
      BY <1>1, <1>3, <1>4, <2>1 DEF ListInv, BelongInv, WalkInv
    <2>2. QED
      BY <1>4, <1>5, <1>6, <2>1 DEF ListInv, BelongInv
  <1>10. QED
    BY <1>7, <1>8, <1>9

(* The newest walk is over, whatever its outcome.                          *)
LEMMA WalkOver ==
    ASSUME ListInv, NEW w \in walks, w.gen = loadGen, walks' = walks \ {w},
           ~loading', UNCHANGED <<loadGen, wantSel>>
    PROVE  WalkInv' /\ \A v \in walks' : v.gen # loadGen'
  BY DEF ListInv, WalkInv

(* The last page: the rows are replaced and a watch starts.                *)
LEMMA LastStep ==
    ASSUME ListInv, NEW w \in walks, NEW more \in BOOLEAN,
           NEW version \in {NoVersion, <<w.ctx, w.sel>>}, LastPage(w, more, version)
    PROVE  WalkInv' /\ LoopInv' /\ BelongInv'
  <1>0. TypeOK /\ FlatOK /\ loadGen \in Nat /\ w \in Walk
    BY FlatType DEF ListInv, TypeOK
  <1>1. /\ w.gen = loadGen /\ walks' = walks \ {w} /\ ~loading' /\ loading
        /\ rows' = w.acc \cup {<<w.ctx, w.sel>>}
        /\ UNCHANGED <<ctx, loadedSel, wantSel, paged, loadGen>>
    BY DEF LastPage, superseded, env, ListInv, WalkInv
  <1>2. WalkInv' /\ \A v \in walks' : v.gen # loadGen'
    BY <1>1, WalkOver
  <1>3. Settled' => Settled
    BY DEF Settled, isAuthenticated, LastPage, env
  <1>4. Settled => rows' \subseteq {<<ctx, wantSel>>} /\ w.ctx = ctx /\ w.sel = wantSel
    BY <1>1 DEF ListInv, BelongInv, WalkInv
  <1>5. \A l \in loops : ~l.cur /\ l.id \in Nat /\ l.id < loadGen
    BY <1>0, <1>1 DEF ListInv, LoopInv, FlatOK, Loop
  <1>6. CASE UNCHANGED <<degraded, watch>> /\ w.kind # "refresh"
    <2>1. degraded' /\ loops' = loops
      BY <1>1, <1>6 DEF ListInv, WalkInv, watch
    <2>2. LoopInv'
      BY <1>1, <1>5, <1>6 DEF ListInv, LoopInv, watch
    <2>3. BelongInv'
      BY <1>1, <1>2, <1>3, <1>4, <1>5, <2>1 DEF BelongInv
    <2>4. QED
      BY <1>2, <2>2, <2>3
  <1>7. CASE w.kind = "refresh" /\ ~(version # NoVersion /\ ~more)
    <2>1. degraded' /\ UNCHANGED <<loops, controller, stopped>>
      BY <1>7 DEF LastPage, afterRefresh, watch
    <2>2. LoopInv'
      BY <1>1, <1>5, <2>1 DEF ListInv, LoopInv
    <2>3. BelongInv'
      BY <1>1, <1>2, <1>3, <1>4, <1>5, <2>1 DEF BelongInv
    <2>4. QED
      BY <1>2, <2>2, <2>3
  <1>8. CASE w.kind = "refresh" /\ version # NoVersion /\ ~more
    <2> DEFINE n == watchUrl(<<ctx, loadedSel>>, version)
    <2>1. /\ n.id = loadGen /\ n.st = "open" /\ n.from = <<ctx, loadedSel>>
          /\ n.since = version /\ n.cur /\ ~n.aborted
      BY DEF watchUrl
    <2>2. /\ loops' = Stopped \cup {n} /\ controller' = loadGen /\ ~stopped'
          /\ rv' = version /\ ~cont'
      BY <1>8 DEF LastPage, afterRefresh, start
    <2> HIDE DEF n
    <2>3. Quiet(Stopped)
      BY StoppedQuiet
    <2>4. \A m \in Stopped : m.id \in Nat /\ m.id < loadGen
      BY <1>5, <2>3 DEF Quiet
    <2>5. LoopInv'
      <3>1. \A l \in loops' : l.id <= loadGen'
        BY <1>0, <1>1, <2>1, <2>2, <2>4
      <3>2. \A l, m \in loops' : l.id = m.id => l = m
        BY <1>0, <2>1, <2>2, <2>3, <2>4 DEF Quiet
      <3>3. \A l \in loops' : l.cur => l = n
        BY <2>1, <2>2, <2>3 DEF Quiet
      <3>4. \A l \in loops' : l.st = "open" => (l.cur <=> ~l.aborted)
        BY <2>1, <2>2, <2>3 DEF Quiet
      <3>5. QED
        BY <1>1, <2>1, <2>2, <3>1, <3>2, <3>3, <3>4 DEF LoopInv
    <2>6. BelongInv'
      <3>1. loadedSel = wantSel /\ ~paged
        BY <1>1, <1>8 DEF ListInv, WalkInv
      <3>2. \A l \in loops' : l.cur => l = n
        BY <2>1, <2>2, <2>3 DEF Quiet
      <3>3. Settled => version = <<ctx, loadedSel>>
        BY <1>4, <1>8, <3>1
      <3>4. QED
        BY <1>1, <1>2, <1>3, <1>4, <2>1, <2>2, <3>1, <3>2, <3>3 DEF BelongInv
    <2>7. QED
      BY <1>2, <2>5, <2>6
  <1>9. QED
    BY <1>6, <1>7, <1>8 DEF LastPage, searchShown

(* A walk that fails.                                                      *)
LEMMA FailStep ==
    ASSUME ListInv, NEW w \in walks, NEW un \in BOOLEAN, PageFails(w, un)
    PROVE  WalkInv' /\ LoopInv' /\ BelongInv'
  <1>1. /\ w.gen = loadGen /\ walks' = walks \ {w} /\ ~loading' /\ loading /\ rows' = {}
        /\ UNCHANGED <<ctx, loadedSel, wantSel, rv, cont, paged, loadGen>>
    BY DEF PageFails, superseded, ListInv, WalkInv
  <1>2. WalkInv' /\ \A v \in walks' : v.gen # loadGen'
    BY <1>1, WalkOver
  <1>3. \A l \in loops : ~l.cur
    BY <1>1 DEF ListInv, LoopInv
  <1>4. degraded' /\ UNCHANGED <<loops, controller, stopped>>
    BY <1>1 DEF PageFails, afterRefresh, watch, ListInv, WalkInv
  <1>5. LoopInv'
    BY <1>1, <1>3, <1>4 DEF ListInv, LoopInv
  <1>6. BelongInv'
    BY <1>1, <1>2, <1>3, <1>4 DEF BelongInv
  <1>7. QED
    BY <1>2, <1>5, <1>6

(* Steps of the watch loops.                                               *)
LEMMA EventStep ==
    ASSUME ListInv, NEW l \in loops, WatchEvent(l)
    PROVE  WalkInv' /\ LoopInv' /\ BelongInv'
  <1>1. /\ rows' \subseteq rows \cup {l.from} /\ rv' = l.from
        /\ UNCHANGED <<ctx, loadedSel, wantSel, cont, paged, loading, degraded, loadGen, walks,
                       loops, controller, stopped>>
    BY DEF WatchEvent, env, watch
  <1>2. l.cur /\ l.st = "open"
    BY DEF WatchEvent, ListInv, LoopInv
  <1>3. Settled' => Settled
    BY DEF Settled, isAuthenticated, WatchEvent, env
  <1>4. Settled => l.from = <<ctx, wantSel>> /\ l.from = <<ctx, loadedSel>>
    BY <1>2 DEF ListInv, BelongInv
  <1>5. WalkInv'
    BY <1>1 DEF ListInv, WalkInv
  <1>6. LoopInv'
    BY <1>1 DEF ListInv, LoopInv
  <1>7. BelongInv'
    BY <1>1, <1>3, <1>4 DEF ListInv, BelongInv
  <1>8. QED
    BY <1>5, <1>6, <1>7

(* A watch loop that returns.                                              *)
LEMMA EndsStep ==
    ASSUME ListInv, NEW l \in loops, WatchEnds(l)
    PROVE  WalkInv' /\ LoopInv' /\ BelongInv'
  <1> DEFINE n == [l EXCEPT !.st = "backoff", !.aborted = TRUE]
  <1>0. l \in Loop
    BY DEF ListInv, TypeOK
  <1>1. n.id = l.id /\ n.st = "backoff" /\ (n.cur <=> l.cur)
    BY <1>0 DEF Loop
  <1>2. /\ UNCHANGED <<ctx, loadedSel, wantSel, rows, rv, cont, paged, loading, degraded, loadGen,
                       walks, controller, stopped>>
        /\ l.st = "open"
    BY DEF WatchEnds, env, table
  <1>3. Settled' <=> Settled
    BY DEF Settled, isAuthenticated, WatchEnds, env
  <1>4. WalkInv'
    BY <1>2 DEF ListInv, WalkInv
  <1>5. CASE l.cur
    <2>1. loops' = (loops \ {l}) \cup {n}
      BY <1>2, <1>5 DEF WatchEnds, current, ListInv, LoopInv
    <2> HIDE DEF n
    <2>2. LoopInv'
      BY <1>1, <1>2, <2>1 DEF ListInv, LoopInv
    <2>3. BelongInv'
      BY <1>1, <1>2, <1>3, <1>5, <2>1 DEF ListInv, BelongInv
    <2>4. QED
      BY <1>4, <2>2, <2>3
  <1>6. CASE ~l.cur
    <2>1. loops' = loops \ {l}
      BY <1>6 DEF WatchEnds, current, returns
    <2>2. LoopInv'
      BY <1>2, <2>1 DEF ListInv, LoopInv
    <2>3. BelongInv'
      BY <1>2, <1>3, <1>6, <2>1 DEF ListInv, BelongInv
    <2>4. QED
      BY <1>4, <2>2, <2>3
  <1>7. QED
    BY <1>5, <1>6

(* A refused request ends the session.                                     *)
LEMMA UnauthorizedStep ==
    ASSUME ListInv, NEW l \in loops, WatchUnauthorized(l)
    PROVE  WalkInv' /\ LoopInv' /\ BelongInv'
  <1>1. /\ loops' = loops \ {l} /\ session' = session \ {l.from[1]}
        /\ UNCHANGED <<ctx, seenCtx, mounted, loadedSel, wantSel, rows, rv, cont, paged, loading,
                       degraded, loadGen, walks, controller, stopped>>
        /\ l.st = "open" /\ l.cur
    BY DEF WatchUnauthorized, returns, table, ListInv, LoopInv
  <1>2. ~Settled'
    <2> SUFFICES ASSUME Settled PROVE ctx \notin session'
      BY <1>1 DEF Settled, isAuthenticated
    <2>1. l.from = <<ctx, loadedSel>>
      BY <1>1 DEF ListInv, BelongInv
    <2>2. QED
      BY <1>1, <2>1
  <1>3. WalkInv'
    BY <1>1 DEF ListInv, WalkInv
  <1>4. LoopInv'
    BY <1>1 DEF ListInv, LoopInv
  <1>5. QED
    BY <1>2, <1>3, <1>4 DEF BelongInv

(* A watch that backs off and asks again.                                  *)
LEMMA RetryStep ==
    ASSUME ListInv, NEW l \in loops, WatchRetry(l)
    PROVE  WalkInv' /\ LoopInv' /\ BelongInv'
  <1> DEFINE n == [l EXCEPT !.st = "open", !.from = <<ctx, loadedSel>>,
                            !.since = rv, !.aborted = FALSE]
  <1>0. l \in Loop /\ FlatOK
    BY FlatType DEF ListInv, TypeOK
  <1>1. /\ n.id = l.id /\ n.st = "open" /\ (n.cur <=> l.cur) /\ ~n.aborted
        /\ n.from = <<ctx, loadedSel>> /\ n.since = rv
    BY <1>0 DEF Loop
  <1>2. /\ UNCHANGED <<ctx, loadedSel, wantSel, rows, rv, cont, paged, loading, degraded, loadGen,
                       walks, stopped>>
        /\ l.st = "backoff"
    BY DEF WatchRetry, env, table
  <1>3. Settled' <=> Settled
    BY DEF Settled, isAuthenticated, WatchRetry, env
  <1>4. WalkInv'
    BY <1>2 DEF ListInv, WalkInv
  <1>5. CASE current(l) /\ buildUrl
    <2>1. loops' = (loops \ {l}) \cup {n} /\ controller' = l.id /\ l.cur
      BY <1>5 DEF WatchRetry, current
    <2> HIDE DEF n
    <2>2. LoopInv'
      <3>1. \A m \in loops' : m.id <= loadGen' /\ (loading' => m.id < loadGen')
        BY <1>1, <1>2, <2>1 DEF ListInv, LoopInv
      <3>2. \A k, m \in loops' : k.id = m.id => k = m
        BY <1>1, <2>1 DEF ListInv, LoopInv
      <3>3. \A m \in loops' : m.cur => m = n
        BY <1>1, <2>1 DEF ListInv, LoopInv
      <3>4. \A m \in loops' : m.st = "open" => (m.cur <=> ~m.aborted)
        BY <1>1, <2>1 DEF ListInv, LoopInv
      <3>5. ~stopped' /\ ~loading'
        BY <1>2, <2>1 DEF ListInv, LoopInv
      <3>6. QED
        BY <1>1, <2>1, <3>1, <3>2, <3>3, <3>4, <3>5 DEF LoopInv
    <2>3. BelongInv'
      BY <1>1, <1>2, <1>3, <2>1 DEF ListInv, BelongInv
    <2>4. QED
      BY <1>4, <2>2, <2>3
  <1>6. CASE ~(current(l) /\ buildUrl)
    <2>1. loops' = loops \ {l} /\ controller' = controller
      BY <1>6 DEF WatchRetry, returns
    <2>2. LoopInv'
      BY <1>2, <2>1 DEF ListInv, LoopInv
    <2>3. Settled => ~l.cur
      <3> SUFFICES ASSUME Settled, l.cur PROVE FALSE
        OBVIOUS
      <3>1. ~stopped /\ ~paged /\ ~cont /\ rv = <<ctx, loadedSel>>
        BY DEF ListInv, LoopInv, BelongInv
      <3>2. rv # NoVersion
        BY <1>0, <3>1, ListAssumption DEF FlatOK
      <3>3. QED
        BY <1>6, <3>1, <3>2 DEF current, buildUrl
    <2>4. BelongInv'
      BY <1>2, <1>3, <2>1, <2>3 DEF ListInv, BelongInv
    <2>5. QED
      BY <1>4, <2>2, <2>4
  <1>7. QED
    BY <1>5, <1>6

-----------------------------------------------------------------------------
(* A page that has just been opened satisfies the invariant.               *)
LEMMA ListInit == Init => ListInv
  <1> SUFFICES ASSUME Init PROVE ListInv
    OBVIOUS
  <1>1. WalkInv /\ LoopInv
    BY DEF Init, WalkInv, LoopInv
  <1>2. BelongInv
    BY DEF Init, BelongInv
  <1>3. QED
    BY <1>1, <1>2, TypeInit DEF ListInv

(* No step breaks it.                                                      *)
LEMMA ListStep ==
    ASSUME ListInv, [Next]_vars
    PROVE  ListInv'
  <1>1. SUFFICES WalkInv' /\ LoopInv' /\ BelongInv'
    BY TypeStep DEF ListInv
  <1>2. ASSUME NEW t \in Selections, Select(t) PROVE WalkInv' /\ LoopInv' /\ BelongInv'
    <2>1. UNCHANGED <<mounted, ctx, seenCtx, session, loadedSel, wantSel, rows, rv, cont, paged,
                      loading, degraded, loadGen, walks, loops, controller, stopped>>
      BY <1>2 DEF Select, table, watch
    <2>2. QED
      BY <2>1 DEF ListInv, WalkInv, LoopInv, BelongInv, Settled, isAuthenticated
  <1>3. CASE Reload
    <2>1. Quiet(loops')
      BY <1>3, StoppedQuiet DEF Reload, refresh, stop
    <2>2. beginLoad("refresh") /\ ~paged' /\ sel' = sel /\ ctx' = ctx
      BY <1>3 DEF Reload, refresh
    <2>3. QED
      BY <2>1, <2>2, BeginStep
  <1>4. ASSUME NEW c \in Contexts, SwitchContext(c) PROVE WalkInv' /\ LoopInv' /\ BelongInv'
    <2>1. /\ ~Settled'
          /\ UNCHANGED <<loadedSel, wantSel, rows, rv, cont, paged, loading, degraded, loadGen,
                         walks, loops, controller, stopped>>
      BY <1>4 DEF SwitchContext, Settled, table, watch
    <2>2. QED
      BY <2>1 DEF ListInv, WalkInv, LoopInv, BelongInv
  <1>5. CASE ContextWatch
    <2>1. CASE ~isAuthenticated /\ stop /\ UNCHANGED table
      <3>1. ~Settled'
        BY <1>5, <2>1 DEF ContextWatch, Settled, isAuthenticated
      <3>2. QED
        BY <2>1, <3>1, StopStep, Zenon
    <2>2. CASE refresh
      <3>1. Quiet(loops')
        BY <2>2, StoppedQuiet DEF refresh, stop
      <3>2. QED
        <4>1. beginLoad("refresh") /\ ~paged' /\ sel' = sel /\ ctx' = ctx
          BY <1>5, <2>2 DEF ContextWatch, refresh
        <4>2. QED
          BY <3>1, <4>1, BeginStep
    <2>3. QED
      BY <1>5, <2>1, <2>2 DEF ContextWatch
  <1>6. CASE nextPage \/ searchAllByName
    <2>1. Quiet(loops')
      BY <1>6, StoppedQuiet DEF nextPage, searchAllByName, stop
    <2>2. degraded' /\ sel' = sel /\ ctx' = ctx
      BY <1>6 DEF nextPage, searchAllByName, env
    <2>3. beginLoad("next") \/ beginLoad("search")
      BY <1>6 DEF nextPage, searchAllByName
    <2>4. QED
      BY <2>1, <2>2, <2>3, BeginStep
  <1>7. CASE Unmount
    <2>1. stop /\ UNCHANGED table /\ ~Settled'
      BY <1>7 DEF Unmount, Settled
    <2>2. QED
      BY <2>1, StopStep, Zenon
  <1>8. ASSUME NEW l \in loops, WatchStale(l) PROVE WalkInv' /\ LoopInv' /\ BelongInv'
    <2>1. Quiet(loops')
      BY <1>8, StoppedQuiet DEF WatchStale
    <2>2. QED
      BY <1>8, <2>1, BeginStep DEF WatchStale, env
  <1>9. CASE UNCHANGED vars
    <2>1. WalkInv'
      BY <1>9 DEF ListInv, WalkInv, vars
    <2>2. LoopInv'
      BY <1>9 DEF ListInv, LoopInv, vars
    <2>3. BelongInv'
      BY <1>9 DEF ListInv, BelongInv, Settled, isAuthenticated, vars
    <2>4. QED
      BY <2>1, <2>2, <2>3
  <1>10. QED
    <2>1. CASE Responses
      BY <2>1, DropStep, MoreStep, LastStep, FailStep, Zenon DEF Responses
    <2>2. CASE Watching
      BY <1>8, <2>2, EventStep, EndsStep, UnauthorizedStep, RetryStep, Zenon DEF Watching
    <2>3. QED
      BY <1>2, <1>3, <1>4, <1>5, <1>6, <1>7, <1>9, <2>1, <2>2, Zenon DEF Next

(* It holds throughout.                                                    *)
LEMMA ListInvariant == Spec => []ListInv
  BY ListInit, ListStep, PTL DEF Spec

(* Every reachable state has the declared types.                           *)
THEOREM ListTypeCorrect == Spec => []TypeOK
  <1>1. ListInv => TypeOK
    BY DEF ListInv
  <1>2. QED
    BY <1>1, ListInvariant, PTL

(* No slower response and no event of an earlier stream puts a row on a    *)
(* settled page: all rows are of the active cluster and of the selection   *)
(* the newest load captured.                                               *)
THEOREM RowsAlwaysBelong == Spec => []RowsBelong
  <1>1. ListInv => RowsBelong
    BY DEF ListInv, BelongInv, RowsBelong
  <1>2. QED
    BY <1>1, ListInvariant, PTL

(* At most one watch request is open at a time, and on a settled page it   *)
(* streams the collection on screen from that collection's own version.    *)
THEOREM WatchIsSingle == Spec => []OneLiveWatch
  <1>1. ASSUME ListInv PROVE OneLiveWatch
    <2>1. \A l \in Live : l \in loops /\ l.st = "open" /\ l.cur
      BY <1>1 DEF Live, ListInv, LoopInv
    <2>2. \A l, m \in Live : l = m
      BY <1>1, <2>1 DEF ListInv, LoopInv
    <2>3. Cardinality(Live) <= 1
      <3>1. CASE Live = {}
        BY <3>1, FS_EmptySet
      <3>2. CASE Live # {}
        <4>1. PICK l : Live = {l}
          BY <2>2, <3>2
        <4>2. QED
          BY <4>1, FS_Singleton
      <3>3. QED
        BY <3>1, <3>2
    <2>4. QED
      BY <1>1, <2>1, <2>3 DEF OneLiveWatch, ListInv, BelongInv
  <1>2. QED
    BY <1>1, ListInvariant, PTL

(* The spinner turns exactly while the newest walk is in flight, and a     *)
(* settled table that does not say "watch degraded" has a current loop.    *)
THEOREM BadgeIsTruthful == Spec => []BadgeTruthful
  <1>1. ListInv => BadgeTruthful
    BY DEF ListInv, WalkInv, LoopInv, BelongInv, BadgeTruthful, superseded, current
  <1>2. QED
    BY <1>1, ListInvariant, PTL

-----------------------------------------------------------------------------
(* The URLs the page writes: a namespace that can name one, and none on a  *)
(* cluster-scoped list.                                                    *)
Written(k) ==
    [ns : IF k \in Namespaced THEN Spaces \cup {None} ELSE {None},
     filter : Filters \cup {None}, selector : Selectors \cup {None}]

Place == {e \in [key : Lists, query : Query] : e.query \in Written(e.key)} \cup {Elsewhere}

ViewType ==
    [filter : Filters \cup {None}, draft : Selectors \cup {None},
     applied : Selectors \cup {None}, ns : Spaces \cup {None}]

TabTypeOK ==
    /\ route \in Place /\ view \in ViewType
    /\ urlTimer \in BOOLEAN /\ leaving \in BOOLEAN
    /\ nav \in {"none", "push", "back", "forward"}
    /\ remembered \in [Lists -> Query] /\ \A k \in Lists : remembered[k] \in Written(k)

(* The address bar is on an entry, and one that a Back or Forward has left *)
(* is still there.                                                         *)
HistoryOK ==
    /\ entries \in Seq(Place) /\ at \in 1..Len(entries)
    /\ nav = "back" => at + 1 <= Len(entries)
    /\ nav = "forward" => at - 1 >= 1
    /\ ~leaving => nav = "none"

Agrees(q, k, v) ==
    /\ q.filter = v.filter /\ q.selector = v.applied
    /\ q.ns \in {None, listQuery(k, v).ns}

(* Of a page that is not leaving, the address is the route, and the route  *)
(* says what the view shows unless a write is due.                         *)
AddressOK ==
    /\ urlTimer => OnList
    /\ OnList /\ ~leaving =>
          /\ ~overwritten => entries[at] = route
          /\ ~urlTimer => Agrees(route.query, route.key, view)

ViewInv == TabTypeOK /\ HistoryOK /\ AddressOK

(* A query the page writes reads back as the view it was written for.      *)
LEMMA WrittenQuery ==
    ASSUME NEW k \in Lists, NEW v \in ViewType
    PROVE  /\ listQuery(k, v) \in Written(k) /\ listQuery(k, v) \in Query
           /\ Agrees(listQuery(k, v), k, v)
BY DEF listQuery, Written, Query, ViewType, Agrees

(* The view a query is read into is a view.                                *)
LEMMA AdoptedView ==
    ASSUME NEW q \in Query, NEW v, v.ns \in Spaces \cup {None}
    PROVE  adoptQuery(q, v) \in ViewType
<1>1. parseListQuery(q) \in Query /\ parseListQuery(q).ns \in Spaces \cup {None}
  BY ViewAssumption DEF parseListQuery, Query
<1> QED
  BY <1>1 DEF adoptQuery, ViewType, Query

(* A query a list wrote reads back to a view that writes that query.       *)
LEMMA AdoptedAgrees ==
    ASSUME NEW k \in Lists, NEW q \in Query, q \in Written(k), NEW v \in ViewType
    PROVE  Agrees(q, k, adoptQuery(q, v))
<1>1. q.ns # Bad
  BY ViewAssumption DEF Written
<1>2. parseListQuery(q).filter = q.filter /\ parseListQuery(q).selector = q.selector
      /\ parseListQuery(q).ns = q.ns
  BY <1>1 DEF parseListQuery, Query
<1>3. /\ adoptQuery(q, v).filter = q.filter /\ adoptQuery(q, v).applied = q.selector
      /\ adoptQuery(q, v).ns = IF q.ns # None THEN q.ns ELSE v.ns
  BY <1>2 DEF adoptQuery
<1>4. listQuery(k, adoptQuery(q, v)).ns =
        IF k \in Namespaced THEN adoptQuery(q, v).ns ELSE None
  BY DEF listQuery
<1>5. k \notin Namespaced => q.ns = None
  BY DEF Written
<1> QED
  BY <1>3, <1>4, <1>5 DEF Agrees

(* A place with another query.                                             *)
LEMMA PlaceWith ==
    ASSUME NEW r \in Place, r.key # Away, NEW q \in Query, q \in Written(r.key)
    PROVE  /\ [r EXCEPT !.query = q] \in Place
           /\ [r EXCEPT !.query = q].key = r.key /\ [r EXCEPT !.query = q].query = q
<1>1. r \in [key : Lists, query : Query]
  BY DEF Place, Elsewhere
<1> QED
  BY <1>1 DEF Place

(* A place is a list with a query it wrote, or is away from the lists.     *)
LEMMA ListPlace ==
    ASSUME NEW r \in Place
    PROVE  /\ r.key # Away => r.key \in Lists /\ r.query \in Query /\ r.query \in Written(r.key)
           /\ r.key = Away => r = Elsewhere
           /\ r.key \in Lists => r.key # Away
BY ViewAssumption DEF Place, Elsewhere

(* What writeUrl needs to find: the entry it is to write, in a history     *)
(* that still has what a Back or Forward has left.                         *)
Writable(r, v, es, i) ==
    /\ r \in Place /\ r.key # Away /\ v \in ViewType
    /\ es \in Seq(Place) /\ i \in 1..Len(es)

(* The page's part of the invariant.                                       *)
PageOf(r, v, lv, n) ==
    /\ r \in Place /\ v \in ViewType /\ lv \in BOOLEAN
    /\ n \in {"none", "push", "back", "forward"}

(* writeUrl replaces the entry: address, route and view agree.             *)
LEMMA Replaces ==
    ASSUME NEW r, NEW v, NEW es, NEW i, Writable(r, v, es, i), at' = i,
           NEW to, to = [r EXCEPT !.query = listQuery(r.key, v)],
           route' = to, entries' = [es EXCEPT ![i] = to], view' = Adopted(to, v),
           leaving' = FALSE, nav' = "none"
    PROVE  /\ PageOf(route', view', leaving', nav') /\ HistoryOK' /\ AddressOK'
           /\ Len(entries') = Len(es) /\ route'.key = r.key
<1> DEFINE q == listQuery(r.key, v)
<1>1. /\ r.key \in Lists /\ q \in Written(r.key) /\ q \in Query /\ Agrees(q, r.key, v)
  BY WrittenQuery, ListPlace DEF Writable
<1>2. to \in Place /\ to.key = r.key /\ to.query = q
  BY <1>1, PlaceWith DEF Writable
<1> HIDE DEF q
<1>3. entries' \in Seq(Place) /\ Len(entries') = Len(es) /\ entries'[i] = to
  BY <1>2 DEF Writable
<1>4. view' \in ViewType /\ Agrees(q, r.key, view')
  <2>1. CASE view' = v
    BY <1>1, <2>1 DEF Writable
  <2>2. CASE view' = adoptQuery(q, v)
    <3>1. v \in ViewType /\ v.ns \in Spaces \cup {None}
      BY DEF Writable, ViewType
    <3> QED
      BY <1>1, <2>2, <3>1, AdoptedView, AdoptedAgrees
  <2> QED
    BY <1>2, <2>1, <2>2 DEF Adopted
<1>5. HistoryOK'
  BY <1>3 DEF HistoryOK, Writable
<1>6. AddressOK'
  BY <1>2, <1>3, <1>4 DEF AddressOK, OnList, Writable
<1>7. PageOf(route', view', leaving', nav')
  BY <1>2, <1>4 DEF PageOf
<1> QED
  BY <1>2, <1>3, <1>5, <1>6, <1>7

(* ... or leaves it: that it agrees is for the caller to know.             *)
LEMMA Leaves ==
    ASSUME NEW r, NEW v, NEW es, NEW i, Writable(r, v, es, i), at' = i,
           route' = r, entries' = es, view' = v,
           leaving' \in BOOLEAN, nav' \in {"none", "push", "back", "forward"},
           ~leaving' => nav' = "none",
           nav' = "back" => i + 1 <= Len(es), nav' = "forward" => i - 1 >= 1,
           ~leaving' /\ ~overwritten' => es[i] = r,
           ~leaving' /\ ~urlTimer' => Agrees(r.query, r.key, v)
    PROVE  /\ PageOf(route', view', leaving', nav') /\ HistoryOK' /\ AddressOK'
           /\ Len(entries') = Len(es) /\ route'.key = r.key
BY DEF Writable, PageOf, HistoryOK, AddressOK, OnList

(* Queries that agree with one view agree with another that reads alike.   *)
LEMMA AgreesAlike ==
    ASSUME NEW q, NEW k, NEW v, NEW w, Agrees(q, k, v), listQuery(k, w) = listQuery(k, v)
    PROVE  Agrees(q, k, w)
<1>1. \A x : listQuery(k, x).filter = x.filter /\ listQuery(k, x).selector = x.applied
  BY DEF listQuery
<1> QED
  BY <1>1 DEF Agrees

(* A Push puts the new entry behind the one the address bar shows.         *)
LEMMA PushedEntry ==
    ASSUME NEW es \in Seq(Place), at \in 1..Len(es), NEW to \in Place
    PROVE  /\ Pushed(es, to) \in Seq(Place) /\ Len(Pushed(es, to)) = at + 1
           /\ Pushed(es, to)[at + 1] = to
<1> DEFINE kept == SubSeq(es, 1, at)
<1>1. kept \in Seq(Place) /\ Len(kept) = at
  BY SubSeqProperties
<1>2. Pushed(es, to) = Append(kept, to)
  BY DEF Pushed
<1> HIDE DEF kept
<1> QED
  BY <1>1, <1>2, AppendProperties

(* A flush of the pending write keeps the history a history.               *)
LEMMA FlushedEntries ==
    ASSUME TabTypeOK, HistoryOK, OnList, NEW i \in 1..Len(entries)
    PROVE  Flushed(i) \in Seq(Place) /\ Len(Flushed(i)) = Len(entries)
<1> DEFINE e == [key |-> route.key, query |-> urlQuery]
<1>1. /\ route \in Place /\ route.key \in Lists /\ urlQuery \in Query
      /\ urlQuery \in Written(route.key)
  BY ListPlace, WrittenQuery DEF TabTypeOK, OnList, urlQuery
<1>2. e \in Place
  BY <1>1 DEF Place
<1>3. Flushed(i) = entries \/ Flushed(i) = [entries EXCEPT ![i] = e]
  BY DEF Flushed
<1> HIDE DEF e
<1> QED
  BY <1>2, <1>3 DEF HistoryOK

(* A list that remembers a query it wrote remembers nothing else.          *)
LEMMA RememberedKeeps ==
    ASSUME NEW f \in [Lists -> Query], \A k \in Lists : f[k] \in Written(k),
           NEW k \in Lists, NEW q \in Query, q \in Written(k),
           remembered' = [f EXCEPT ![k] = q]
    PROVE  remembered' \in [Lists -> Query] /\ \A x \in Lists : remembered'[x] \in Written(x)
OBVIOUS

(* The watch on urlQuery, on whatever place and view a step has brought.   *)
LEMMA WatchKeeps ==
    ASSUME TabTypeOK, NEW r, NEW v, NEW es, NEW i, Writable(r, v, es, i), at' = i,
           NEW lv \in BOOLEAN, NEW timer \in BOOLEAN,
           NEW pending \in {"none", "push", "back", "forward"},
           WatchQuery(r, v, lv, es, i, pending, timer),
           ~lv => pending = "none",
           pending = "back" => i + 1 <= Len(es), pending = "forward" => i - 1 >= 1,
           ~lv /\ ~overwritten' => es[i] = r,
           ~lv /\ ~timer /\ QueryInputs(r.key, v) = QueryInputs(route.key, view)
             => Agrees(r.query, r.key, v)
    PROVE  ViewInv' /\ Len(entries') = Len(es) /\ route'.key = r.key
<1> DEFINE q == listQuery(r.key, v)
           to == [r EXCEPT !.query = q]
           fired == QueryInputs(r.key, v) # QueryInputs(route.key, view)
           filterOnly == q.ns = urlQuery.ns /\ q.selector = urlQuery.selector
           writes == fired /\ ~filterOnly /\ ~lv /\ q # r.query
<1>0. /\ r.key \in Lists /\ q \in Query /\ q \in Written(r.key) /\ Agrees(q, r.key, v)
  BY ListPlace, WrittenQuery DEF Writable
<1>1. /\ urlTimer' = (IF fired THEN filterOnly ELSE timer)
      /\ remembered' = [remembered EXCEPT ![r.key] = q]
  BY Zenon DEF WatchQuery
<1>2. urlTimer' \in BOOLEAN
  BY <1>1, Zenon
<1>3. IF writes
      THEN /\ route' = to /\ entries' = [es EXCEPT ![i] = to] /\ view' = Adopted(to, v)
           /\ leaving' = FALSE /\ nav' = "none"
      ELSE /\ route' = r /\ entries' = es /\ view' = v /\ leaving' = lv /\ nav' = pending
  BY Zenon DEF WatchQuery, writeUrl, MayWrite
<1>4. fired /\ ~urlTimer' => ~filterOnly
  BY <1>1, Zenon
<1>5. ~fired => (urlTimer' <=> timer)
  BY <1>1, Zenon
<1>6. /\ PageOf(route', view', leaving', nav') /\ HistoryOK' /\ AddressOK'
      /\ Len(entries') = Len(es) /\ route'.key = r.key
  <2>1. CASE writes
    <3>1. /\ route' = to /\ entries' = [es EXCEPT ![i] = to] /\ view' = Adopted(to, v)
          /\ leaving' = FALSE /\ nav' = "none"
      BY <1>3, <2>1
    <3> HIDE DEF writes, fired, filterOnly
    <3> QED
      BY <3>1, Replaces
  <2>2. CASE ~writes
    <3>1. route' = r /\ entries' = es /\ view' = v /\ leaving' = lv /\ nav' = pending
      BY <1>3, <2>2, Zenon
    <3>2. ~leaving' /\ ~urlTimer' => Agrees(r.query, r.key, v)
      <4> SUFFICES ASSUME ~lv, ~urlTimer' PROVE Agrees(r.query, r.key, v)
        BY <3>1, Zenon
      <4>1. CASE fired
        BY <1>0, <1>4, <2>2, <4>1, Zenon
      <4>2. CASE ~fired
        BY <1>5, <4>2, Zenon
      <4> QED
        BY <4>1, <4>2
    <3> HIDE DEF writes, fired, filterOnly
    <3> QED
      BY <3>1, <3>2, Leaves
  <2> QED
    BY <2>1, <2>2
<1>7. remembered' \in [Lists -> Query] /\ \A x \in Lists : remembered'[x] \in Written(x)
  <2> HIDE DEF q
  <2> QED
    BY <1>0, <1>1, RememberedKeeps DEF TabTypeOK
<1>8. TabTypeOK'
  BY <1>2, <1>6, <1>7, Zenon DEF TabTypeOK, PageOf
<1> QED
  BY <1>6, <1>8 DEF ViewInv

(* A page mounted on an entry.                                             *)
LEMMA MountKeeps ==
    ASSUME TabTypeOK, NEW to \in Place, to.key # Away, NEW es \in Seq(Place),
           NEW i \in 1..Len(es), es[i] = to, at' = i, NEW known \in [Lists -> Query],
           \A k \in Lists : known[k] \in Written(k), Mount(to, es, i, known)
    PROVE  ViewInv'
<1> DEFINE v == adoptQuery(to.query, view)
           q == listQuery(to.key, v)
           new == [to EXCEPT !.query = q]
<1>1. to.key \in Lists /\ to.query \in Query /\ view.ns \in Spaces \cup {None}
  BY ListPlace DEF TabTypeOK, ViewType
<1>2. v \in ViewType
  BY <1>1, AdoptedView
<1>3. q \in Query /\ q \in Written(to.key) /\ Agrees(q, to.key, v)
  BY <1>1, <1>2, WrittenQuery
<1>4. urlTimer' = FALSE /\ remembered' = [known EXCEPT ![to.key] = q]
  BY Zenon DEF Mount
<1>5. IF q # to.query
      THEN /\ route' = new /\ entries' = [es EXCEPT ![i] = new] /\ view' = Adopted(new, v)
           /\ leaving' = FALSE /\ nav' = "none"
      ELSE /\ route' = to /\ entries' = es /\ view' = v /\ leaving' = FALSE /\ nav' = "none"
  BY Zenon DEF Mount, writeUrl, MayWrite
<1>6. Writable(to, v, es, i)
  BY <1>2 DEF Writable
<1> HIDE DEF v
<1>7. PageOf(route', view', leaving', nav') /\ HistoryOK' /\ AddressOK'
  <2>1. CASE q # to.query
    <3>1. /\ route' = new /\ entries' = [es EXCEPT ![i] = new] /\ view' = Adopted(new, v)
          /\ leaving' = FALSE /\ nav' = "none"
      BY <1>5, <2>1
    <3> QED
      BY <1>6, <3>1, Replaces
  <2>2. CASE q = to.query
    <3>1. /\ route' = to /\ entries' = es /\ view' = v /\ nav' = "none"
          /\ Agrees(to.query, to.key, v)
      BY <1>3, <1>5, <2>2
    <3>2. leaving' \in BOOLEAN
      BY <1>5, <2>2
    <3> QED
      BY <1>6, <3>1, <3>2, Leaves
  <2> QED
    BY <2>1, <2>2
<1>8. remembered' \in [Lists -> Query] /\ \A x \in Lists : remembered'[x] \in Written(x)
  <2> HIDE DEF q
  <2> QED
    BY <1>1, <1>3, <1>4, RememberedKeeps
<1>9. TabTypeOK'
  BY <1>4, <1>7, <1>8, Zenon DEF TabTypeOK, PageOf
<1> QED
  BY <1>7, <1>9 DEF ViewInv

(* The user's input, and the namespaces' reconciliation.                   *)
LEMMA EditedKeeps ==
    ASSUME ViewInv, NEW v \in ViewType, Edited(v)
    PROVE  ViewInv' /\ Len(entries') = Len(entries)
<1>1. /\ WatchQuery(route, v, leaving, entries, at, nav, urlTimer)
      /\ at' = at /\ overwritten' = overwritten /\ OnList
  BY DEF Edited
<1>2. Writable(route, v, entries, at)
  BY <1>1 DEF Writable, ViewInv, TabTypeOK, HistoryOK, OnList
<1>3. /\ leaving \in BOOLEAN /\ urlTimer \in BOOLEAN
      /\ nav \in {"none", "push", "back", "forward"} /\ (~leaving => nav = "none")
      /\ nav = "back" => at + 1 <= Len(entries)
      /\ nav = "forward" => at - 1 >= 1
      /\ ~leaving /\ ~overwritten' => entries[at] = route
  BY <1>1 DEF ViewInv, TabTypeOK, HistoryOK, AddressOK
<1>4. ASSUME ~leaving, ~urlTimer, QueryInputs(route.key, v) = QueryInputs(route.key, view)
      PROVE  Agrees(route.query, route.key, v)
  <2>1. listQuery(route.key, v) = listQuery(route.key, view)
    BY <1>4 DEF QueryInputs
  <2>2. Agrees(route.query, route.key, view)
    BY <1>1, <1>4 DEF ViewInv, AddressOK
  <2> QED
    BY <2>1, <2>2, AgreesAlike
<1>5. TabTypeOK
  BY DEF ViewInv
<1> QED
  BY <1>1, <1>2, <1>3, <1>4, <1>5, WatchKeeps

(* The namespace selector, on a list or elsewhere.                         *)
LEMMA NamespaceKeeps ==
    ASSUME ViewInv, NEW n \in Spaces \cup {None}, SetNamespace(n)
    PROVE  ViewInv' /\ Len(entries') = Len(entries)
<1>1. [view EXCEPT !.ns = n] \in ViewType
  BY DEF ViewInv, TabTypeOK, ViewType
<1>2. CASE OnList
  BY <1>1, <1>2, EditedKeeps DEF SetNamespace
<1>3. CASE ~OnList
  BY <1>1, <1>3
     DEF SetNamespace, ViewInv, TabTypeOK, HistoryOK, AddressOK, OnList
<1> QED
  BY <1>2, <1>3

(* A filter typed: the address is late until the timer fires.              *)
LEMMA TypeKeeps ==
    ASSUME ViewInv, NEW f \in Filters \cup {None}, Type(f)
    PROVE  ViewInv'
<1>1. /\ view' = [view EXCEPT !.filter = f] /\ urlTimer' = TRUE /\ OnList
      /\ UNCHANGED <<route, leaving, nav, entries, at, overwritten>>
      /\ remembered' = [remembered EXCEPT ![route.key].filter = f]
  BY DEF Type
<1>2. view' \in ViewType
  BY <1>1 DEF ViewInv, TabTypeOK, ViewType
<1> DEFINE q == [remembered[route.key] EXCEPT !.filter = f]
<1>3. route.key \in Lists
  BY <1>1, ListPlace DEF OnList, ViewInv, TabTypeOK
<1>4. remembered[route.key] \in Query /\ remembered[route.key] \in Written(route.key)
  BY <1>3 DEF ViewInv, TabTypeOK
<1>5. q \in Query /\ q \in Written(route.key)
  BY <1>4 DEF Query, Written
<1>6. remembered' = [remembered EXCEPT ![route.key] = q]
  BY <1>1
<1> HIDE DEF q
<1>7. remembered' \in [Lists -> Query] /\ \A x \in Lists : remembered'[x] \in Written(x)
  BY <1>3, <1>5, <1>6, RememberedKeeps DEF ViewInv, TabTypeOK
<1>8. urlTimer' \in BOOLEAN /\ urlTimer'
  BY <1>1
<1>9. TabTypeOK'
  BY <1>1, <1>2, <1>7, <1>8 DEF ViewInv, TabTypeOK
<1>10. HistoryOK' /\ AddressOK'
  BY <1>1, <1>8 DEF ViewInv, HistoryOK, AddressOK, OnList
<1> QED
  BY <1>9, <1>10 DEF ViewInv

(* A selector typed is a draft: the address knows nothing of it.           *)
LEMMA TypeSelectorKeeps ==
    ASSUME ViewInv, NEW s \in Selectors \cup {None}, TypeSelector(s)
    PROVE  ViewInv'
<1>1. /\ view' = [view EXCEPT !.draft = s]
      /\ UNCHANGED <<route, urlTimer, leaving, nav, entries, at, remembered, overwritten>>
  BY DEF TypeSelector
<1>2. view' \in ViewType /\ view'.filter = view.filter /\ view'.applied = view.applied
      /\ view'.ns = view.ns
  BY <1>1 DEF ViewInv, TabTypeOK, ViewType
<1>3. listQuery(route.key, view') = listQuery(route.key, view)
  BY <1>2 DEF listQuery
<1>4. Agrees(route.query, route.key, view) => Agrees(route.query, route.key, view')
  BY <1>3, AgreesAlike
<1> QED
  BY <1>1, <1>2, <1>4 DEF ViewInv, TabTypeOK, HistoryOK, AddressOK, OnList

(* The debounce fires and the address catches up with the view.            *)
LEMMA TimerKeeps ==
    ASSUME ViewInv, TimerFires
    PROVE  /\ ViewInv' /\ Len(entries') = Len(entries)
           /\ view' = view /\ UNCHANGED <<nav, at>>
<1> DEFINE q == listQuery(route.key, view)
           to == [route EXCEPT !.query = q]
<1>1. urlTimer' = FALSE /\ UNCHANGED <<at, remembered, overwritten>>
  BY DEF TimerFires
<1>2. IF ~leaving /\ q # route.query
      THEN /\ route' = to /\ entries' = [entries EXCEPT ![at] = to] /\ view' = Adopted(to, view)
           /\ leaving' = FALSE /\ nav' = "none"
      ELSE /\ route' = route /\ entries' = entries /\ view' = view
           /\ leaving' = leaving /\ nav' = nav
  BY Zenon DEF TimerFires, writeUrl, MayWrite
<1>3. to.key = route.key /\ to.query = listQuery(to.key, view)
  BY DEF ViewInv, TabTypeOK, Place, Elsewhere
<1>4. Adopted(to, view) = view
  BY <1>3 DEF Adopted
<1>5. view' = view /\ UNCHANGED nav
  BY <1>2, <1>4, Zenon DEF ViewInv, HistoryOK
<1>6. OnList /\ route.key \in Lists /\ view \in ViewType /\ Writable(route, view, entries, at)
  BY ListPlace DEF TimerFires, ViewInv, AddressOK, OnList, TabTypeOK, HistoryOK, Writable
<1>7. /\ PageOf(route', view', leaving', nav') /\ HistoryOK' /\ AddressOK'
      /\ Len(entries') = Len(entries)
  <2>1. CASE ~leaving /\ q # route.query
    <3>1. /\ route' = to /\ entries' = [entries EXCEPT ![at] = to] /\ view' = Adopted(to, view)
          /\ leaving' = FALSE /\ nav' = "none"
      BY <1>2, <2>1
    <3> QED
      BY <1>1, <1>6, <3>1, Replaces
  <2>2. CASE leaving \/ q = route.query
    <3>1. UNCHANGED <<route, entries, view, leaving, nav>>
      BY <1>2, <2>2, Zenon
    <3>2. ~leaving => Agrees(route.query, route.key, view)
      BY <1>6, <2>2, WrittenQuery
    <3>3. /\ leaving' \in BOOLEAN /\ nav' \in {"none", "push", "back", "forward"}
          /\ ~leaving' => nav' = "none"
          /\ nav' = "back" => at + 1 <= Len(entries)
          /\ nav' = "forward" => at - 1 >= 1
          /\ ~leaving' /\ ~overwritten' => entries[at] = route
      BY <1>1, <1>6, <3>1 DEF ViewInv, TabTypeOK, HistoryOK, AddressOK
    <3> QED
      BY <1>1, <1>6, <3>1, <3>2, <3>3, Leaves
  <2> QED
    BY <2>1, <2>2
<1>8. TabTypeOK'
  BY <1>1, <1>7, Zenon DEF TabTypeOK, PageOf, ViewInv
<1> QED
  BY <1>1, <1>5, <1>7, <1>8 DEF ViewInv

(* A link to a list.                                                       *)
LEMMA LinkPlace == ASSUME ViewInv, NEW to \in Links PROVE to \in Place /\ to.key \in Lists
<1>1. PICK k \in Lists : \/ to = [key |-> k, query |-> Bare]
                         \/ to = [key |-> k, query |-> remembered[k]]
  BY DEF Links
<1>2. Bare \in Query /\ Bare \in Written(k)
  BY DEF Bare, Query, Written
<1>3. remembered[k] \in Query /\ remembered[k] \in Written(k)
  BY DEF ViewInv, TabTypeOK
<1> QED
  BY <1>1, <1>2, <1>3 DEF Place

(* An entry that the page, already on a list, is taken to.                 *)
LEMMA UpdateKeeps ==
    ASSUME TabTypeOK, NEW to \in Place, to.key # Away, NEW es \in Seq(Place),
           NEW i \in 1..Len(es), at' = i, ~overwritten' => es[i] = to,
           onBeforeRouteUpdate(to, es, i)
    PROVE  ViewInv'
<1> DEFINE v == Adopted(to, view)
<1>1. PICK no \in BOOLEAN : no = FALSE
  BY Zenon
<1>2. WatchQuery(to, v, no, es, i, "none", no)
  BY <1>1, Zenon DEF onBeforeRouteUpdate
<1>3. to.key \in Lists /\ to.query \in Query /\ to.query \in Written(to.key) /\ view \in ViewType
      /\ view.ns \in Spaces \cup {None}
  BY ListPlace DEF TabTypeOK, ViewType
<1>4. v \in ViewType /\ Agrees(to.query, to.key, v)
  <2>1. CASE v = adoptQuery(to.query, view)
    BY <1>3, <2>1, AdoptedView, AdoptedAgrees
  <2>2. CASE v = view /\ to.query = listQuery(to.key, view)
    BY <1>3, <2>2, WrittenQuery
  <2> QED
    BY <2>1, <2>2 DEF Adopted
<1>5. Writable(to, v, es, i)
  BY <1>4 DEF Writable
<1> HIDE DEF v
<1> QED
  BY <1>1, <1>2, <1>4, <1>5, WatchKeeps

(* A link followed: to this list, to another query of it, or to another    *)
(* list.                                                                   *)
LEMMA LinkKeeps ==
    ASSUME ViewInv, NEW to \in Links, FollowLink(to)
    PROVE  ViewInv'
<1>0. to \in Place /\ to.key \in Lists /\ to.key # Away /\ TabTypeOK /\ HistoryOK
  BY LinkPlace, ListPlace DEF ViewInv
<1>1. CASE to = route
  <2>1. /\ nav # "none" /\ nav' = "none"
        /\ UNCHANGED <<route, view, urlTimer, leaving, entries, at, remembered, overwritten>>
    BY <1>1 DEF FollowLink
  <2> QED
    BY <2>1 DEF ViewInv, TabTypeOK, HistoryOK, AddressOK, OnList
<1>2. CASE to # route
  <2> DEFINE old == IF OnList THEN Flushed(at) ELSE entries
             es == Pushed(old, to)
  <2>1. old \in Seq(Place) /\ Len(old) = Len(entries) /\ at \in 1..Len(old)
    BY <1>0, FlushedEntries DEF HistoryOK
  <2>2. es \in Seq(Place) /\ Len(es) = at + 1 /\ es[at + 1] = to /\ at + 1 \in 1..Len(es)
    <3> HIDE DEF old
    <3> QED
      BY <1>0, <2>1, PushedEntry
  <2>3. /\ at' = at + 1 /\ overwritten' = overwritten
        /\ IF OnList THEN onBeforeRouteUpdate(to, es, at + 1) ELSE Mount(to, es, at + 1, remembered)
    BY <1>2 DEF FollowLink
  <2> HIDE DEF es
  <2>4. CASE OnList
    BY <1>0, <2>2, <2>3, <2>4, UpdateKeeps
  <2>5. CASE ~OnList
    BY <1>0, <2>2, <2>3, <2>5, MountKeeps DEF TabTypeOK
  <2> QED
    BY <2>4, <2>5
<1> QED
  BY <1>1, <1>2

(* The leave guard: the page is leaving, its write flushed.                *)
LEMMA LeavingKeeps ==
    ASSUME ViewInv, OnList, NEW how \in {"push", "back", "forward"}, NEW i \in 1..Len(entries),
           onBeforeRouteLeave(how, i), at' = i, UNCHANGED <<route, view, remembered>>,
           how = "back" => i + 1 <= Len(entries), how = "forward" => i - 1 >= 1
    PROVE  ViewInv'
<1>1. entries' = Flushed(i) /\ urlTimer' = FALSE /\ leaving' = TRUE /\ nav' = how
  BY DEF onBeforeRouteLeave
<1>2. entries' \in Seq(Place) /\ Len(entries') = Len(entries)
  BY <1>1, FlushedEntries DEF ViewInv
<1>3. leaving' /\ ~urlTimer' /\ leaving' \in BOOLEAN /\ urlTimer' \in BOOLEAN
  BY <1>1
<1>4. nav' = how
  BY <1>1
<1>5. TabTypeOK'
  BY <1>3, <1>4 DEF ViewInv, TabTypeOK
<1>6. HistoryOK' /\ AddressOK'
  BY <1>2, <1>3, <1>4 DEF HistoryOK, AddressOK
<1> QED
  BY <1>5, <1>6 DEF ViewInv

(* The page is gone.                                                       *)
LEMMA CloseKeeps ==
    ASSUME TabTypeOK, ClosePage, entries' \in Seq(Place), at' \in 1..Len(entries'),
           remembered' \in [Lists -> Query], \A k \in Lists : remembered'[k] \in Written(k)
    PROVE  ViewInv'
<1>1. route' = Elsewhere /\ urlTimer' = FALSE /\ leaving' = FALSE /\ nav' = "none"
  BY DEF ClosePage
<1>2. view' \in ViewType
  <2>1. view' = [filter |-> None, draft |-> None, applied |-> None, ns |-> view.ns]
    BY DEF ClosePage
  <2>2. view.ns \in Spaces \cup {None}
    BY DEF TabTypeOK, ViewType
  <2> QED
    BY <2>1, <2>2 DEF ViewType
<1>3. urlTimer' \in BOOLEAN /\ leaving' \in BOOLEAN /\ ~urlTimer' /\ ~leaving'
  BY <1>1
<1>4. route' \in Place /\ route'.key = Away /\ nav' = "none"
  BY <1>1 DEF Place, Elsewhere
<1>5. TabTypeOK'
  BY <1>2, <1>3, <1>4 DEF TabTypeOK
<1>6. HistoryOK' /\ AddressOK'
  BY <1>3, <1>4 DEF HistoryOK, AddressOK, OnList
<1> QED
  BY <1>5, <1>6 DEF ViewInv

(* A navigation away from the lists that comes through.                    *)
LEMMA LeaveDoneKeeps ==
    ASSUME ViewInv, LeaveDone
    PROVE  ViewInv'
<1>1. TabTypeOK /\ HistoryOK /\ ClosePage /\ remembered' = remembered
  BY DEF ViewInv, LeaveDone
<1>2. entries' \in Seq(Place) /\ at' \in 1..Len(entries')
  <2>1. CASE nav = "push"
    <3>1. Elsewhere \in Place
      BY DEF Place
    <3>2. entries' = Pushed(entries, Elsewhere) /\ at' = at + 1
      BY <2>1 DEF LeaveDone
    <3> QED
      BY <1>1, <3>1, <3>2, PushedEntry DEF HistoryOK
  <2>2. CASE nav # "push"
    BY <1>1, <2>2 DEF LeaveDone, HistoryOK
  <2> QED
    BY <2>1, <2>2
<1> QED
  BY <1>1, <1>2, CloseKeeps DEF TabTypeOK

(* A navigation away that fails: the list stays, and so does its address.  *)
LEMMA LeaveFailsKeeps ==
    ASSUME ViewInv, LeaveFails
    PROVE  ViewInv'
<1>1. /\ nav # "none" /\ nav' = "none"
      /\ UNCHANGED <<route, view, urlTimer, leaving, entries, remembered, overwritten>>
  BY DEF LeaveFails
<1>2. leaving
  BY <1>1 DEF ViewInv, HistoryOK
<1>3. at' \in 1..Len(entries)
  <2>1. at' = (CASE nav = "back" -> at + 1 [] nav = "forward" -> at - 1 [] OTHER -> at)
    BY DEF LeaveFails
  <2>2. /\ at \in 1..Len(entries) /\ Len(entries) \in Nat
        /\ nav = "back" => at + 1 <= Len(entries)
        /\ nav = "forward" => at - 1 >= 1
    BY DEF ViewInv, HistoryOK
  <2> QED
    BY <2>1, <2>2
<1> QED
  BY <1>1, <1>2, <1>3 DEF ViewInv, TabTypeOK, HistoryOK, AddressOK, OnList

(* Back and Forward.                                                       *)
LEMMA TraverseKeeps ==
    ASSUME ViewInv, NEW dir \in {"back", "forward"}, Traverse(dir)
    PROVE  ViewInv'
<1> DEFINE i == IF dir = "back" THEN at - 1 ELSE at + 1
           to == entries[i]
           es == IF OnList THEN Flushed(i) ELSE entries
<1>1. /\ i \in DOMAIN entries /\ at' = i
      /\ overwritten' = (overwritten \/ es # entries)
      /\ \/ /\ to.key # Away
            /\ IF OnList THEN onBeforeRouteUpdate(to, es, i) ELSE Mount(to, es, i, remembered)
         \/ /\ to.key = Away /\ OnList
            /\ onBeforeRouteLeave(dir, i)
            /\ UNCHANGED <<route, view, remembered>>
  BY Zenon DEF Traverse
<1>2. /\ TabTypeOK /\ HistoryOK /\ at \in 1..Len(entries) /\ entries \in Seq(Place)
      /\ Len(entries) \in Nat
  BY DEF ViewInv, HistoryOK
<1>3. /\ i \in 1..Len(entries) /\ to \in Place /\ (dir = "back" => i + 1 <= Len(entries))
      /\ dir = "forward" => i - 1 >= 1
  BY <1>1, <1>2
<1>4. i \in 1..Len(entries) /\ to \in Place
  BY <1>3
<1>5. ~overwritten' => es = entries
  BY <1>1, Zenon
<1>6. es \in Seq(Place) /\ Len(es) = Len(entries)
  BY <1>2, <1>4, FlushedEntries
<1>7. CASE to.key # Away /\ OnList
  <2>1. onBeforeRouteUpdate(to, es, i) /\ at' = i
    BY <1>1, <1>7
  <2>2. i \in 1..Len(es) /\ (~overwritten' => es[i] = to)
    BY <1>4, <1>5, <1>6
  <2> HIDE DEF i, es, to
  <2> QED
    BY <1>2, <1>4, <1>6, <1>7, <2>1, <2>2, UpdateKeeps
<1>8. CASE to.key # Away /\ ~OnList
  <2>1. Mount(to, entries, i, remembered) /\ at' = i
    BY <1>1, <1>8
  <2>2. entries[i] = to
    OBVIOUS
  <2> HIDE DEF i, es, to
  <2> QED
    BY <1>2, <1>4, <1>8, <2>1, <2>2, MountKeeps DEF TabTypeOK
<1>9. CASE to.key = Away
  <2>1. OnList /\ onBeforeRouteLeave(dir, i) /\ at' = i /\ UNCHANGED <<route, view, remembered>>
    BY <1>1, <1>9
  <2>2. dir \in {"push", "back", "forward"}
    OBVIOUS
  <2>3. (dir = "back" => i + 1 <= Len(entries)) /\ (dir = "forward" => i - 1 >= 1)
    BY <1>3
  <2> HIDE DEF i, es, to
  <2> QED
    BY <1>4, <2>1, <2>2, <2>3, LeavingKeeps
<1> QED
  BY <1>7, <1>8, <1>9

(* The browser reloads: the view is read from the address again.           *)
LEMMA ReloadKeeps ==
    ASSUME ViewInv, ReloadTab
    PROVE  ViewInv'
<1>1. /\ TabTypeOK /\ entries \in Seq(Place) /\ at \in 1..Len(entries) /\ at' = at
      /\ entries[at] \in Place
  BY DEF ViewInv, HistoryOK, ReloadTab
<1>2. Nothing \in [Lists -> Query] /\ \A k \in Lists : Nothing[k] \in Written(k)
  BY DEF Nothing, Bare, Query, Written
<1>3. CASE entries[at].key # Away
  BY <1>1, <1>2, <1>3, MountKeeps DEF ReloadTab
<1>4. CASE entries[at].key = Away
  BY <1>1, <1>2, <1>4, CloseKeeps DEF ReloadTab
<1> QED
  BY <1>3, <1>4

(* Every step of the list page keeps the invariant.                        *)
LEMMA ViewStep ==
    ASSUME ViewInv, [ViewNext]_viewVars
    PROVE  ViewInv'
<1>1. CASE UNCHANGED viewVars
  BY <1>1 DEF viewVars, ViewInv, TabTypeOK, HistoryOK, AddressOK, OnList
<1>2. CASE applySelector
  <2>1. [view EXCEPT !.applied = view.draft] \in ViewType
    BY DEF ViewInv, TabTypeOK, ViewType
  <2> QED
    BY <1>2, <2>1, EditedKeeps DEF applySelector
<1>3. ASSUME NEW n \in Spaces \cup {None}, commitFreeText(n) PROVE ViewInv'
  BY <1>3, NamespaceKeeps DEF commitFreeText
<1>4. CASE Reconcile
  BY <1>4, NamespaceKeeps DEF Reconcile
<1>5. CASE openDetail
  BY <1>5, LeavingKeeps DEF openDetail, ViewInv, HistoryOK
<1> QED
  BY <1>1, <1>2, <1>3, <1>4, <1>5, TypeKeeps, TypeSelectorKeeps, TimerKeeps, LinkKeeps,
     LeaveDoneKeeps, LeaveFailsKeeps, TraverseKeeps, ReloadKeeps DEF ViewNext

(* The tab starts on one entry, which agrees with its view.                *)
LEMMA ViewInitially == ViewInit => ViewInv
<1> SUFFICES ASSUME ViewInit PROVE ViewInv
  OBVIOUS
<1>1. PICK to \in Entry, n \in Spaces \cup {None} :
        LET v == adoptQuery(to.query, [ns |-> n])
            shown == IF to.key = Away THEN to ELSE [to EXCEPT !.query = listQuery(to.key, v)]
        IN  /\ route = shown /\ view = v /\ entries = <<shown>> /\ at = 1
            /\ urlTimer = FALSE /\ leaving = FALSE /\ nav = "none"
            /\ remembered = [k \in Lists |-> IF k = to.key THEN shown.query ELSE Bare]
            /\ overwritten = FALSE
  BY Zenon DEF ViewInit
<1> DEFINE v == adoptQuery(to.query, [ns |-> n])
           shown == IF to.key = Away THEN to ELSE [to EXCEPT !.query = listQuery(to.key, v)]
<1>2. /\ route = shown /\ view = v /\ entries = <<shown>> /\ at = 1 /\ nav = "none"
      /\ remembered = [k \in Lists |-> IF k = to.key THEN shown.query ELSE Bare]
  BY <1>1, Zenon
<1>3. urlTimer = FALSE /\ leaving = FALSE
  BY <1>1, Zenon
<1>4. Bare \in Query /\ \A k \in Lists : Bare \in Written(k)
  BY DEF Bare, Query, Written
<1>5. to.query \in Query
  BY <1>4 DEF Entry, Elsewhere
<1>6. v \in ViewType
  BY <1>5, AdoptedView
<1> HIDE DEF v
<1>7. /\ shown \in Place
      /\ shown.key # Away => /\ to.key \in Lists /\ shown.key = to.key
                             /\ shown.query = listQuery(shown.key, v)
      /\ to.key \in Lists => shown.query \in Query /\ shown.query \in Written(to.key)
  <2>1. CASE to.key = Away
    BY <2>1, ViewAssumption DEF Place, Entry, Elsewhere
  <2>2. CASE to.key # Away
    <3>1. to \in [key : Lists, query : Query]
      BY <2>2 DEF Entry, Elsewhere
    <3>2. listQuery(to.key, v) \in Query /\ listQuery(to.key, v) \in Written(to.key)
      BY <1>6, <3>1, WrittenQuery
    <3>3. shown = [to EXCEPT !.query = listQuery(to.key, v)]
      BY <2>2
    <3>4. shown \in [key : Lists, query : Query] /\ shown.key = to.key
          /\ shown.query = listQuery(to.key, v)
      BY <3>1, <3>2, <3>3
    <3> HIDE DEF shown
    <3> QED
      BY <2>2, <3>1, <3>2, <3>4 DEF Place
  <2> QED
    BY <2>1, <2>2
<1> HIDE DEF shown
<1>8. urlTimer \in BOOLEAN /\ leaving \in BOOLEAN /\ ~urlTimer
  BY <1>3
<1>9. TabTypeOK
  BY <1>2, <1>4, <1>6, <1>7, <1>8 DEF TabTypeOK
<1>10. HistoryOK
  <2>1. <<shown>> \in Seq(Place) /\ Len(<<shown>>) = 1
    BY <1>7
  <2> QED
    BY <1>2, <2>1 DEF HistoryOK
<1>11. AddressOK
  <2>1. route.key # Away => Agrees(route.query, route.key, view)
    BY <1>2, <1>6, <1>7, WrittenQuery
  <2>2. entries[at] = route
    BY <1>2
  <2> QED
    BY <1>8, <2>1, <2>2 DEF AddressOK, OnList
<1> QED
  BY <1>9, <1>10, <1>11 DEF ViewInv

(* The address tells the truth about the list on screen, through every     *)
(* order of typing, debounced writes, links, Back, Forward and reloads:    *)
(* what adoptQuery reads is what writeUrl and flushUrlWrite wrote.         *)
THEOREM UrlIsTruthful == ViewSpec => []UrlTruthful
<1>1. ViewInv => UrlTruthful
  BY DEF ViewInv, AddressOK, Agrees, UrlTruthful, urlQuery
<1> QED
  BY <1>1, ViewInitially, ViewStep, PTL DEF ViewSpec

(* A write the user did not ask for cancels no navigation, rolls nothing   *)
(* back and adds nothing to the history: writeUrl does nothing on a page   *)
(* that is leaving, and reads back what it wrote.                          *)
THEOREM OwnWritesAreHarmless == ViewSpec => OwnWritesHarmless
<1>1. ASSUME ViewInv, Reconcile
      PROVE  /\ UNCHANGED <<nav, at>> /\ Len(entries') = Len(entries)
             /\ \A x \in {"filter", "draft", "applied"} : view'[x] = view[x]
  <2> DEFINE v == [view EXCEPT !.ns = None]
  <2>1. SetNamespace(None) /\ Len(entries') = Len(entries)
    BY <1>1, NamespaceKeeps DEF Reconcile
  <2>2. \A x \in {"filter", "draft", "applied"} : v[x] = view[x]
    BY <1>1 DEF ViewInv, TabTypeOK, ViewType
  <2>3. CASE OnList
    <3> DEFINE q == listQuery(route.key, v)
               to == [route EXCEPT !.query = q]
    <3>1. to.key = route.key /\ to.query = listQuery(to.key, v)
      BY <1>1 DEF ViewInv, TabTypeOK, Place, Elsewhere
    <3>2. Adopted(to, v) = v
      BY <3>1 DEF Adopted
    <3>3. (view' = Adopted(to, v) /\ nav' = "none" /\ ~leaving) \/ (view' = v /\ nav' = nav)
      BY <2>1, <2>3, Zenon DEF SetNamespace, Edited, WatchQuery, writeUrl, MayWrite
    <3>4. nav' = nav /\ view' = v
      BY <1>1, <3>2, <3>3 DEF ViewInv, HistoryOK
    <3>5. at' = at
      BY <2>1, <2>3 DEF SetNamespace, Edited
    <3> QED
      BY <2>1, <2>2, <3>4, <3>5
  <2>4. CASE ~OnList
    BY <2>1, <2>2, <2>4 DEF SetNamespace
  <2> QED
    BY <2>3, <2>4
<1>2. ASSUME ViewInv
      PROVE  [TimerFires \/ Reconcile =>
                /\ UNCHANGED <<nav, at>>
                /\ Len(entries') = Len(entries)
                /\ \A x \in {"filter", "draft", "applied"} : view'[x] = view[x]]_viewVars
  BY <1>1, <1>2, TimerKeeps
<1> QED
  BY <1>2, ViewInitially, ViewStep, PTL DEF ViewSpec, OwnWritesHarmless
===============================================================================
