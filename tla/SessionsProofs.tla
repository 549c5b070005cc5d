---------------------------- MODULE SessionsProofs ----------------------------
(***************************************************************************)
(* Proofs about Sessions, for any clusters, session lifetime and any       *)
(* number of requests and logins: what a session fetched dies with it, a   *)
(* detail page acts on the cluster it shows, and no session or selection   *)
(* is lost to somebody else's answer.                                      *)
(*                                                                         *)
(* Every operation of the auth store is one of two kinds: it gives up      *)
(* sessions (Shrinks) or adds one.  What is shown of each kind is shown    *)
(* once; the actions then only say which kind they are.                    *)
(***************************************************************************)
EXTENDS Sessions, TLAPS

Token == 1..MaxLogins \cup {None}
Query == [ctx : Names, token : Token, kind : {"data", "contexts"}]

(* The partial maps from contexts to sessions.                             *)
Table == UNION {[cs -> Stored] : cs \in SUBSET Contexts}
Disk == [active : Names, sessions : Table]
Store == [active : Names, disk : Disk, fetching : SUBSET Query,
          sessions : Table, cache : [Names -> SUBSET Token]]
Verify == [ctx : Names, token : 1..MaxLogins, orphan : BOOLEAN]
Answer == [names : SUBSET Contexts, default : Contexts]

(* sessionStorage always mirrors the store.                                *)
Synced(st) == st.disk = [active |-> st.active, sessions |-> st.sessions]

(* Whatever a token fetched or is fetching stands under a live session.    *)
Covered(st) ==
    /\ \A c \in Names : st.cache[c] # {} => c \in DOMAIN st.sessions
    /\ \A q \in st.fetching : q.token # None => q.ctx \in DOMAIN st.sessions

StateOK ==
    /\ now \in 0..Horizon /\ logins \in 0..MaxLogins
    /\ known \subseteq Contexts /\ default \in known
    /\ mode \in {"probing", "token", "kubeconfig"}
    /\ store \in Store /\ store.fetching \subseteq requests
    /\ requests \subseteq Query
    /\ verify \in Verify \cup {None} /\ contexts \in Answer \cup {None}
    /\ route \in Places \cup {"start"} /\ back \in Places
    /\ nav \in Navigation \cup {None} /\ shown \in Names

TabInv ==
    /\ StateOK
    /\ Synced(store)
    /\ ~backendLocal => Covered(store)
    /\ DetailOfActive

-----------------------------------------------------------------------------
(* The store's operations.                                                 *)

(* new is st with the sessions cs given up, and nothing else lost.         *)
Shrinks(st, new, cs) ==
    /\ new \in Store
    /\ Synced(st) => Synced(new)
    /\ new.active = st.active
    /\ new.fetching \subseteq st.fetching
    /\ new.sessions = Without(st.sessions, cs)
    /\ Covered(st) => Covered(new)

(* A map with some contexts removed is still a map from contexts.          *)
LEMMA WithoutTable ==
    ASSUME NEW f \in Table, NEW cs
    PROVE  /\ Without(f, cs) \in Table
           /\ DOMAIN Without(f, cs) = DOMAIN f \ cs
           /\ \A c \in DOMAIN f \ cs : Without(f, cs)[c] = f[c]
<1>1. PICK dom \in SUBSET Contexts : f \in [dom -> Stored]
  BY DEF Table
<1>2. Without(f, cs) \in [dom \ cs -> Stored]
  BY <1>1 DEF Without
<1>3. dom \ cs \in SUBSET Contexts
  OBVIOUS
<1> QED
  BY <1>1, <1>2, <1>3 DEF Table, Without

(* A map without the contexts it does not hold is itself.                  *)
LEMMA WithoutNothing ==
    ASSUME NEW f \in Table, NEW cs, DOMAIN f \cap cs = {}
    PROVE  Without(f, cs) = f
<1>1. PICK dom \in SUBSET Contexts : f \in [dom -> Stored]
  BY DEF Table
<1>2. DOMAIN f \ cs = dom /\ DOMAIN f = dom
  BY <1>1
<1> QED
  BY <1>1, <1>2 DEF Without

(* evictContextCaches() on a store.                                        *)
LEMMA EvictStore ==
    ASSUME NEW st \in Store, NEW cs
    PROVE  LET new == evictContextCaches(st, cs)
           IN  /\ new \in Store
               /\ new.active = st.active /\ new.sessions = st.sessions
               /\ new.disk = st.disk
               /\ new.fetching = {q \in st.fetching : q.ctx \notin cs}
               /\ \A c \in Names : new.cache[c] = IF c \in cs THEN {} ELSE st.cache[c]
<1> DEFINE cache == [c \in Names |-> IF c \in cs THEN {} ELSE st.cache[c]]
           fetching == {q \in st.fetching : q.ctx \notin cs}
<1>1. cache \in [Names -> SUBSET Token]
  BY DEF Store
<1>2. fetching \in SUBSET Query
  BY DEF Store
<1>3. evictContextCaches(st, cs) = [st EXCEPT !.cache = cache, !.fetching = fetching]
  BY DEF evictContextCaches
<1>4. \A c \in Names : cache[c] = IF c \in cs THEN {} ELSE st.cache[c]
  OBVIOUS
<1> HIDE DEF cache
<1>5. fetching = {q \in st.fetching : q.ctx \notin cs}
  OBVIOUS
<1> HIDE DEF fetching
<1> QED
  BY <1>1, <1>2, <1>3, <1>4, <1>5 DEF Store

(* persist() of a store with other sessions and selection.                 *)
LEMMA PersistStore ==
    ASSUME NEW st \in Store
    PROVE  /\ persist(st) \in Store /\ Synced(persist(st))
           /\ persist(st).active = st.active
           /\ persist(st).sessions = st.sessions
           /\ persist(st).fetching = st.fetching
           /\ persist(st).cache = st.cache
<1>1. [active |-> st.active, sessions |-> st.sessions] \in Disk
  BY DEF Store, Disk
<1> QED
  BY <1>1 DEF Store, Disk, persist, Synced

(* Giving sessions up, with their caches.                                  *)
LEMMA GiveUp ==
    ASSUME NEW st \in Store, NEW cs
    PROVE  Shrinks(st,
               evictContextCaches(
                   persist([st EXCEPT !.sessions = Without(st.sessions, cs)]), cs),
               cs)
<1> DEFINE mid == [st EXCEPT !.sessions = Without(st.sessions, cs)]
           new == evictContextCaches(persist(mid), cs)
<1>1. Without(st.sessions, cs) \in Table
      /\ DOMAIN Without(st.sessions, cs) = DOMAIN st.sessions \ cs
  BY WithoutTable DEF Store
<1>2. /\ mid \in Store /\ mid.active = st.active
      /\ mid.sessions = Without(st.sessions, cs)
      /\ mid.fetching = st.fetching /\ mid.cache = st.cache
  BY <1>1 DEF Store
<1> HIDE DEF mid
<1>3. /\ persist(mid) \in Store /\ Synced(persist(mid))
      /\ persist(mid).active = st.active
      /\ persist(mid).sessions = Without(st.sessions, cs)
      /\ persist(mid).fetching = st.fetching
      /\ persist(mid).cache = st.cache
  BY <1>2, PersistStore
<1>4. /\ new \in Store
      /\ new.active = st.active /\ new.sessions = Without(st.sessions, cs)
      /\ new.disk = persist(mid).disk
      /\ new.fetching = {q \in st.fetching : q.ctx \notin cs}
      /\ \A c \in Names : new.cache[c] = IF c \in cs THEN {} ELSE st.cache[c]
  BY <1>3, EvictStore
<1>5. Synced(new)
  BY <1>3, <1>4 DEF Synced
<1> HIDE DEF new
<1>6. Covered(st) => Covered(new)
  BY <1>1, <1>4 DEF Covered
<1>7. Shrinks(st, new, cs)
  BY <1>4, <1>5, <1>6 DEF Shrinks
<1> QED
  BY <1>7 DEF new, mid

(* pruneExpiredSessions() gives up the expired sessions.                   *)
LEMMA PruneShrinks ==
    ASSUME NEW st \in Store
    PROVE  Shrinks(st, pruneExpiredSessions(st), Expired(st))
<1>1. CASE Expired(st) = {}
  <2>1. Without(st.sessions, Expired(st)) = st.sessions
    BY <1>1, WithoutNothing DEF Store
  <2>2. pruneExpiredSessions(st) = st
    BY <1>1 DEF pruneExpiredSessions
  <2> QED
    BY <2>1, <2>2 DEF Shrinks
<1>2. CASE Expired(st) # {}
  BY <1>2, GiveUp DEF pruneExpiredSessions
<1> QED
  BY <1>1, <1>2

(* clearSession() gives up one session.                                    *)
LEMMA ClearShrinks ==
    ASSUME NEW st \in Store, NEW c \in Names
    PROVE  Shrinks(st, clearSession(st, c), {c})
<1>1. CASE c \in DOMAIN st.sessions
  BY <1>1, GiveUp DEF clearSession
<1>2. CASE c \notin DOMAIN st.sessions
  <2> DEFINE new == evictContextCaches(st, {c})
  <2>1. Without(st.sessions, {c}) = st.sessions
    BY <1>2, WithoutNothing DEF Store
  <2>2. clearSession(st, c) = new
    BY <1>2 DEF clearSession
  <2>3. /\ new \in Store
        /\ new.active = st.active /\ new.sessions = st.sessions
        /\ new.disk = st.disk
        /\ new.fetching = {q \in st.fetching : q.ctx \notin {c}}
        /\ \A d \in Names : new.cache[d] = IF d \in {c} THEN {} ELSE st.cache[d]
    BY EvictStore
  <2> HIDE DEF new
  <2>4. Covered(st) => Covered(new)
    BY <2>3 DEF Covered
  <2>5. Synced(st) => Synced(new)
    BY <2>3 DEF Synced
  <2> QED
    BY <2>1, <2>2, <2>3, <2>4, <2>5 DEF Shrinks
<1> QED
  BY <1>1, <1>2

(* Forgetting one query in flight gives up nothing.                        *)
LEMMA ForgetShrinks ==
    ASSUME NEW st \in Store, NEW q
    PROVE  Shrinks(st, [st EXCEPT !.fetching = @ \ {q}], {})
<1> DEFINE new == [st EXCEPT !.fetching = @ \ {q}]
<1>1. Without(st.sessions, {}) = st.sessions
  BY WithoutNothing DEF Store
<1>2. /\ new \in Store /\ new.active = st.active /\ new.sessions = st.sessions
      /\ new.fetching = st.fetching \ {q} /\ new.cache = st.cache /\ new.disk = st.disk
  BY DEF Store
<1> HIDE DEF new
<1>3. Shrinks(st, new, {})
  BY <1>1, <1>2 DEF Shrinks, Covered, Synced
<1> QED
  BY <1>3 DEF new

(* Shrinking twice.                                                        *)
LEMMA ShrinkTwice ==
    ASSUME NEW st \in Store, NEW mid, NEW new, NEW cs, NEW ds,
           Shrinks(st, mid, cs), Shrinks(mid, new, ds)
    PROVE  Shrinks(st, new, cs \cup ds)
<1>1. Without(Without(st.sessions, cs), ds) = Without(st.sessions, cs \cup ds)
  <2>1. PICK dom \in SUBSET Contexts : st.sessions \in [dom -> Stored]
    BY DEF Store, Table
  <2> QED
    BY <2>1 DEF Without
<1> QED
  BY <1>1 DEF Shrinks

(* setActiveContext(): the expired sessions go, the selection is c.        *)
LEMMA SetActive ==
    ASSUME NEW st \in Store, NEW c \in Names
    PROVE  LET new == setActiveContext(st, c)
           IN  /\ new \in Store /\ Synced(new)
               /\ new.active = c /\ new.fetching \subseteq st.fetching
               /\ new.sessions = Without(st.sessions, Expired(st))
               /\ Covered(st) => Covered(new)
<1> DEFINE mid == pruneExpiredSessions(st)
           sel == [mid EXCEPT !.active = c]
<1>1. Shrinks(st, mid, Expired(st))
  BY PruneShrinks
<1> HIDE DEF mid
<1>2. /\ sel \in Store /\ sel.active = c /\ sel.sessions = mid.sessions
      /\ sel.fetching = mid.fetching /\ sel.cache = mid.cache
  BY <1>1 DEF Shrinks, Store
<1>3. setActiveContext(st, c) = persist(sel)
  BY DEF setActiveContext, mid
<1> HIDE DEF sel
<1>4. /\ persist(sel) \in Store /\ Synced(persist(sel))
      /\ persist(sel).active = c
      /\ persist(sel).sessions = mid.sessions
      /\ persist(sel).fetching = mid.fetching
      /\ persist(sel).cache = mid.cache
  BY <1>2, PersistStore
<1>5. Covered(mid) => Covered(persist(sel))
  BY <1>4 DEF Covered
<1> QED
  BY <1>1, <1>3, <1>4, <1>5 DEF Shrinks

(* setSession(): one session is added or replaced, and selected.           *)
LEMMA SetSession ==
    ASSUME SessionsAssumption, now \in 0..Horizon,
           NEW st \in Store, NEW c \in Contexts, NEW token \in 1..MaxLogins
    PROVE  LET new == setSession(st, c, token)
           IN  /\ new \in Store /\ Synced(new) /\ new.fetching = st.fetching
               /\ DOMAIN st.sessions \subseteq DOMAIN new.sessions
               /\ Covered(st) => Covered(new)
<1> DEFINE stored == [token |-> token, expiresAt |-> now + TTL]
           table == [d \in DOMAIN st.sessions \cup {c} |->
                         IF d = c THEN stored ELSE st.sessions[d]]
           mid == [st EXCEPT !.active = c, !.sessions = table]
<1>1. PICK dom \in SUBSET Contexts : st.sessions \in [dom -> Stored]
  BY DEF Store, Table
<1>2. stored \in Stored
  BY DEF Stored, SessionsAssumption
<1> HIDE DEF stored
<1>3. table \in [dom \cup {c} -> Stored]
  BY <1>1, <1>2
<1>4. table \in Table /\ DOMAIN table = DOMAIN st.sessions \cup {c}
  BY <1>1, <1>3 DEF Table
<1>5. setSession(st, c, token) = persist(mid)
  BY DEF setSession, stored
<1> HIDE DEF table
<1>6. /\ mid \in Store /\ mid.sessions = table
      /\ mid.fetching = st.fetching /\ mid.cache = st.cache
  BY <1>4 DEF Store, Names
<1> HIDE DEF mid
<1>7. /\ persist(mid) \in Store /\ Synced(persist(mid))
      /\ persist(mid).sessions = table
      /\ persist(mid).fetching = st.fetching /\ persist(mid).cache = st.cache
  BY <1>6, PersistStore
<1>8. Covered(st) => Covered(persist(mid))
  BY <1>4, <1>7 DEF Covered
<1> QED
  BY <1>4, <1>5, <1>7, <1>8

(* readStoredSessions(): the selection and the unexpired sessions.         *)
LEMMA RestoredStore ==
    ASSUME NEW disk \in Disk
    PROVE  LET new == restored(disk)
           IN  /\ new \in Store /\ Synced(new) /\ Covered(new)
               /\ new.active = disk.active /\ new.fetching = {}
               /\ new.sessions = Without(disk.sessions,
                      {c \in DOMAIN disk.sessions : isSessionExpired(disk.sessions[c])})
<1> DEFINE gone == {c \in DOMAIN disk.sessions : isSessionExpired(disk.sessions[c])}
           kept == {c \in DOMAIN disk.sessions : ~isSessionExpired(disk.sessions[c])}
           none == [c \in Names |-> {}]
           st == [active |-> disk.active, disk |-> disk, fetching |-> {},
                  sessions |-> Without(disk.sessions, gone), cache |-> none]
<1>1. kept = DOMAIN disk.sessions \ gone
  OBVIOUS
<1>2. [c \in kept |-> disk.sessions[c]] = Without(disk.sessions, gone)
  BY <1>1 DEF Without
<1>3. restored(disk) = IF kept = DOMAIN disk.sessions THEN st ELSE persist(st)
  BY <1>2 DEF restored
<1>4. Without(disk.sessions, gone) \in Table
  BY WithoutTable DEF Disk
<1>5. none \in [Names -> SUBSET Token] /\ \A c \in Names : none[c] = {}
  OBVIOUS
<1>6. kept = DOMAIN disk.sessions => Without(disk.sessions, gone) = disk.sessions
  BY <1>1, WithoutNothing DEF Disk
<1> HIDE DEF gone, kept, none
<1>7. /\ st \in Store /\ st.active = disk.active /\ st.fetching = {}
      /\ st.sessions = Without(disk.sessions, gone) /\ st.cache = none
      /\ st.disk = disk
  BY <1>4, <1>5 DEF Store, Disk
<1> HIDE DEF st
<1>8. /\ persist(st) \in Store /\ Synced(persist(st))
      /\ persist(st).active = st.active
      /\ persist(st).sessions = st.sessions
      /\ persist(st).fetching = st.fetching
      /\ persist(st).cache = st.cache
  BY <1>7, PersistStore
<1>9. Covered(st) /\ Covered(persist(st))
  BY <1>5, <1>7, <1>8 DEF Covered
<1>10. kept = DOMAIN disk.sessions => Synced(st)
  BY <1>6, <1>7 DEF Synced, Disk
<1>11. /\ restored(disk) \in Store /\ Synced(restored(disk)) /\ Covered(restored(disk))
       /\ restored(disk).active = disk.active /\ restored(disk).fetching = {}
       /\ restored(disk).sessions = Without(disk.sessions, gone)
  BY <1>3, <1>7, <1>8, <1>9, <1>10
<1> QED
  BY <1>11 DEF gone

(* The expired sessions of a smaller store.                                *)
LEMMA ExpiredLess ==
    ASSUME NEW st \in Store, NEW new, NEW cs, Shrinks(st, new, cs)
    PROVE  Expired(new) \subseteq Expired(st)
<1>1. st.sessions \in Table /\ new.sessions = Without(st.sessions, cs)
  BY DEF Store, Shrinks
<1>2. /\ DOMAIN Without(st.sessions, cs) = DOMAIN st.sessions \ cs
      /\ \A c \in DOMAIN st.sessions \ cs : Without(st.sessions, cs)[c] = st.sessions[c]
  BY <1>1, WithoutTable
<1> QED
  BY <1>1, <1>2 DEF Expired, isSessionExpired

(* recoverFromUnknownContext(): the rejected session goes, with whatever   *)
(* has expired, and the fallback is selected.                              *)
LEMMA RecoveredStore ==
    ASSUME NEW st \in Store, NEW rejected \in Names, NEW d \in Names
    PROVE  LET new == Recovered(st, rejected, d)
           IN  /\ new \in Store /\ Synced(new)
               /\ new.fetching \subseteq st.fetching
               /\ DOMAIN st.sessions \ DOMAIN new.sessions \subseteq {rejected} \cup Expired(st)
               /\ Covered(st) => Covered(new)
<1> DEFINE mid == clearSession(st, rejected)
           to == Fallback(st, d)
           new == setActiveContext(mid, to)
<1>1. Shrinks(st, mid, {rejected})
  BY ClearShrinks
<1>2. to \in Names
  BY DEF Fallback, Store
<1>3. Expired(mid) \subseteq Expired(st)
  BY <1>1, ExpiredLess
<1> HIDE DEF mid, to
<1>4. mid \in Store
  BY <1>1 DEF Shrinks
<1>5. /\ new \in Store /\ Synced(new)
      /\ new.fetching \subseteq mid.fetching
      /\ new.sessions = Without(mid.sessions, Expired(mid))
      /\ Covered(mid) => Covered(new)
  BY <1>2, <1>4, SetActive
<1>6. DOMAIN new.sessions = DOMAIN mid.sessions \ Expired(mid)
  BY <1>4, <1>5, WithoutTable DEF Store
<1>7. DOMAIN mid.sessions = DOMAIN st.sessions \ {rejected}
  BY <1>1, WithoutTable DEF Store, Shrinks
<1>8. Recovered(st, rejected, d) = new
  BY DEF Recovered, mid, to
<1> HIDE DEF new
<1> QED
  BY <1>1, <1>3, <1>5, <1>6, <1>7, <1>8 DEF Shrinks

(* A request sent from a store is covered by the session it speaks for.    *)
LEMMA SentStore ==
    ASSUME NEW st \in Store, NEW kind \in {"data", "contexts"}
    PROVE  LET q == Sent(st, kind)
               new == [st EXCEPT !.fetching = @ \cup {q}]
           IN  /\ q \in Query /\ new \in Store
               /\ Synced(st) => Synced(new)
               /\ new.active = st.active /\ new.sessions = st.sessions
               /\ new.fetching = st.fetching \cup {q}
               /\ Covered(st) => Covered(new)
<1> DEFINE q == Sent(st, kind)
           new == [st EXCEPT !.fetching = @ \cup {q}]
<1>1. PICK dom \in SUBSET Contexts : st.sessions \in [dom -> Stored]
  BY DEF Store, Table
<1>2. tokenOf(st) \in Token /\ (tokenOf(st) # None => st.active \in DOMAIN st.sessions)
  BY <1>1 DEF tokenOf, Token, Stored
<1>3. q \in Query /\ q.ctx = st.active /\ q.token = tokenOf(st)
  BY <1>2 DEF Sent, Query, Store
<1> HIDE DEF q
<1>4. /\ new \in Store /\ new.active = st.active /\ new.sessions = st.sessions
      /\ new.fetching = st.fetching \cup {q} /\ new.cache = st.cache /\ new.disk = st.disk
  BY <1>3 DEF Store
<1> HIDE DEF new
<1>5. /\ Covered(st) => Covered(new)
      /\ Synced(st) => Synced(new)
  BY <1>2, <1>3, <1>4 DEF Covered, Synced
<1>6. q \in Query /\ new \in Store /\ (Synced(st) => Synced(new))
      /\ new.active = st.active /\ new.sessions = st.sessions
      /\ new.fetching = st.fetching \cup {q} /\ (Covered(st) => Covered(new))
  BY <1>3, <1>4, <1>5
<1> QED
  BY <1>6 DEF new, q

-----------------------------------------------------------------------------
(* One step.                                                               *)

(* What OwnCauseOnly says of the sessions and of the selection.            *)
SessionsOwned ==
    \A c \in DOMAIN store.sessions \ DOMAIN store'.sessions :
        \/ c \in Expired(store) \/ c \notin known \/ Refusal(c)
        \/ c = store.active /\ logout
SelectionOwned ==
    store'.active # store.active =>
        \/ store.active = None \/ store.active \notin known
        \/ \E c \in Contexts : switchContext(c) \/ pick(c)
        \/ verify # None /\ verify' = None

(* The part of a step that is about the store.                             *)
StoreStep ==
    /\ store' \in Store /\ requests' \subseteq Query
    /\ store'.fetching \subseteq requests'
    /\ Synced(store')
    /\ ~backendLocal => Covered(store')
    /\ DetailOfActive'
    /\ SessionsOwned /\ SelectionOwned

(* A step that only gives up sessions and keeps the page.                  *)
LEMMA ShrinkingStep ==
    ASSUME TabInv, NEW cs, Shrinks(store, store', cs),
           store'.fetching \subseteq requests', requests' \subseteq Query,
           UNCHANGED <<route, shown>>, nav' = nav \/ nav' # None,
           \A c \in cs \cap DOMAIN store.sessions :
               \/ c \in Expired(store) \/ c \notin known \/ Refusal(c)
               \/ c = store.active /\ logout
    PROVE  StoreStep
<1>1. store \in Store /\ store.sessions \in Table
  BY DEF TabInv, StateOK, Store
<1>2. DOMAIN store'.sessions = DOMAIN store.sessions \ cs
  BY <1>1, WithoutTable DEF Shrinks
<1>3. SessionsOwned
  BY <1>2 DEF SessionsOwned
<1>4. SelectionOwned
  BY DEF SelectionOwned, Shrinks
<1>5. DetailOfActive'
  BY DEF DetailOfActive, Shrinks, TabInv
<1> QED
  BY <1>1, <1>3, <1>4, <1>5 DEF StoreStep, Shrinks, TabInv

(* A step that leaves the store alone.                                     *)
LEMMA QuietStep ==
    ASSUME TabInv, UNCHANGED <<store, requests>>, DetailOfActive'
    PROVE  StoreStep
BY DEF TabInv, StateOK, StoreStep, SessionsOwned, SelectionOwned

(* A push is a navigation, never none.                                     *)
LEMMA PushNavigates ==
    ASSUME NEW to \in Places, NEW from \in Places, push(to, from)
    PROVE  nav' \in Navigation /\ nav' # None
<1>1. FALSE \in BOOLEAN
  OBVIOUS
<1>2. [to |-> to, back |-> from, guarded |-> FALSE] \in Navigation
  BY <1>1 DEF Navigation
<1> QED
  BY <1>2, NoneAssumption DEF push

(* The guard passes the navigation on or redirects it.                     *)
LEMMA GuardNavigates ==
    ASSUME nav \in Navigation \cup {None}, Guard
    PROVE  nav' \in Navigation /\ nav' # None
<1>1. TRUE \in BOOLEAN
  OBVIOUS
<1>2. nav \in Navigation
  BY DEF Guard
<1>3. {"overview", "login"} \subseteq Places /\ nav.to \in Places
  BY <1>2 DEF Places, Pages, Navigation
<1>4. \A to, from \in Places : [to |-> to, back |-> from, guarded |-> TRUE] \in Navigation
  BY <1>1 DEF Navigation
<1>5. [nav EXCEPT !.guarded = TRUE] \in Navigation
  BY <1>1, <1>2 DEF Navigation
<1>6. PICK st : nav' = CASE nav.to = "login" /\ isAuthenticated(st) ->
                        [to |-> "overview", back |-> "overview", guarded |-> TRUE]
                   [] nav.to # "login" /\ ~isAuthenticated(st) ->
                        [to |-> "login", back |-> nav.to, guarded |-> TRUE]
                   [] OTHER -> [nav EXCEPT !.guarded = TRUE]
  BY DEF Guard
<1>7. nav' \in Navigation
  BY <1>3, <1>4, <1>5, <1>6
<1> QED
  BY <1>7, NoneAssumption

(* The route guard prunes the expired sessions and passes on or redirects. *)
LEMMA GuardStep == TabInv /\ Guard => StoreStep
<1> SUFFICES ASSUME TabInv, Guard PROVE StoreStep
  OBVIOUS
<1>1. store \in Store /\ store.fetching \subseteq requests /\ requests \subseteq Query
  BY DEF TabInv, StateOK
<1>2. Shrinks(store, store', Expired(store))
  BY <1>1, PruneShrinks DEF Guard
<1>3. UNCHANGED <<route, shown, requests>>
  BY DEF Guard
<1>4. nav' \in Navigation /\ nav' # None
  BY GuardNavigates DEF TabInv, StateOK
<1>5. store'.fetching \subseteq requests'
  BY <1>1, <1>2, <1>3 DEF Shrinks
<1> QED
  BY <1>1, <1>2, <1>3, <1>4, <1>5, ShrinkingStep

(* apiFetch sends a request that its own session covers.                   *)
LEMMA FetchStep ==
    ASSUME TabInv, NEW kind \in {"data", "contexts"}, Fetch(kind)
    PROVE  StoreStep
<1> DEFINE st == pruneExpiredSessions(store)
           q == Sent(st, kind)
<1>1. store \in Store /\ store.fetching \subseteq requests /\ requests \subseteq Query
      /\ store.sessions \in Table
  BY DEF TabInv, StateOK, Store
<1>2. Shrinks(store, st, Expired(store))
  BY <1>1, PruneShrinks
<1>3. store' = [st EXCEPT !.fetching = @ \cup {q}] /\ requests' = requests \cup {q}
      /\ UNCHANGED <<route, shown, nav>>
  BY DEF Fetch
<1> HIDE DEF st
<1>4. /\ q \in Query /\ store' \in Store
      /\ Synced(st) => Synced(store')
      /\ store'.active = st.active /\ store'.sessions = st.sessions
      /\ store'.fetching = st.fetching \cup {q}
      /\ Covered(st) => Covered(store')
  BY <1>2, <1>3, SentStore DEF Shrinks
<1> HIDE DEF q
<1>5. DOMAIN Without(store.sessions, Expired(store)) = DOMAIN store.sessions \ Expired(store)
  BY <1>1, WithoutTable
<1>6. SessionsOwned /\ SelectionOwned /\ DetailOfActive'
  BY <1>2, <1>3, <1>4, <1>5
     DEF SessionsOwned, SelectionOwned, DetailOfActive, Shrinks, TabInv
<1> QED
  BY <1>1, <1>2, <1>3, <1>4, <1>6 DEF StoreStep, Shrinks, TabInv

(* A failed request takes nothing with it.                                 *)
LEMMA FailStep ==
    ASSUME TabInv, NEW q \in requests, FetchFails(q)
    PROVE  StoreStep
<1>1. store \in Store /\ store.fetching \subseteq requests /\ requests \subseteq Query
  BY DEF TabInv, StateOK
<1>2. Shrinks(store, store', {}) /\ UNCHANGED <<route, shown, nav>>
      /\ requests' = requests \ {q} /\ store'.fetching = store.fetching \ {q}
  BY <1>1, ForgetShrinks DEF FetchFails, Store
<1> QED
  BY <1>1, <1>2, ShrinkingStep

(* An answer enters the caches of a live session only.                     *)
LEMMA DataStep ==
    ASSUME TabInv, NEW q \in requests, DataArrives(q)
    PROVE  StoreStep
<1>1. store \in Store /\ store.fetching \subseteq requests /\ requests \subseteq Query
      /\ q \in Query
  BY DEF TabInv, StateOK
<1>2. UNCHANGED <<route, shown, nav>> /\ requests' = requests \ {q}
      /\ (backendLocal \/ q.token # None)
  BY DEF DataArrives, Accepted
<1>3. CASE q \notin store.fetching
  <2>1. Shrinks(store, store', {})
    BY <1>1, <1>3, WithoutNothing DEF DataArrives, Shrinks, Store
  <2>2. store'.fetching \subseteq requests'
    BY <1>1, <1>2, <1>3 DEF DataArrives
  <2> QED
    BY <1>1, <1>2, <2>1, <2>2, ShrinkingStep
<1>4. CASE q \in store.fetching
  <2> DEFINE mid == [store EXCEPT !.fetching = @ \ {q}, !.cache[q.ctx] = @ \cup {q.token}]
  <2>1. store' = mid
    BY <1>4 DEF DataArrives
  <2>2. /\ mid \in Store /\ mid.active = store.active /\ mid.sessions = store.sessions
        /\ mid.fetching = store.fetching \ {q} /\ mid.disk = store.disk
        /\ \A c \in Names : c # q.ctx => mid.cache[c] = store.cache[c]
    BY <1>1 DEF Store, Query
  <2> HIDE DEF mid
  <2>3. Synced(mid)
    BY <2>2 DEF Synced, TabInv
  <2>4. ~backendLocal => Covered(mid)
    BY <1>2, <1>4, <2>2 DEF Covered, TabInv
  <2>5. SessionsOwned /\ SelectionOwned /\ DetailOfActive'
    BY <1>2, <2>1, <2>2 DEF SessionsOwned, SelectionOwned, DetailOfActive, TabInv
  <2>6. backendLocal' = backendLocal
    BY DEF DataArrives, world
  <2> QED
    BY <1>1, <1>2, <2>1, <2>2, <2>3, <2>4, <2>5 DEF StoreStep
<1> QED
  BY <1>3, <1>4

(* A 401 ends the session it is about and no other.                        *)
LEMMA RefusedStep ==
    ASSUME TabInv, NEW q \in requests, Unauthorized(q)
    PROVE  StoreStep
<1> DEFINE rest == [store EXCEPT !.fetching = @ \ {q}]
<1>1. store \in Store /\ store.fetching \subseteq requests /\ requests \subseteq Query
      /\ q \in Query
  BY DEF TabInv, StateOK
<1>2. UNCHANGED <<route, shown>> /\ requests' = requests \ {q} /\ Refusable(q)
  BY DEF Unauthorized
<1>3. Shrinks(store, rest, {}) /\ rest.fetching = store.fetching \ {q}
  BY <1>1, ForgetShrinks DEF Store
<1>4. CASE localAuth
  <2>1. store' = rest /\ nav' = nav
    BY <1>4 DEF Unauthorized
  <2> HIDE DEF rest
  <2> QED
    BY <1>1, <1>2, <1>3, <2>1, ShrinkingStep
<1>5. CASE ~localAuth
  <2>1. store' = clearSession(rest, q.ctx)
    BY <1>5 DEF Unauthorized
  <2>2. nav' = nav \/ nav' # None
    <3>1. "login" \in Places /\ "overview" \in Places
      BY DEF Places, Pages
    <3> QED
      BY <1>5, <3>1, PushNavigates DEF Unauthorized
  <2> HIDE DEF rest
  <2>3. rest \in Store /\ q.ctx \in Names
    BY <1>1, <1>3 DEF Shrinks, Query
  <2>4. Shrinks(rest, store', {q.ctx})
    BY <2>1, <2>3, ClearShrinks
  <2>5. Shrinks(store, store', {} \cup {q.ctx})
    BY <1>1, <1>3, <2>4, ShrinkTwice
  <2>6. Refusal(q.ctx)
    BY <1>2 DEF Refusal
  <2>7. store'.fetching \subseteq requests'
    BY <1>1, <1>2, <1>3, <2>4 DEF Shrinks
  <2>8. \A c \in ({} \cup {q.ctx}) \cap DOMAIN store.sessions : Refusal(c)
    BY <2>6
  <2> QED
    BY <1>1, <1>2, <2>2, <2>5, <2>7, <2>8, ShrinkingStep
<1> QED
  BY <1>4, <1>5

(* After a recovery the route is left alone, or away from a detail page.   *)
LEMMA RecoverNavigates ==
    ASSUME NEW st, RecoverRoute(st)
    PROVE  \/ nav' = nav /\ route # "resource-detail"
           \/ nav' \in Navigation /\ nav' # None
<1>1. {"login", "overview", "resource-list"} \subseteq Places
  BY DEF Places, Pages
<1>2. CASE ~isAuthenticated(st)
  BY <1>1, <1>2, PushNavigates DEF RecoverRoute
<1>3. CASE isAuthenticated(st) /\ route = "resource-detail"
  BY <1>1, <1>3, PushNavigates DEF RecoverRoute
<1>4. CASE isAuthenticated(st) /\ route # "resource-detail"
  BY <1>4 DEF RecoverRoute
<1> QED
  BY <1>2, <1>3, <1>4

(* An unknown context takes its own session and selection and no other.    *)
LEMMA UnknownStep ==
    ASSUME TabInv, NEW q \in requests, UnknownContext(q)
    PROVE  StoreStep
<1> DEFINE rest == [store EXCEPT !.fetching = @ \ {q}]
           knownDefault == IF contexts = None THEN None ELSE contexts.default
           st == Recovered(rest, q.ctx, knownDefault)
           again == Sent(st, "contexts")
<1>1. store \in Store /\ store.fetching \subseteq requests /\ requests \subseteq Query
      /\ q \in Query /\ store.sessions \in Table /\ DOMAIN store.sessions \subseteq Contexts
  BY DEF TabInv, StateOK, Store, Table
<1>2. knownDefault \in Names /\ q.ctx \in Names
  BY <1>1 DEF TabInv, StateOK, Answer, Query, Names
<1>3. UNCHANGED <<route, shown>> /\ Target(q.ctx) \notin known
  BY DEF UnknownContext, Rejected
<1>4. /\ Shrinks(store, rest, {}) /\ rest.fetching = store.fetching \ {q}
      /\ rest.active = store.active /\ rest.sessions = store.sessions
  BY <1>1, ForgetShrinks DEF Store
<1>5. CASE q.ctx # store.active
  <2>1. store' = rest /\ requests' = requests \ {q} /\ nav' = nav
    BY <1>5 DEF UnknownContext
  <2> HIDE DEF rest
  <2> QED
    BY <1>1, <1>3, <1>4, <2>1, ShrinkingStep
<1>6. CASE q.ctx = store.active
  <2>1. RecoverRoute(st)
    BY <1>6 DEF UnknownContext
  <2>2. \/ requests' = (requests \ {q}) \cup {again} /\ store' = [st EXCEPT !.fetching = @ \cup {again}]
        \/ requests' = requests \ {q} /\ store' = st
    BY <1>6 DEF UnknownContext
  <2> HIDE DEF knownDefault
  <2>3. rest \in Store
    BY <1>4 DEF Shrinks
  <2>4. Expired(rest) = Expired(store)
    BY <1>4 DEF Expired, isSessionExpired
  <2> HIDE DEF rest
  <2>5. /\ st \in Store /\ Synced(st)
        /\ st.fetching \subseteq rest.fetching
        /\ DOMAIN rest.sessions \ DOMAIN st.sessions \subseteq {q.ctx} \cup Expired(rest)
        /\ Covered(rest) => Covered(st)
    BY <1>2, <2>3, RecoveredStore
  <2> HIDE DEF st
  <2>6. /\ again \in Query /\ [st EXCEPT !.fetching = @ \cup {again}] \in Store
        /\ Synced([st EXCEPT !.fetching = @ \cup {again}])
        /\ [st EXCEPT !.fetching = @ \cup {again}].sessions = st.sessions
        /\ [st EXCEPT !.fetching = @ \cup {again}].fetching = st.fetching \cup {again}
        /\ Covered(st) => Covered([st EXCEPT !.fetching = @ \cup {again}])
    BY <2>5, SentStore
  <2> HIDE DEF again
  <2>7. /\ store' \in Store /\ Synced(store') /\ store'.sessions = st.sessions
        /\ store'.fetching \subseteq requests' /\ requests' \subseteq Query
        /\ Covered(st) => Covered(store')
    BY <1>1, <1>4, <2>2, <2>5, <2>6
  <2>8. ~backendLocal => Covered(store')
    BY <1>4, <2>5, <2>7 DEF TabInv, Shrinks
  <2>9. SelectionOwned
    BY <1>3, <1>6 DEF SelectionOwned, Target
  <2>10. SessionsOwned
    <3>1. \A c \in DOMAIN store.sessions \ DOMAIN store'.sessions : c = q.ctx \/ c \in Expired(store)
      BY <1>4, <2>4, <2>5, <2>7
    <3>2. q.ctx \in DOMAIN store.sessions => q.ctx \notin known
      BY <1>1, <1>3, SessionsAssumption DEF Target, SessionsAssumption
    <3> QED
      BY <3>1, <3>2 DEF SessionsOwned
  <2>11. DetailOfActive'
    BY <1>3, <2>1, RecoverNavigates DEF DetailOfActive
  <2> QED
    BY <2>7, <2>8, <2>9, <2>10, <2>11 DEF StoreStep
<1> QED
  BY <1>5, <1>6

(* The list of contexts replaces only a selection that has gone.           *)
LEMMA ContextsStep ==
    ASSUME TabInv, NEW q \in requests, ContextsArrive(q)
    PROVE  StoreStep
<1> DEFINE rest == [store EXCEPT !.fetching = @ \ {q}]
<1>1. store \in Store /\ store.fetching \subseteq requests /\ requests \subseteq Query
      /\ store.sessions \in Table /\ default \in Names /\ store.active \in Names
  BY DEF TabInv, StateOK, Store, Names
<1>2. UNCHANGED <<route, shown>> /\ requests' = requests \ {q}
  BY DEF ContextsArrive
<1>3. /\ Shrinks(store, rest, {}) /\ rest.fetching = store.fetching \ {q} /\ rest \in Store
      /\ rest.active = store.active /\ rest.sessions = store.sessions
  BY <1>1, ForgetShrinks DEF Store
<1>4. \/ store' = rest /\ nav' = nav
      \/ /\ rest.active = None
         /\ store' = setActiveContext(rest, default) /\ nav' = nav
      \/ /\ rest.active \notin known
         /\ store' = Recovered(rest, rest.active, default) /\ RecoverRoute(store')
  BY DEF ContextsArrive
<1>5. Expired(rest) = Expired(store)
  BY <1>3 DEF Expired, isSessionExpired
<1> HIDE DEF rest
<1>6. CASE store' = rest /\ nav' = nav
  BY <1>1, <1>2, <1>3, <1>6, ShrinkingStep
<1>7. CASE rest.active = None /\ store' = setActiveContext(rest, default) /\ nav' = nav
  <2>1. /\ store' \in Store /\ Synced(store')
        /\ store'.fetching \subseteq rest.fetching
        /\ store'.sessions = Without(rest.sessions, Expired(rest))
        /\ Covered(rest) => Covered(store')
    BY <1>1, <1>3, <1>7, SetActive
  <2>2. DOMAIN Without(store.sessions, Expired(store)) = DOMAIN store.sessions \ Expired(store)
    BY <1>1, WithoutTable
  <2>3. SessionsOwned /\ SelectionOwned
    BY <1>3, <1>5, <1>7, <2>1, <2>2 DEF SessionsOwned, SelectionOwned
  <2>4. DetailOfActive'
    BY <1>2, <1>3, <1>7 DEF DetailOfActive, TabInv
  <2>5. ~backendLocal => Covered(store')
    BY <1>3, <2>1 DEF TabInv, Shrinks
  <2> QED
    BY <1>1, <1>2, <1>3, <2>1, <2>3, <2>4, <2>5 DEF StoreStep
<1>8. CASE /\ rest.active \notin known
           /\ store' = Recovered(rest, rest.active, default) /\ RecoverRoute(store')
  <2>1. /\ store' \in Store /\ Synced(store')
        /\ store'.fetching \subseteq rest.fetching
        /\ DOMAIN rest.sessions \ DOMAIN store'.sessions \subseteq {rest.active} \cup Expired(rest)
        /\ Covered(rest) => Covered(store')
    BY <1>1, <1>3, <1>8, RecoveredStore
  <2>2. SessionsOwned /\ SelectionOwned
    BY <1>3, <1>5, <1>8, <2>1 DEF SessionsOwned, SelectionOwned
  <2>3. DetailOfActive'
    BY <1>2, <1>8, RecoverNavigates DEF DetailOfActive
  <2>4. ~backendLocal => Covered(store')
    BY <1>3, <2>1 DEF TabInv, Shrinks
  <2> QED
    BY <1>1, <1>2, <1>3, <2>1, <2>2, <2>3, <2>4 DEF StoreStep
<1> QED
  BY <1>4, <1>6, <1>7, <1>8

(* Selecting a cluster, from a page that is left if it shows an object.    *)
LEMMA SelectStep ==
    ASSUME TabInv, NEW c \in Contexts, store' = setActiveContext(store, c),
           switchContext(c) \/ pick(c), UNCHANGED <<requests, route, shown>>,
           route = "resource-detail" => nav' # None
    PROVE  StoreStep
<1>1. store \in Store /\ store.fetching \subseteq requests /\ requests \subseteq Query
      /\ store.sessions \in Table /\ c \in Names
  BY DEF TabInv, StateOK, Store, Names
<1>2. /\ store' \in Store /\ Synced(store')
      /\ store'.fetching \subseteq store.fetching
      /\ store'.sessions = Without(store.sessions, Expired(store))
      /\ Covered(store) => Covered(store')
  BY <1>1, SetActive
<1>3. DOMAIN Without(store.sessions, Expired(store)) = DOMAIN store.sessions \ Expired(store)
  BY <1>1, WithoutTable
<1>4. SessionsOwned
  BY <1>2, <1>3 DEF SessionsOwned
<1>5. SelectionOwned
  BY DEF SelectionOwned
<1>6. DetailOfActive'
  BY DEF DetailOfActive
<1> QED
  BY <1>1, <1>2, <1>4, <1>5, <1>6 DEF StoreStep, TabInv

(* The cluster switcher leaves a detail page.                              *)
LEMMA SwitchNavigates ==
    ASSUME TabInv, NEW c \in Contexts, switchContext(c)
    PROVE  \/ nav' = nav /\ route # "resource-detail"
           \/ nav' \in Navigation /\ nav' # None
<1> DEFINE view == IF route = "resource-detail" THEN "resource-list" ELSE route
<1>1. {"login", "overview", view} \subseteq Places
  BY DEF Places, Pages, switchContext
<1>2. \/ push("login", view) \/ push(view, "overview")
      \/ nav' = nav /\ route # "resource-detail"
  BY DEF switchContext
<1> HIDE DEF view
<1> QED
  BY <1>1, <1>2, PushNavigates

(* The login page's picker moves on only to a cluster with a session.      *)
LEMMA PickNavigates ==
    ASSUME TabInv, NEW c \in Contexts, pick(c)
    PROVE  nav' = nav \/ (nav' \in Navigation /\ nav' # None)
<1>1. back \in Places /\ "overview" \in Places
  BY DEF TabInv, StateOK, Places, Pages
<1>2. nav' = nav \/ push(back, "overview")
  BY DEF pick
<1> QED
  BY <1>1, <1>2, PushNavigates

(* Signing out ends the active session.                                    *)
LEMMA LogoutStep ==
    ASSUME TabInv, logout
    PROVE  StoreStep /\ nav' \in Navigation
<1>1. store \in Store /\ store.fetching \subseteq requests /\ requests \subseteq Query
      /\ store.active \in Names
  BY DEF TabInv, StateOK, Store
<1>2. Shrinks(store, store', {store.active}) /\ UNCHANGED <<route, shown, requests>>
  BY <1>1, ClearShrinks DEF logout
<1>3. "login" \in Places /\ "overview" \in Places
  BY DEF Places, Pages
<1>4. nav' \in Navigation /\ nav' # None
  BY <1>3, PushNavigates DEF logout
<1>5. store'.fetching \subseteq requests'
  BY <1>1, <1>2 DEF Shrinks
<1>6. \A c \in {store.active} \cap DOMAIN store.sessions : c = store.active /\ logout
  OBVIOUS
<1>7. StoreStep
  BY <1>1, <1>2, <1>4, <1>5, <1>6, ShrinkingStep
<1> QED
  BY <1>4, <1>7

(* A verified token replaces at most its own context's session.            *)
LEMMA VerifiedStep ==
    ASSUME TabInv, Verified
    PROVE  StoreStep /\ nav' \in Navigation
<1>1. store \in Store /\ store.fetching \subseteq requests /\ requests \subseteq Query
      /\ now \in 0..Horizon /\ back \in Places
  BY DEF TabInv, StateOK
<1>2. verify # None /\ verify' = None /\ UNCHANGED <<requests, route, shown>>
      /\ store' = setSession(store, Target(verify.ctx), verify.token)
      /\ Target(verify.ctx) \in known
      /\ push(IF route = "login" THEN back ELSE "overview", "overview")
  BY DEF Verified
<1>3. verify.token \in 1..MaxLogins /\ Target(verify.ctx) \in Contexts
  BY <1>2 DEF TabInv, StateOK, Verify
<1>4. /\ store' \in Store /\ Synced(store') /\ store'.fetching = store.fetching
      /\ DOMAIN store.sessions \subseteq DOMAIN store'.sessions
      /\ Covered(store) => Covered(store')
  BY <1>1, <1>2, <1>3, SetSession, SessionsAssumption
<1>5. "overview" \in Places /\ (IF route = "login" THEN back ELSE "overview") \in Places
  BY <1>1 DEF Places, Pages
<1>6. nav' \in Navigation /\ nav' # None
  BY <1>2, <1>5, PushNavigates
<1>7. SessionsOwned /\ SelectionOwned /\ DetailOfActive'
  BY <1>2, <1>4, <1>6 DEF SessionsOwned, SelectionOwned, DetailOfActive
<1> QED
  BY <1>1, <1>2, <1>4, <1>6, <1>7 DEF StoreStep, TabInv

(* A reload brings back the selection and the unexpired sessions.          *)
LEMMA ReloadStep ==
    ASSUME TabInv, Reload
    PROVE  /\ StoreStep /\ nav' \in Navigation
           /\ store'.active = store.active
           /\ store'.sessions = Without(store.sessions, Expired(store))
<1>1. /\ store \in Store /\ store.disk \in Disk /\ store.sessions \in Table
      /\ store.disk.active = store.active /\ store.disk.sessions = store.sessions
  BY DEF TabInv, StateOK, Store, Disk, Synced
<1>2. store' = restored(store.disk) /\ requests' = {} /\ route' = "start"
  BY DEF Reload
<1>3. /\ store' \in Store /\ Synced(store') /\ Covered(store')
      /\ store'.active = store.disk.active /\ store'.fetching = {}
      /\ store'.sessions = Without(store.disk.sessions,
             {c \in DOMAIN store.disk.sessions : isSessionExpired(store.disk.sessions[c])})
  BY <1>1, <1>2, RestoredStore
<1>4. /\ store'.active = store.active
      /\ store'.sessions = Without(store.sessions, Expired(store))
  BY <1>1, <1>3 DEF Expired
<1>5. DOMAIN Without(store.sessions, Expired(store)) = DOMAIN store.sessions \ Expired(store)
  BY <1>1, WithoutTable
<1>6. SessionsOwned /\ SelectionOwned /\ DetailOfActive'
  BY <1>2, <1>4, <1>5 DEF SessionsOwned, SelectionOwned, DetailOfActive
<1>7. nav' \in Navigation
  <2>1. FALSE \in BOOLEAN /\ route \in Places /\ back \in Places
    BY DEF Reload, TabInv, StateOK
  <2>2. nav' = [to |-> route, back |-> back, guarded |-> FALSE]
    BY DEF Reload
  <2> QED
    BY <2>1, <2>2 DEF Navigation
<1> QED
  BY <1>2, <1>3, <1>4, <1>6, <1>7 DEF StoreStep

(* Every step, as far as the store is concerned.                           *)
LEMMA EveryStoreStep ==
    ASSUME TabInv, [Next]_vars
    PROVE  StoreStep
<1>1. CASE Guard
  BY <1>1, GuardStep
<1>2. CASE Land
  <2>1. DetailOfActive'
    BY <1>2 DEF Land, DetailOfActive
  <2> QED
    BY <1>2, <2>1, QuietStep DEF Land
<1>3. CASE FetchData \/ FetchContexts
  BY <1>3, FetchStep DEF FetchData, FetchContexts
<1>4. ASSUME NEW page \in Pages, Follow(page) PROVE StoreStep
  <2>1. "overview" \in Places /\ page \in Places
    BY DEF Places, Pages
  <2>2. nav' # None
    BY <1>4, <2>1, PushNavigates DEF Follow
  <2> QED
    BY <1>4, <2>2, QuietStep DEF Follow, DetailOfActive
<1>5. ASSUME NEW q \in requests,
             FetchFails(q) \/ DataArrives(q) \/ Unauthorized(q) \/ UnknownContext(q)
             \/ ContextsArrive(q)
      PROVE  StoreStep
  BY <1>5, FailStep, DataStep, RefusedStep, UnknownStep, ContextsStep
<1>6. ASSUME NEW c \in Contexts, switchContext(c) PROVE StoreStep
  <2>1. route = "resource-detail" => nav' # None
    BY <1>6, SwitchNavigates
  <2>2. store' = setActiveContext(store, c) /\ UNCHANGED <<requests, route, shown>>
    BY <1>6 DEF switchContext
  <2> QED
    BY <1>6, <2>1, <2>2, SelectStep
<1>7. ASSUME NEW c \in Contexts, pick(c) PROVE StoreStep
  <2>1. store' = setActiveContext(store, c) /\ UNCHANGED <<requests, route, shown>>
        /\ route # "resource-detail"
    BY <1>7 DEF pick
  <2> QED
    BY <1>7, <2>1, SelectStep
<1>8. CASE logout \/ Verified \/ Reload
  BY <1>8, LogoutStep, VerifiedStep, ReloadStep
<1>9. CASE \/ submit \/ VerifyFails \/ resolveAuthMode \/ Tick \/ UNCHANGED vars
           \/ \E c \in Contexts : ContextGoes(c)
  <2>1. UNCHANGED <<store, requests, route, nav, shown>>
    BY <1>9 DEF submit, VerifyFails, resolveAuthMode, Tick, vars, ContextGoes
  <2> QED
    BY <2>1, QuietStep DEF DetailOfActive, TabInv
<1> QED
  BY <1>1, <1>2, <1>3, <1>4, <1>5, <1>6, <1>7, <1>8, <1>9 DEF Next

-----------------------------------------------------------------------------
(* The rest of the state.                                                  *)

RestOK ==
    /\ now \in 0..Horizon /\ logins \in 0..MaxLogins
    /\ known \subseteq Contexts /\ default \in known
    /\ mode \in {"probing", "token", "kubeconfig"}
    /\ verify \in Verify \cup {None} /\ contexts \in Answer \cup {None}
    /\ route \in Places \cup {"start"} /\ back \in Places
    /\ nav \in Navigation \cup {None} /\ shown \in Names

(* A step that touches neither page, world nor login, only perhaps nav.    *)
LEMMA StillStep ==
    ASSUME RestOK, UNCHANGED <<now, world, mode, contexts, verify, logins, route, back, shown>>,
           nav' \in Navigation \cup {None}
    PROVE  RestOK' /\ backendLocal' = backendLocal
BY DEF RestOK, world

(* The router's steps.                                                     *)
LEMMA RouterTypes ==
    ASSUME TabInv, RestOK, Guard \/ Land \/ (\E page \in Pages : Follow(page))
    PROVE  RestOK' /\ backendLocal' = backendLocal
<1>1. CASE Guard
  <2>1. nav' \in Navigation
    BY <1>1, GuardNavigates DEF RestOK
  <2> QED
    BY <1>1, <2>1, StillStep DEF Guard
<1>2. CASE Land
  <2>1. nav \in Navigation /\ nav.to \in Places /\ nav.back \in Places
    BY <1>2 DEF Land, RestOK, Navigation
  <2>2. verify' \in Verify \cup {None}
    <3>1. TRUE \in BOOLEAN
      OBVIOUS
    <3>2. verify # None => [verify EXCEPT !.orphan = TRUE] \in Verify
      BY <3>1 DEF RestOK, Verify
    <3> QED
      BY <1>2, <3>2 DEF Land, RestOK
  <2>3. store.active \in Names /\ None \in Names
    BY DEF TabInv, StateOK, Store, Names
  <2>4. shown' \in Names
    BY <1>2, <2>3 DEF Land
  <2>5. /\ route' \in Places /\ back' \in Places /\ nav' = None
        /\ UNCHANGED <<now, world, mode, contexts, logins>>
    BY <1>2, <2>1 DEF Land
  <2> QED
    BY <2>2, <2>4, <2>5 DEF RestOK, world
<1>3. ASSUME NEW page \in Pages, Follow(page)
      PROVE  RestOK' /\ backendLocal' = backendLocal
  <2>1. "overview" \in Places /\ page \in Places
    BY DEF Places, Pages
  <2>2. nav' \in Navigation
    BY <1>3, <2>1, PushNavigates DEF Follow
  <2> QED
    BY <1>3, <2>2, StillStep DEF Follow
<1> QED
  BY <1>1, <1>2, <1>3

(* The answers.                                                            *)
LEMMA AnswerTypes ==
    ASSUME TabInv, RestOK, NEW q \in requests,
           FetchFails(q) \/ DataArrives(q) \/ Unauthorized(q) \/ UnknownContext(q)
           \/ ContextsArrive(q)
    PROVE  RestOK' /\ backendLocal' = backendLocal
<1>1. "login" \in Places /\ "overview" \in Places /\ nav \in Navigation \cup {None}
  BY DEF Places, Pages, RestOK
<1>2. CASE FetchFails(q) \/ DataArrives(q)
  BY <1>1, <1>2, StillStep DEF FetchFails, DataArrives
<1>3. CASE Unauthorized(q)
  <2>1. nav' = nav \/ push("login", "overview")
    BY <1>3 DEF Unauthorized
  <2>2. nav' \in Navigation \cup {None}
    BY <1>1, <2>1, PushNavigates
  <2> QED
    BY <1>3, <2>2, StillStep DEF Unauthorized
<1>4. CASE UnknownContext(q)
  <2>1. nav' = nav \/ \E st : RecoverRoute(st)
    BY <1>4 DEF UnknownContext
  <2>2. nav' \in Navigation \cup {None}
    BY <1>1, <2>1, RecoverNavigates
  <2> QED
    BY <1>4, <2>2, StillStep DEF UnknownContext
<1>5. CASE ContextsArrive(q)
  <2>1. nav' = nav \/ \E st : RecoverRoute(st)
    BY <1>5 DEF ContextsArrive
  <2>2. nav' \in Navigation \cup {None}
    BY <1>1, <2>1, RecoverNavigates
  <2>3. contexts' = [names |-> known, default |-> default]
    BY <1>5 DEF ContextsArrive
  <2>4. contexts' \in Answer
    BY <2>3 DEF RestOK, Answer
  <2>5. UNCHANGED <<now, world, mode, verify, logins, route, back, shown>>
    BY <1>5 DEF ContextsArrive
  <2> QED
    BY <2>2, <2>4, <2>5 DEF RestOK, world
<1> QED
  BY <1>2, <1>3, <1>4, <1>5

(* The login page and the cluster switcher.                                *)
LEMMA LoginTypes ==
    ASSUME TabInv, RestOK,
           \/ \E c \in Contexts : switchContext(c) \/ pick(c)
           \/ logout \/ submit \/ Verified \/ VerifyFails
    PROVE  RestOK' /\ backendLocal' = backendLocal
<1>1. nav \in Navigation \cup {None}
  BY DEF RestOK
<1>2. ASSUME NEW c \in Contexts, switchContext(c)
      PROVE  RestOK' /\ backendLocal' = backendLocal
  <2>1. nav' \in Navigation \cup {None}
    BY <1>1, <1>2, SwitchNavigates
  <2> QED
    BY <1>2, <2>1, StillStep DEF switchContext
<1>3. ASSUME NEW c \in Contexts, pick(c)
      PROVE  RestOK' /\ backendLocal' = backendLocal
  <2>1. nav' \in Navigation \cup {None}
    BY <1>1, <1>3, PickNavigates
  <2> QED
    BY <1>3, <2>1, StillStep DEF pick
<1>4. CASE logout
  <2>1. nav' \in Navigation \cup {None}
    BY <1>4, LogoutStep
  <2> QED
    BY <1>4, <2>1, StillStep DEF logout
<1>5. CASE submit
  <2>1. store.active \in Names /\ FALSE \in BOOLEAN
    BY DEF TabInv, StateOK, Store
  <2>2. logins' \in 0..MaxLogins /\ logins + 1 \in 1..MaxLogins
    BY <1>5, SessionsAssumption DEF submit, RestOK, SessionsAssumption
  <2>3. verify' \in Verify
    BY <1>5, <2>1, <2>2 DEF submit, Verify
  <2>4. UNCHANGED <<now, world, mode, contexts, route, back, nav, shown>>
    BY <1>5 DEF submit
  <2> QED
    BY <2>2, <2>3, <2>4 DEF RestOK, world
<1>6. CASE Verified
  <2>1. nav' \in Navigation
    BY <1>6, VerifiedStep
  <2>2. verify' = None /\ UNCHANGED <<now, world, mode, contexts, logins, route, back, shown>>
    BY <1>6 DEF Verified
  <2> QED
    BY <2>1, <2>2 DEF RestOK, world
<1>7. CASE VerifyFails
  BY <1>7 DEF VerifyFails, RestOK, world
<1> QED
  BY <1>2, <1>3, <1>4, <1>5, <1>6, <1>7

(* main.ts, time and the kubeconfig.                                       *)
LEMMA WorldTypes ==
    ASSUME TabInv, RestOK,
           resolveAuthMode \/ Reload \/ Tick \/ \E c \in Contexts : ContextGoes(c)
    PROVE  RestOK' /\ backendLocal' = backendLocal
<1>1. CASE resolveAuthMode
  BY <1>1 DEF resolveAuthMode, RestOK, world
<1>2. CASE Reload
  <2>1. nav' \in Navigation
    BY <1>2, ReloadStep
  <2>2. /\ mode' = "probing" /\ contexts' = None /\ verify' = None /\ route' = "start"
        /\ shown' = None /\ UNCHANGED <<now, world, logins, back>>
    BY <1>2 DEF Reload
  <2> QED
    BY <2>1, <2>2 DEF RestOK, world, Names
<1>3. CASE Tick
  <2>1. now' \in 0..Horizon
    BY <1>3, SessionsAssumption DEF Tick, RestOK, SessionsAssumption
  <2> QED
    BY <1>3, <2>1 DEF Tick, RestOK, world
<1>4. ASSUME NEW c \in Contexts, ContextGoes(c)
      PROVE  RestOK' /\ backendLocal' = backendLocal
  <2>1. known' \subseteq Contexts /\ default' \in known'
    BY <1>4 DEF ContextGoes, RestOK
  <2> QED
    BY <1>4, <2>1 DEF ContextGoes, RestOK
<1> QED
  BY <1>1, <1>2, <1>3, <1>4

(* The invariant holds initially.                                          *)
LEMMA TabInitially == Init => TabInv
<1> SUFFICES ASSUME Init PROVE TabInv
  OBVIOUS
<1>1. empty \in Table
  <2>1. empty \in [{} -> Stored]
    BY DEF empty
  <2>2. {} \in SUBSET Contexts
    OBVIOUS
  <2> QED
    BY <2>1, <2>2 DEF Table
<1>2. [active |-> None, sessions |-> empty] \in Disk
  BY <1>1 DEF Disk, Names
<1>3. store \in Store /\ Synced(store) /\ Covered(store) /\ store.fetching = {}
  BY <1>2, RestoredStore DEF Init
<1>4. nav \in Navigation
  <2>1. FALSE \in BOOLEAN
    OBVIOUS
  <2> QED
    BY <2>1 DEF Init, Navigation, Places, Pages
<1>5. StateOK
  BY <1>3, <1>4, SessionsAssumption DEF Init, StateOK, SessionsAssumption, Places, Pages, Names
<1> QED
  BY <1>3, <1>5 DEF TabInv, DetailOfActive, Init

(* Every step preserves the invariant.                                     *)
LEMMA TabNextStep == TabInv /\ [Next]_vars => TabInv'
<1> SUFFICES ASSUME TabInv, [Next]_vars PROVE TabInv'
  OBVIOUS
<1>1. RestOK
  BY DEF TabInv, StateOK, RestOK
<1>2. StoreStep
  BY EveryStoreStep
<1>3. RestOK' /\ backendLocal' = backendLocal
  <2>1. CASE FetchData \/ FetchContexts
    BY <1>1, <2>1, StillStep DEF FetchData, FetchContexts, Fetch, RestOK
  <2>2. CASE UNCHANGED vars
    BY <1>1, <2>2 DEF vars, RestOK, world
  <2> QED
    BY <1>1, <2>1, <2>2, RouterTypes, AnswerTypes, LoginTypes, WorldTypes DEF Next
<1> QED
  BY <1>2, <1>3 DEF TabInv, StateOK, RestOK, StoreStep

(* The invariant behind all results of this module.                        *)
LEMMA TabInvariant == Spec => []TabInv
BY TabInitially, TabNextStep, PTL DEF Spec

-----------------------------------------------------------------------------
(* Every piece of the tab's state has its type.                            *)
THEOREM TabTypeCorrect == Spec => []TypeOK
<1>1. TabInv => TypeOK
  <2> SUFFICES ASSUME TabInv PROVE TypeOK
    OBVIOUS
  <2>1. PICK dom \in SUBSET Contexts : store.sessions \in [dom -> Stored]
    BY DEF TabInv, StateOK, Store, Table
  <2> QED
    BY <2>1 DEF TabInv, StateOK, Store, TypeOK, Places
<1> QED
  BY <1>1, TabInvariant, PTL

(* However sessions end and answers are delayed, nothing a session fetched *)
(* stays in a cache, or can still enter one, when the session is gone.     *)
THEOREM CachesDie == Spec => []CachesDieWithSession
<1>1. TabInv => CachesDieWithSession
  BY DEF TabInv, Covered, CachesDieWithSession
<1> QED
  BY <1>1, TabInvariant, PTL

(* Whatever switches, logins and recoveries overlap with a navigation, a   *)
(* detail page that is settled shows an object of the active cluster.      *)
THEOREM DetailIsOfActive == Spec => []DetailOfActive
<1>1. TabInv => DetailOfActive
  BY DEF TabInv
<1> QED
  BY <1>1, TabInvariant, PTL

(* No step of any actor ends a session or moves the selection without a    *)
(* cause of its own, and a reload restores exactly what was there.         *)
THEOREM CausesAreOwn == Spec => OwnCauseOnly
<1>1. TabInv /\ [Next]_vars =>
        [/\ Reload => /\ store'.active = store.active
                      /\ store'.sessions = Without(store.sessions, Expired(store))
         /\ \A c \in DOMAIN store.sessions \ DOMAIN store'.sessions :
              \/ c \in Expired(store) \/ c \notin known \/ Refusal(c)
              \/ c = store.active /\ logout
         /\ store'.active # store.active =>
              \/ store.active = None \/ store.active \notin known
              \/ \E c \in Contexts : switchContext(c) \/ pick(c)
              \/ verify # None /\ verify' = None]_vars
  BY EveryStoreStep, ReloadStep DEF StoreStep, SessionsOwned, SelectionOwned
<1> QED
  BY <1>1, TabInvariant, PTL DEF Spec, OwnCauseOnly

===============================================================================
