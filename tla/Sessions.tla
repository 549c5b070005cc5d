------------------------------- MODULE Sessions -------------------------------
(***************************************************************************)
(* Sessions, credentials and routing: the auth store with its              *)
(* sessionStorage mirror and the caches that die with a session, apiFetch  *)
(* with its 401 and unknown-context handlers, the route guard, the login   *)
(* page and the cluster switcher.  A token is known by the number of the   *)
(* login that produced it.  A step is one browser task: what runs in       *)
(* microtasks of one task is not interleaved.                              *)
(***************************************************************************)
EXTENDS Naturals, FiniteSets

CONSTANTS
    Contexts,      \* names a kubeconfig may hold
    None,          \* no context: the empty name, or no value
    TTL,           \* SESSION_TTL_MS
    Horizon,       \* bound: ticks
    MaxLogins,     \* bound: tokens pasted
    MaxRequests    \* bound: requests in flight

ASSUME SessionsAssumption ==
    /\ None \notin Contexts /\ Contexts # {}
    /\ TTL \in Nat \ {0} /\ {Horizon, MaxLogins, MaxRequests} \subseteq Nat

VARIABLES
    now, known, default, backendLocal,  \* the world
    mode,          \* the auth-mode probe, then token or kubeconfig (localAuth)
    store,         \* the auth store, its storage mirror and its caches
    contexts,      \* the cached answer of /api/ui/contexts
    requests, verify, logins,
    route, back, nav,  \* the page, its ?redirect, the navigation under way
    shown          \* the context the detail page was opened under

world == <<known, default, backendLocal>>
vars == <<now, world, mode, store, contexts, requests, verify, logins, route, back, nav, shown>>

Names == Contexts \cup {None}
Pages == {"overview", "resource-list", "resource-detail"}
Places == Pages \cup {"login"}
Navigation == [to : Places, back : Places, guarded : BOOLEAN]
localAuth == mode = "kubeconfig"
empty == [c \in {} |-> None]

ASSUME NoneAssumption == None \notin Navigation

-----------------------------------------------------------------------------
(* stores/auth.ts.  store.cache[c] is the set of tokens whose answers the  *)
(* query cache and the chart buffers hold under c; store.fetching the      *)
(* queries whose answer would still enter it.                              *)

isSessionExpired(s) == s.expiresAt <= now

persist(st) == [st EXCEPT !.disk = [active |-> st.active, sessions |-> st.sessions]]

evictContextCaches(st, cs) ==
    [st EXCEPT !.cache = [c \in Names |-> IF c \in cs THEN {} ELSE st.cache[c]],
               !.fetching = {q \in st.fetching : q.ctx \notin cs}]

Without(f, cs) == [c \in DOMAIN f \ cs |-> f[c]]

clearSession(st, c) ==
    evictContextCaches(
        IF c \in DOMAIN st.sessions
        THEN persist([st EXCEPT !.sessions = Without(st.sessions, {c})]) ELSE st, {c})

Expired(st) == {c \in DOMAIN st.sessions : isSessionExpired(st.sessions[c])}

SlipPrune(st) ==
    IF Expired(st) = {} THEN st
    ELSE persist([st EXCEPT !.sessions = Without(st.sessions, Expired(st))])

pruneExpiredSessions(st) ==
    IF Expired(st) = {} THEN st
    ELSE evictContextCaches(
            persist([st EXCEPT !.sessions = Without(st.sessions, Expired(st))]), Expired(st))

setActiveContext(st, c) == persist([pruneExpiredSessions(st) EXCEPT !.active = c])

setSession(st, c, token) ==
    persist([st EXCEPT !.active = c,
                       !.sessions = [d \in DOMAIN st.sessions \cup {c} |->
                           IF d = c THEN [token |-> token, expiresAt |-> now + TTL]
                           ELSE st.sessions[d]]])

(* readStoredSessions(): expired entries are dropped, and scrubbed.        *)
restored(disk) ==
    LET kept == {c \in DOMAIN disk.sessions : ~isSessionExpired(disk.sessions[c])}
        st == [active |-> disk.active, disk |-> disk, fetching |-> {},
               sessions |-> [c \in kept |-> disk.sessions[c]],
               cache |-> [c \in Names |-> {}]]
    IN IF kept = DOMAIN disk.sessions THEN st ELSE persist(st)

hasSession(st, c) ==
    localAuth \/ (c \in DOMAIN st.sessions /\ ~isSessionExpired(st.sessions[c]))

isAuthenticated(st) == hasSession(st, st.active)

signedInContexts(st) == {c \in DOMAIN st.sessions : hasSession(st, c)}

tokenOf(st) ==
    IF localAuth \/ st.active \notin DOMAIN st.sessions THEN None
    ELSE st.sessions[st.active].token

Init ==
    /\ now = 0 /\ known = Contexts /\ default \in Contexts
    /\ backendLocal \in BOOLEAN
    /\ mode = "probing"
    /\ store = restored([active |-> None, sessions |-> empty])
    /\ contexts = None /\ requests = {} /\ verify = None /\ logins = 0
    /\ route = "start" /\ back = "overview" /\ shown = None
    /\ nav = [to |-> "overview", back |-> "overview", guarded |-> FALSE]

-----------------------------------------------------------------------------
(* The router: the guard, then the page's chunk; a push replaces whatever  *)
(* navigation was under way.                                               *)

push(to, from) == nav' = [to |-> to, back |-> from, guarded |-> FALSE]

Guard ==
    LET st == pruneExpiredSessions(store)
    IN /\ nav # None /\ ~nav.guarded /\ mode # "probing"
       /\ store' = st
       /\ nav' = CASE nav.to = "login" /\ isAuthenticated(st) ->
                        [to |-> "overview", back |-> "overview", guarded |-> TRUE]
                   [] nav.to # "login" /\ ~isAuthenticated(st) ->
                        [to |-> "login", back |-> nav.to, guarded |-> TRUE]
                   [] OTHER -> [nav EXCEPT !.guarded = TRUE]
       /\ UNCHANGED <<now, world, mode, contexts, requests, verify, logins, route, back, shown>>

(* A page left behind keeps its promises running: a verify goes on.        *)
Land ==
    /\ nav # None /\ nav.guarded
    /\ route' = nav.to /\ back' = nav.back /\ nav' = None
    /\ shown' = IF nav.to = "resource-detail" THEN store.active ELSE None
    /\ verify' = IF verify # None /\ nav.to # "login"
                 THEN [verify EXCEPT !.orphan = TRUE] ELSE verify
    /\ UNCHANGED <<now, world, mode, store, contexts, requests, logins>>

(* A link, or the browser's history.                                       *)
Follow(page) ==
    /\ route # "start" /\ push(page, "overview")
    /\ UNCHANGED <<now, world, mode, store, contexts, requests, verify, logins, route, back, shown>>

-----------------------------------------------------------------------------
(* apiFetch up to its await: the token, pruned first, and the context.     *)

Sent(st, kind) == [ctx |-> st.active, token |-> tokenOf(st), kind |-> kind]

Fetch(kind) ==
    LET st == pruneExpiredSessions(store)
        q == Sent(st, kind)
    IN /\ Cardinality(requests) < MaxRequests
       /\ requests' = requests \cup {q}
       /\ store' = [st EXCEPT !.fetching = @ \cup {q}]
       /\ UNCHANGED <<now, world, mode, contexts, verify, logins, route, back, nav, shown>>

(* A page or one of its polls asks for something.                          *)
FetchData == route \in Pages /\ Fetch("data")

(* The contexts query, enabled while the tab looks signed in.              *)
FetchContexts ==
    /\ route # "start" /\ (localAuth \/ store.active \in DOMAIN store.sessions)
    /\ \A q \in requests : q.kind # "contexts"
    /\ Fetch("contexts")

(* What the backend may make of a request: no token is never accepted, and *)
(* a token, or the backend's own credentials, may be refused at any time.  *)
Target(c) == IF c = None THEN default ELSE c
Rejected(q) == Target(q.ctx) \notin known
Refusable(q) == ~Rejected(q)
Accepted(q) == ~Rejected(q) /\ (backendLocal \/ q.token # None)

FetchFails(q) ==
    /\ requests' = requests \ {q} /\ store' = [store EXCEPT !.fetching = @ \ {q}]
    /\ UNCHANGED <<now, world, mode, contexts, verify, logins, route, back, nav, shown>>

DataArrives(q) ==
    /\ q.kind = "data" /\ Accepted(q)
    /\ requests' = requests \ {q}
    /\ store' = IF q \in store.fetching
                THEN [store EXCEPT !.fetching = @ \ {q}, !.cache[q.ctx] = @ \cup {q.token}]
                ELSE store
    /\ UNCHANGED <<now, world, mode, contexts, verify, logins, route, back, nav, shown>>

(* 401: provider.logout and the handler of main.ts.  Nothing is touched in *)
(* the local mode; the redirect is for the context on screen only.         *)
SlipUnauthorized(q) ==
    /\ Refusable(q) /\ requests' = requests \ {q}
    /\ IF localAuth THEN UNCHANGED <<store, nav>>
       ELSE /\ store' = clearSession([store EXCEPT !.fetching = @ \ {q}], store.active)
            /\ IF q.ctx = store.active THEN push("login", "overview") ELSE UNCHANGED nav
    /\ UNCHANGED <<now, world, mode, contexts, verify, logins, route, back, shown>>

Unauthorized(q) ==
    /\ Refusable(q) /\ requests' = requests \ {q}
    /\ IF localAuth
       THEN store' = [store EXCEPT !.fetching = @ \ {q}] /\ UNCHANGED nav
       ELSE /\ store' = clearSession([store EXCEPT !.fetching = @ \ {q}], q.ctx)
            /\ IF q.ctx = store.active THEN push("login", "overview") ELSE UNCHANGED nav
    /\ UNCHANGED <<now, world, mode, contexts, verify, logins, route, back, shown>>

-----------------------------------------------------------------------------
(* useContexts.ts.                                                         *)

Fallback(st, knownDefault) == IF knownDefault # None THEN knownDefault ELSE st.active

Recovered(st, rejected, knownDefault) ==
    setActiveContext(clearSession(st, rejected), Fallback(st, knownDefault))

SlipRecoverRoute(st) ==
    IF ~isAuthenticated(st) THEN push("login", "overview") ELSE UNCHANGED nav

RecoverRoute(st) ==
    IF ~isAuthenticated(st) THEN push("login", "overview")
    ELSE IF route = "resource-detail" THEN push("resource-list", "overview")
    ELSE UNCHANGED nav

(* 400 unknown context: recoverFromUnknownContext while it is still the    *)
(* active one, and the list is asked for again unless that would loop.     *)
UnknownContext(q) ==
    LET rest == [store EXCEPT !.fetching = @ \ {q}]
        knownDefault == IF contexts = None THEN None ELSE contexts.default
        st == Recovered(rest, q.ctx, knownDefault)
        again == Sent(st, "contexts")
    IN /\ Rejected(q)
       /\ IF q.ctx # store.active
          THEN store' = rest /\ requests' = requests \ {q} /\ UNCHANGED nav
          ELSE /\ RecoverRoute(st)
               /\ IF isAuthenticated(st) /\ st.active # q.ctx
                  THEN /\ requests' = (requests \ {q}) \cup {again}
                       /\ store' = [st EXCEPT !.fetching = @ \cup {again}]
                  ELSE requests' = requests \ {q} /\ store' = st
       /\ UNCHANGED <<now, world, mode, contexts, verify, logins, route, back, shown>>

(* The list arrives.  The reconcile watch runs in the mounted switcher:    *)
(* adopt the default when nothing is selected, leave a context that went.  *)
ContextsArrive(q) ==
    LET rest == [store EXCEPT !.fetching = @ \ {q}]
        st == IF rest.active = None THEN setActiveContext(rest, default)
              ELSE Recovered(rest, rest.active, default)
    IN /\ q.kind = "contexts" /\ Accepted(q)
       /\ requests' = requests \ {q}
       /\ contexts' = [names |-> known, default |-> default]
       /\ IF route \in Pages /\ contexts' # contexts /\ rest.active \notin known
          THEN /\ store' = st
               /\ IF rest.active = None THEN UNCHANGED nav ELSE RecoverRoute(st)
          ELSE store' = rest /\ UNCHANGED nav
       /\ UNCHANGED <<now, world, mode, verify, logins, route, back, shown>>

-----------------------------------------------------------------------------
(* ClusterSelector, TopBar, LoginPage.                                     *)

(* switchContext(): to login when the target has no session (the redirect  *)
(* of a detail page is its list), off a detail page otherwise.             *)
switchContext(c) ==
    LET st == setActiveContext(store, c)
        view == IF route = "resource-detail" THEN "resource-list" ELSE route
    IN /\ route \in Pages /\ contexts # None /\ Cardinality(contexts.names) > 1
       /\ c \in contexts.names /\ c # store.active
       /\ store' = st
       /\ IF ~isAuthenticated(st) THEN push("login", view)
          ELSE IF route = "resource-detail" THEN push(view, "overview")
          ELSE UNCHANGED nav
       /\ UNCHANGED <<now, world, mode, contexts, requests, verify, logins, route, back, shown>>

logout ==
    /\ route \in Pages /\ ~localAuth
    /\ store' = clearSession(store, store.active) /\ push("login", "overview")
    /\ UNCHANGED <<now, world, mode, contexts, requests, verify, logins, route, back, shown>>

LoginItems ==
    (IF contexts = None THEN {} ELSE contexts.names) \cup signedInContexts(store) \cup {store.active}

loading == verify # None /\ ~verify.orphan

pick(c) ==
    LET st == setActiveContext(store, c)
    IN /\ route = "login" /\ ~loading
       /\ c \in LoginItems \ {None, store.active} /\ Cardinality(LoginItems) > 1
       /\ store' = st
       /\ IF isAuthenticated(st) THEN push(back, "overview") ELSE UNCHANGED nav
       /\ UNCHANGED <<now, world, mode, contexts, requests, verify, logins, route, back, shown>>

(* submit() up to its await: the pasted token, the target of the moment.   *)
submit ==
    /\ route = "login" /\ verify = None /\ logins < MaxLogins
    /\ logins' = logins + 1
    /\ verify' = [ctx |-> store.active, token |-> logins + 1, orphan |-> FALSE]
    /\ UNCHANGED <<now, world, mode, store, contexts, requests, route, back, nav, shown>>

(* ... and after it: stored under the context the backend resolved.        *)
Verified ==
    /\ verify # None /\ Target(verify.ctx) \in known
    /\ store' = setSession(store, Target(verify.ctx), verify.token)
    /\ verify' = None
    /\ push(IF route = "login" THEN back ELSE "overview", "overview")
    /\ UNCHANGED <<now, world, mode, contexts, requests, logins, route, back, shown>>

VerifyFails ==
    /\ verify # None /\ verify' = None
    /\ UNCHANGED <<now, world, mode, store, contexts, requests, logins, route, back, nav, shown>>

-----------------------------------------------------------------------------
(* main.ts: the mode is known once the probe answers, fails or times out.  *)
resolveAuthMode ==
    /\ mode = "probing"
    /\ mode' \in {"token"} \cup (IF backendLocal THEN {"kubeconfig"} ELSE {})
    /\ UNCHANGED <<now, world, store, contexts, requests, verify, logins, route, back, nav, shown>>

Reload ==
    /\ route # "start"
    /\ mode' = "probing" /\ store' = restored(store.disk)
    /\ contexts' = None /\ requests' = {} /\ verify' = None
    /\ route' = "start" /\ shown' = None
    /\ nav' = [to |-> route, back |-> back, guarded |-> FALSE]
    /\ UNCHANGED <<now, world, logins, back>>

Tick ==
    /\ now < Horizon /\ now' = now + 1
    /\ UNCHANGED <<world, mode, store, contexts, requests, verify, logins, route, back, nav, shown>>

(* A context leaves the kubeconfig.                                        *)
ContextGoes(c) ==
    /\ known = Contexts /\ known # {c} /\ known' = known \ {c}
    /\ default' \in IF default = c THEN known' ELSE {default}
    /\ UNCHANGED <<now, backendLocal, mode, store, contexts, requests, verify, logins,
                   route, back, nav, shown>>

Next ==
    \/ Guard \/ Land \/ FetchData \/ FetchContexts
    \/ \E page \in Pages : Follow(page)
    \/ \E q \in requests :
          FetchFails(q) \/ DataArrives(q) \/ Unauthorized(q) \/ UnknownContext(q) \/ ContextsArrive(q)
    \/ \E c \in Contexts : switchContext(c) \/ pick(c) \/ ContextGoes(c)
    \/ logout \/ submit \/ Verified \/ VerifyFails
    \/ resolveAuthMode \/ Reload \/ Tick

Spec == Init /\ [][Next]_vars

-----------------------------------------------------------------------------
Stored == [token : 1..MaxLogins, expiresAt : 1..(Horizon + TTL)]

(* Every piece of the tab's state has its type.                            *)
TypeOK ==
    /\ now \in 0..Horizon /\ known \subseteq Contexts /\ default \in known
    /\ mode \in {"probing", "token", "kubeconfig"}
    /\ store.active \in Names
    /\ DOMAIN store.sessions \subseteq Contexts
    /\ \A c \in DOMAIN store.sessions : store.sessions[c] \in Stored
    /\ route \in Pages \cup {"start", "login"} /\ shown \in Names
    /\ store.fetching \subseteq requests

(* What a session fetched (lists, Secret payloads, chart buffers) is not   *)
(* in any cache once the session is gone, whichever way it ended: sign     *)
(* out, 401, TTL, or a context that left the kubeconfig.                   *)
CachesDieWithSession ==
    ~backendLocal => \A c \in Names : store.cache[c] # {} => c \in DOMAIN store.sessions

(* Once no navigation is under way, a detail page shows an object of the   *)
(* cluster its Delete and Apply buttons are addressed to.                  *)
DetailOfActive ==
    route = "resource-detail" /\ nav = None => shown \in {store.active, None}

Refusal(c) == \E q \in requests : q.ctx = c /\ Refusable(q) /\ q \notin requests'

(* A session ends, and the selection changes, only for a cause of its own: *)
(* a late answer about one cluster leaves every other cluster's session,   *)
(* and the user's choice of another cluster, alone, and a reload brings    *)
(* back exactly the selection and the unexpired sessions the tab had.      *)
OwnCauseOnly ==
    [][/\ Reload => /\ store'.active = store.active
                    /\ store'.sessions = Without(store.sessions, Expired(store))
       /\ \A c \in DOMAIN store.sessions \ DOMAIN store'.sessions :
            \/ c \in Expired(store) \/ c \notin known \/ Refusal(c)
            \/ c = store.active /\ logout
       /\ store'.active # store.active =>
            \/ store.active = None \/ store.active \notin known
            \/ \E c \in Contexts : switchContext(c) \/ pick(c)
            \/ verify # None /\ verify' = None]_vars
=============================================================================
