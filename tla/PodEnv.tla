-------------------------------- MODULE PodEnv --------------------------------
(***************************************************************************)
(* The Env tab of a Pod: the ConfigMaps and Secrets its containers refer   *)
(* to, fetched through the query cache, the variables they and the specs   *)
(* amount to (utils/podEnv.ts), and the set of revealed Secret values      *)
(* (useReveal).  The pods share one namespace and one cluster.  A variable *)
(* name is a sequence of parts, so that a prefix and a key can spell what  *)
(* another entry is called; rows are a set (their order is layout).  A     *)
(* source is <<"ConfigMap" or "Secret", name>>, or the <<label>> of a      *)
(* value from no object.                                                   *)
(***************************************************************************)
EXTENDS DetailPage, SequencesExt

CONSTANTS
    Declarations,   \* the container lists a Pod is made with
    Debug,          \* the ephemeral containers an edit adds
    Data            \* what each <<resource, name>> holds: keys to values

VARIABLES
    declared,       \* per Pod, its containers
    mounted,        \* the tab is on screen
    signedIn,       \* auth.isAuthenticated
    cache, fetching,\* the query cache: maps by query key, keys in flight
    revealed        \* useReveal: keys, each with the uid it was revealed on

envVars == <<declared, mounted, signedIn, cache, fetching, revealed>>

Pods == {t \in Targets : Kind[t] = "Pod"}

EnvInit ==
    /\ declared \in [Pods -> Declarations]
    /\ mounted = FALSE /\ signedIn = TRUE /\ cache = <<>> /\ fetching = {} /\ revealed = {}

allContainers(o) == declared[o.of] \o (IF o.content > 0 THEN Debug ELSE <<>>)

-----------------------------------------------------------------------------
(* collectEnvSourceNames, and the query keys made of them.                 *)
collectEnvSourceNames(o, res) ==
    UNION {{e.source[2] : e \in {e \in Range(c.env) \cup Range(c.envFrom) : e.source[1] = res}}
        : c \in Range(allContainers(o))}

queryKey(o, res) == [resource |-> res, names |-> collectEnvSourceNames(o, res)]

queryKeys(o) == {queryKey(o, res) : res \in {"ConfigMap", "Secret"}}

(* The two maps as the resolver: what each source holds, or None where it  *)
(* could not be read.                                                      *)
resolver(o) ==
    [s \in UNION {{<<k.resource, n>> : n \in k.names} : k \in queryKeys(o)}
        |-> cache[queryKey(o, s[1])][s[2]]]

read(maps, s) == IF s \in DOMAIN maps THEN maps[s] ELSE None

-----------------------------------------------------------------------------
valueKind(s) == IF s[1] = "Secret" THEN "secret" ELSE "configmap"

resolveKeyRef(maps, e) ==
    LET data == read(maps, e.source)
        missing == data = None \/ e.key \notin DOMAIN data
    IN [kind |-> IF missing THEN "missing" ELSE valueKind(e.source),
        value |-> IF missing THEN None ELSE data[e.key], source |-> e.source]

resolveEnvVar(maps, e) ==
    IF Len(e.source) = 1 THEN [kind |-> e.kind, value |-> e.key, source |-> e.source]
    ELSE resolveKeyRef(maps, e)

envRow(c, name, v) ==
    [container |-> c.name, containerType |-> c.type, name |-> name,
     kind |-> v.kind, value |-> v.value, source |-> v.source]

placeholder(c, f) ==
    envRow(c, f.prefix \o <<"*">>, [kind |-> "missing", value |-> None, source |-> f.source])

(* A bulk import, into the rows merged so far: what it offers overrides    *)
(* them; one that cannot be read leaves a placeholder under a key no       *)
(* variable has.                                                           *)
expandEnvFrom(maps, c, merged, f) ==
    LET data == read(maps, f.source)
        offered == {<<None, f.prefix \o k>> : k \in DOMAIN data}
    IN (IF data = None
        THEN <<f.source, f.prefix>> :> placeholder(c, f)
        ELSE [n \in offered |->
                envRow(c, n[2], [kind |-> valueKind(f.source), source |-> f.source,
                                 value |-> data[SubSeq(n[2], Len(f.prefix) + 1, Len(n[2]))]])]) @@ merged

overrideEnv(maps, c, merged, e) ==
    IF e.name = <<>> THEN merged ELSE (<<None, e.name>> :> envRow(c, e.name, resolveEnvVar(maps, e))) @@ merged

mergedRows(maps, c) ==
    FoldLeft(LAMBDA m, e : overrideEnv(maps, c, m, e),
             FoldLeft(LAMBDA m, f : expandEnvFrom(maps, c, m, f), <<>>, c.envFrom), c.env)

buildEnvRows(o, maps) == UNION {Range(mergedRows(maps, c)) : c \in Range(allContainers(o))}

rowKey(row) == <<row.containerType, row.container, row.source, row.name>>

-----------------------------------------------------------------------------
(* What the tab says.                                                      *)
resolved == queryKeys(object) \subseteq DOMAIN cache

rows == IF resolved THEN buildEnvRows(object, resolver(object)) ELSE {}

view ==
    CASE ~signedIn -> "signedOut"
      [] signedIn /\ ~resolved -> "loading"
      [] OTHER -> IF rows = {} THEN "none" ELSE "table"

isRevealed(row) == \E r \in revealed : r.key = rowKey(row)

(* Queries begin to be observed under these keys: one without data, or     *)
(* with data past its stale time, is fetched; without a session none is.   *)
Observe(keys) ==
    IF ~signedIn THEN UNCHANGED fetching
    ELSE \E stale \in SUBSET (keys \cap DOMAIN cache) :
            fetching' = fetching \cup (keys \ DOMAIN cache) \cup stale

SlipReset == UNCHANGED revealed

(* The watch on the object's uid.                                          *)
Reset == IF uidOf(object') # uidOf(object) THEN revealed' = {} ELSE UNCHANGED revealed

(* A step of the page: the tab is one instance for every Pod shown in it,  *)
(* and gone with the object, the tab or the page; only a click mounts it.  *)
EnvFollows ==
    /\ target' # target => target' = None \/ signedIn
    /\ mounted' = (activeTab' = "env" /\ kind(object') = "Pod")
    /\ IF mounted /\ mounted' THEN Reset /\ Observe(queryKeys(object') \ queryKeys(object))
       ELSE revealed' = {} /\ UNCHANGED fetching
    /\ UNCHANGED <<declared, signedIn, cache>>

EnvSelect(t) ==
    /\ SelectTab(t) /\ mounted' = (t = "env") /\ revealed' = {}
    /\ IF t = "env" THEN Observe(queryKeys(object)) ELSE UNCHANGED fetching
    /\ UNCHANGED <<declared, signedIn, cache>>

(* fetchMap settles: every name of the key, read or null.                  *)
fetchMap(k, ok) ==
    /\ cache' = (k :> [n \in k.names |-> IF n \in ok THEN Data[<<k.resource, n>>] ELSE None]) @@ cache
    /\ fetching' = fetching \ {k}
    /\ UNCHANGED <<page, declared, mounted, signedIn, revealed>>

toggle(row) ==
    LET key == rowKey(row)
    IN /\ view = "table" /\ row.kind = "secret"
       /\ revealed' = IF isRevealed(row) THEN {r \in revealed : r.key # key}
                      ELSE revealed \cup {[key |-> key, on |-> uidOf(object)]}
       /\ UNCHANGED <<page, declared, mounted, signedIn, cache, fetching>>

(* The session ends under the open tab: its queries go, in flight or not.  *)
(* The way back in leads over another page.                                *)
SessionEnds ==
    /\ signedIn /\ target # None /\ signedIn' = FALSE /\ cache' = <<>> /\ fetching' = {}
    /\ UNCHANGED <<page, declared, mounted, revealed>>

SignIn == ~signedIn /\ target = None /\ signedIn' = TRUE /\ UNCHANGED <<page, declared, mounted, cache, fetching, revealed>>

EnvNext ==
    \/ PageStep /\ UNCHANGED owned /\ Bounce /\ EnvFollows
    \/ \E t \in {"overview", "env"} : EnvSelect(t)
    \/ \E k \in fetching : \E ok \in SUBSET k.names : fetchMap(k, ok)
    \/ mounted /\ \E row \in rows : toggle(row)
    \/ SessionEnds \/ SignIn

-----------------------------------------------------------------------------
Offered(maps, f) ==
    IF read(maps, f.source) = None THEN {} ELSE {f.prefix \o k : k \in DOMAIN maps[f.source]}

(* The variables by Kubernetes' precedence: the last env entry of a name,  *)
(* else the last readable import offering it (an import that cannot be     *)
(* read stands for itself).  As in podEnv.ts, an `optional` reference is   *)
(* one like any other.                                                     *)
Effective(maps, c, n) ==
    LET own == {i \in DOMAIN c.env : c.env[i].name = n}
        last == c.envFrom[Max({i \in DOMAIN c.envFrom : n \in Offered(maps, c.envFrom[i])})]
    IN IF own # {} THEN resolveEnvVar(maps, c.env[Max(own)])
       ELSE [kind |-> valueKind(last.source), source |-> last.source,
             value |-> maps[last.source][CHOOSE k \in DOMAIN maps[last.source] : last.prefix \o k = n]]

EffectiveRows(maps, c) ==
    LET names == {e.name : e \in Range(c.env)} \cup UNION {Offered(maps, f) : f \in Range(c.envFrom)}
    IN {envRow(c, n, Effective(maps, c, n)) : n \in names \ {<<>>}} \cup
       {placeholder(c, f) : f \in {f \in Range(c.envFrom) : read(maps, f.source) = None}}

(* The Env tab tells the truth: the table is each container's effective    *)
(* environment with every unreadable import in it, no two rows share a     *)
(* key, a value is decoded only where the user revealed it on this very    *)
(* object, and "Loading..." stands for requests that will end it.          *)
EnvTruthful ==
    mounted =>
        /\ view = "loading" => queryKeys(object) \ DOMAIN cache \subseteq fetching
        /\ \A r1, r2 \in rows : rowKey(r1) = rowKey(r2) => r1 = r2
        /\ \A row \in rows : isRevealed(row) => [key |-> rowKey(row), on |-> uidOf(object)] \in revealed
        /\ view \in {"table", "none"} =>
             rows = UNION {EffectiveRows(resolver(object), c) : c \in Range(allContainers(object))}
=============================================================================
