------------------------------- MODULE PodLogs --------------------------------
(***************************************************************************)
(* The Logs tab: PodLogsTab drives one log stream from the pod, container  *)
(* and options chosen; WorkloadLogsTab picks the pod among its owner's and *)
(* fetches it; LogViewer shows the buffer or, filtered, the hits.          *)
(*                                                                         *)
(* A source is a pod's name and a container.  Tail, timestamps and         *)
(* previous restart the stream exactly as follow does and are left out.    *)
(***************************************************************************)
EXTENDS LogsStream

CONSTANTS
    Pods, Containers,
    DefaultContainer, \* defaultContainerName of every pod
    MaxGets           \* bound: loadId

ASSUME TabAssumption ==
    /\ Sources = Pods \X Containers
    /\ DefaultContainer \in Containers /\ None \notin Pods
    /\ MaxGets \in Nat

VARIABLES
    choices, selected,   \* the owner's pods and the picked name
    pod,                 \* the pod PodLogsTab is mounted with
    gets, loadId, loading, loadError,
    container, follow

picker == <<choices, selected, gets, loadId, loading, loadError>>
tab == <<pod, container, follow>>
vars == <<stream, picker, tab>>

Get == [id : 1..MaxGets, name : Pods]

TabTypeOK ==
    /\ TypeOK
    /\ choices \subseteq Pods /\ {selected, pod} \subseteq Pods \cup {None}
    /\ gets \subseteq Get /\ loadId \in 0..MaxGets
    /\ {loading, loadError, follow} \subseteq BOOLEAN
    /\ container \in Containers

-----------------------------------------------------------------------------
(* PodLogsTab.                                                             *)

(* An in-place pod change: the default container, and a new stream.  The   *)
(* option watcher then finds the URL it would ask for already started.     *)
selectDefaultContainerAndRestart(p) ==
    /\ container' = DefaultContainer
    /\ start(<<p, DefaultContainer>>, follow, debounced)
    /\ UNCHANGED <<query, follow>>

(* Mounting: a new stream and a new search.                                *)
Mount(p) ==
    /\ container' = DefaultContainer /\ follow' = TRUE
    /\ query' = None
    /\ start(<<p, DefaultContainer>>, TRUE, None)

(* The option watcher: another container, or follow toggled.               *)
ChangeOptions(c, f) ==
    /\ pod # None /\ <<c, f>> # <<container, follow>>
    /\ generation < MaxStarts
    /\ container' = c /\ follow' = f
    /\ start(<<pod, c>>, f, debounced)
    /\ UNCHANGED <<picker, pod, query>>

(* The reload button.                                                      *)
restart ==
    /\ pod # None /\ generation < MaxStarts
    /\ start(<<pod, container>>, follow, debounced)
    /\ UNCHANGED <<picker, tab, query>>

-----------------------------------------------------------------------------
(* WorkloadLogsTab.                                                        *)

(* loadPod(): no pod to load unmounts PodLogsTab, which stops its stream.  *)
loadPod(name) ==
    /\ loadId < MaxGets /\ loadId' = loadId + 1
    /\ loadError' = FALSE
    /\ loading' = (name # None)
    /\ gets' = IF name = None THEN gets
               ELSE gets \cup {[id |-> loadId + 1, name |-> name]}
    /\ pod' = IF name = None THEN None ELSE pod
    /\ IF name = None /\ pod # None
       THEN generation < MaxStarts /\ stop ELSE UNCHANGED stream

(* The page hands over a new resolution: the pick survives by name, else   *)
(* falls to the default, here any of the choices; both are fetched again.  *)
NewChoices(cs) ==
    /\ choices' = cs
    /\ selected' \in IF selected \in cs THEN {selected}
                     ELSE IF cs = {} THEN {None} ELSE cs
    /\ loadPod(selected')
    /\ UNCHANGED <<container, follow>>

pick(name) ==
    /\ name \in choices /\ name # selected
    /\ selected' = name
    /\ loadPod(name)
    /\ UNCHANGED <<choices, container, follow>>

SlipGetAnswered(g, recreated) ==
    /\ gets' = gets \ {g}
    /\ loading' = FALSE
    /\ pod' = g.name
    /\ IF pod = None THEN generation < MaxStarts /\ Mount(g.name)
       ELSE IF g.name # pod \/ recreated
            THEN generation < MaxStarts /\ selectDefaultContainerAndRestart(g.name)
       ELSE UNCHANGED <<stream, container, follow>>
    /\ UNCHANGED <<choices, selected, loadId, loadError>>

(* The pod arrives.  The first one mounts PodLogsTab; later it restarts    *)
(* when the uid is another one, under another name or recreated.           *)
GetAnswered(g, recreated) ==
    /\ gets' = gets \ {g}
    /\ IF g.id # loadId
       THEN UNCHANGED <<stream, loading, pod, container, follow>>
       ELSE /\ loading' = FALSE
            /\ pod' = g.name
            /\ IF pod = None THEN generation < MaxStarts /\ Mount(g.name)
               ELSE IF g.name # pod \/ recreated
                    THEN /\ generation < MaxStarts
                         /\ selectDefaultContainerAndRestart(g.name)
               ELSE UNCHANGED <<stream, container, follow>>
    /\ UNCHANGED <<choices, selected, loadId, loadError>>

GetFailed(g) ==
    /\ gets' = gets \ {g}
    /\ IF g.id # loadId THEN UNCHANGED <<loading, loadError>>
       ELSE loading' = FALSE /\ loadError' = TRUE
    /\ UNCHANGED <<stream, choices, selected, loadId, tab>>

-----------------------------------------------------------------------------
Init ==
    /\ StreamInit
    /\ choices = {} /\ selected = None /\ pod = None
    /\ gets = {} /\ loadId = 0 /\ loading = FALSE /\ loadError = FALSE
    /\ container = DefaultContainer /\ follow = TRUE

Next ==
    \/ StreamNext /\ UNCHANGED <<picker, tab>>
    \/ \E c \in Containers, f \in BOOLEAN : ChangeOptions(c, f)
    \/ restart
    \/ \E cs \in SUBSET Pods : NewChoices(cs)
    \/ \E p \in Pods : pick(p)
    \/ \E g \in gets, recreated \in BOOLEAN : GetAnswered(g, recreated)
    \/ \E g \in gets : GetFailed(g)

Spec == Init /\ [][Next]_vars

-----------------------------------------------------------------------------
(* LogViewer, with the Filter box on or off: the rows, the buffer line a   *)
(* row shows, and the row a jump brings into view.                         *)
filtering(filter) == filter /\ debounced # None
count(filter) == IF filtering(filter) THEN Len(matches) ELSE Len(lines)
lineIndexOf(filter, row) == IF filtering(filter) THEN matches[row] ELSE row
activeLine == IF active = None THEN 0 ELSE matches[active]

jumpRow(filter) == IF filtering(filter) THEN active ELSE matches[active]

(* The hits are exactly the matching lines of the buffer, and, filtered or *)
(* not, through every flush, the row a jump centres shows the selected hit.*)
HitsShown ==
    /\ SearchExact
    /\ active # None => \A filter \in BOOLEAN :
          /\ jumpRow(filter) \in 1..count(filter)
          /\ lineIndexOf(filter, jumpRow(filter)) = activeLine

(* When the tab has settled without an error, the pod it streams is the    *)
(* one picked, whatever order the GETs answered in; and the spinner turns  *)
(* exactly while the newest GET is pending.                                *)
PickIsShown ==
    /\ loading <=> \E g \in gets : g.id = loadId
    /\ ~loading /\ ~loadError => pod = selected
    /\ pod # None => source = <<pod, container>>
===============================================================================
