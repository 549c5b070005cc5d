---------------------------- MODULE ResourceDialogs ----------------------------
(***************************************************************************)
(* What the detail page's header does to an object: the kind-specific      *)
(* actions (ResourceActions, ResourceActionDialog) and Delete              *)
(* (DeleteConfirmDialog).  An open dialog is modal, but Escape closes it   *)
(* with its request in flight, and the browser's Back works under it.      *)
(***************************************************************************)
EXTENDS DetailPage

VARIABLES
    chosen,       \* ResourceActions' state, or None while no object is on screen
    dialog,       \* the mounted action dialog, or None while the object has no actions
    del,          \* the delete dialog, as old as the page
    writes,       \* requests in flight; mine: the dialog that sent it is still mounted
    acked,        \* history: per target, the newest content a mounted dialog reported done
    told          \* history: per target, the newest content a success toast reported

history == <<acked, told>>
dialogVars == <<chosen, dialog, del, writes, history>>

NothingChosen == [open |-> FALSE, action |-> None]
DeleteDialog == [open |-> FALSE, confirmation |-> None, busy |-> FALSE, failed |-> FALSE]

(* A new action dialog: zero replicas and no job name until an opening     *)
(* seeds them.                                                             *)
ActionDialog == [input |-> "unseeded", busy |-> FALSE, failed |-> FALSE]

DialogInit ==
    /\ chosen = None /\ dialog = None /\ del = DeleteDialog /\ writes = {}
    /\ acked = [t \in Targets |-> 0] /\ told = [t \in Targets |-> 0]

(* The registry: a toggle offers the half the object's spec calls for.     *)
actionsFor(o) ==
    CASE kind(o) = "Owner" -> {"scale", "restart"}
      [] kind(o) = "Other" -> {"trigger", IF o.held THEN "resume" ELSE "suspend"}
      [] kind(o) = "Node" -> {IF o.held THEN "uncordon" ELSE "cordon"}
      [] OTHER -> {}

ActionShown == dialog # None /\ chosen.open

modal == del.open \/ ActionShown

-----------------------------------------------------------------------------
(* A button of the header, and the dialog's watch on its opening.          *)
start(action) ==
    /\ dialog # None /\ ~modal
    /\ chosen' = [open |-> TRUE, action |-> action]
    /\ dialog' = [dialog EXCEPT !.input = "valid", !.failed = FALSE]
    /\ UNCHANGED <<page, del, writes, history>>

(* The replica stepper and the job name field.                             *)
Edit(input) ==
    /\ ActionShown /\ chosen.action \in {"scale", "trigger"} /\ dialog.input # input
    /\ dialog' = [dialog EXCEPT !.input = input]
    /\ UNCHANGED <<page, chosen, del, writes, history>>

(* A patch or a create for an action, a delete: one request on its way.    *)
Request(verb, to, hits) == [verb |-> verb, to |-> to, hits |-> hits, done |-> None, mine |-> TRUE]

(* Zero replicas will do, an empty job name will not.                      *)
canRun ==
    CASE chosen.action = "scale" -> dialog.input # "invalid"
      [] chosen.action = "trigger" -> dialog.input = "valid"
      [] OTHER -> TRUE

(* perform: a manual Job goes to its own collection and is made from a     *)
(* CronJob's template; only a workload has a scale subresource.            *)
perform(action) ==
    Request(action, object.of,
            IF action = "trigger" THEN kind(object) = "Other"
            ELSE Addressed /\ (action = "scale" => kind(object) = "Owner"))

(* run() up to perform's await.                                            *)
runAction ==
    /\ ActionShown /\ ~dialog.busy /\ canRun
    /\ dialog' = [dialog EXCEPT !.busy = TRUE, !.failed = FALSE]
    /\ writes' = writes \cup {perform(chosen.action)}
    /\ UNCHANGED <<page, chosen, del, history>>

Dismiss ==
    /\ ActionShown /\ chosen' = [chosen EXCEPT !.open = FALSE]
    /\ UNCHANGED <<page, dialog, del, writes, history>>

-----------------------------------------------------------------------------
OpenDelete ==
    /\ object # None /\ ~modal
    /\ del' = [del EXCEPT !.open = TRUE, !.confirmation = None, !.failed = FALSE]
    /\ UNCHANGED <<page, chosen, dialog, writes, history>>

TypeName(t) ==
    /\ del.open /\ del.confirmation # t /\ del' = [del EXCEPT !.confirmation = t]
    /\ UNCHANGED <<page, chosen, dialog, writes, history>>

canDelete == del.confirmation = target

runDelete ==
    /\ del.open /\ ~del.busy /\ canDelete
    /\ del' = [del EXCEPT !.busy = TRUE, !.failed = FALSE]
    /\ writes' = writes \cup {Request("delete", target, TRUE)}
    /\ UNCHANGED <<page, chosen, dialog, history>>

DismissDelete ==
    /\ del.open /\ del' = [del EXCEPT !.open = FALSE]
    /\ UNCHANGED <<page, chosen, dialog, writes, history>>

-----------------------------------------------------------------------------
(* What a patch can change: a dialog left open over an object of another   *)
(* kind sends fields its kind does not have, and the server drops them.    *)
Takes(o, verb) ==
    CASE kind(o) = "Owner" -> verb \in {"scale", "restart"}
      [] kind(o) = "Other" -> verb \in {"suspend", "resume"}
      [] kind(o) = "Node" -> verb \in {"cordon", "uncordon"}
      [] OTHER -> FALSE

(* The object after a request: made anew, patched, or as it was (the       *)
(* template of a new Job, say).                                            *)
CarriedOut(o, verb, content) ==
    CASE verb = "delete" -> Anew(o, content)
      [] verb # "delete" /\ Takes(o, verb) ->
             [o EXCEPT !.content = content,
                       !.held = verb \in {"suspend", "cordon"} \/
                                (@ /\ verb \notin {"resume", "uncordon"})]
      [] OTHER -> o

(* The API server carries a request out; its answer travels on its own.    *)
Carried(w) ==
    /\ w.done = None /\ w.hits /\ edits < MaxEdits /\ edits' = edits + 1
    /\ server' = [server EXCEPT ![w.to] = CarriedOut(@, w.verb, edits')]
    /\ writes' = (writes \ {w}) \cup {[w EXCEPT !.done = server'[w.to].content]}
    /\ UNCHANGED <<target, loadVars, tabVars, owned, chosen, dialog, del, history>>

(* A history after the success of w.                                       *)
Reported(h, w) == [h EXCEPT ![w.to] = IF @ < w.done THEN w.done ELSE @]

SlipDone(w) ==
    /\ w.done # None /\ w.verb # "delete" /\ w.mine /\ writes' = writes \ {w}
    /\ chosen' = [chosen EXCEPT !.open = FALSE] /\ dialog' = [dialog EXCEPT !.busy = FALSE]
    /\ acked' = Reported(acked, w) /\ told' = Reported(told, w)
    /\ UNCHANGED <<page, del>>

(* The action succeeded: a toast, the dialog closes, whatever it shows by  *)
(* now, and the page loads its object again.                               *)
Done(w) ==
    /\ w.done # None /\ w.verb # "delete" /\ w.mine /\ writes' = writes \ {w}
    /\ chosen' = [chosen EXCEPT !.open = FALSE] /\ dialog' = [dialog EXCEPT !.busy = FALSE]
    /\ acked' = Reported(acked, w) /\ told' = Reported(told, w)
    /\ refresh
    /\ UNCHANGED <<backend, target, object, tabVars, owned, del>>

(* The object is gone: a toast, and on to the list, whatever the page      *)
(* shows by now.                                                           *)
onDeleted(w) ==
    /\ w.done # None /\ w.verb = "delete" /\ w.mine
    /\ Leave /\ UNCHANGED owned /\ Bounce
    /\ chosen' = None /\ dialog' = None /\ del' = DeleteDialog
    /\ writes' = {[x EXCEPT !.mine = FALSE] : x \in writes \ {w}}
    /\ acked' = Reported(acked, w) /\ told' = Reported(told, w)

(* A success that an unmounted dialog hears of: run() still pushes its     *)
(* toast, but Vue drops the emits, so nothing closes or loads again.       *)
DoneUnmounted(w) ==
    /\ w.done # None /\ ~w.mine /\ writes' = writes \ {w}
    /\ told' = Reported(told, w)
    /\ UNCHANGED <<page, chosen, dialog, del, acked>>

(* A refusal, a missing target, or an answer lost on its way: the error is *)
(* the dialog's, and an unmounted one shows it to nobody.                  *)
Failed(w) ==
    /\ writes' = writes \ {w}
    /\ del' = IF w.mine /\ w.verb = "delete" THEN [del EXCEPT !.busy = FALSE, !.failed = TRUE] ELSE del
    /\ dialog' = IF w.mine /\ w.verb # "delete" THEN [dialog EXCEPT !.busy = FALSE, !.failed = TRUE] ELSE dialog
    /\ UNCHANGED <<page, chosen, history>>

-----------------------------------------------------------------------------
(* The page's steps seen from its dialogs: ResourceActions lives while an  *)
(* object is on screen, its dialog only while that object has actions, so  *)
(* an open dialog may come back unseeded after an object without any.      *)
DialogsFollow ==
    /\ UNCHANGED owned /\ Bounce
    /\ chosen' = IF object' = None THEN None ELSE IF chosen = None THEN NothingChosen ELSE chosen
    /\ dialog' = IF actionsFor(object') = {} THEN None
                 ELSE IF dialog = None THEN ActionDialog ELSE dialog
    /\ del' = IF target' = None THEN DeleteDialog ELSE del
    /\ writes' = {[w EXCEPT !.mine = @ /\ target' # None /\ (w.verb = "delete" \/ dialog' # None)] :
                     w \in writes}
    /\ UNCHANGED history

DialogNext ==
    \/ PageStep /\ (ClickRefresh => ~modal) /\ DialogsFollow
    \/ \E a \in actionsFor(object) : start(a)
    \/ \E input \in {"valid", "invalid"} : Edit(input)
    \/ runAction \/ Dismiss \/ OpenDelete \/ runDelete \/ DismissDelete
    \/ \E t \in Targets : TypeName(t)
    \/ \E w \in writes : Carried(w) \/ Done(w) \/ onDeleted(w) \/ DoneUnmounted(w) \/ Failed(w)

DialogSpec == PageInit /\ DialogInit /\ [][DialogNext]_<<page, dialogVars>>

-----------------------------------------------------------------------------
(* A success reported by a dialog still mounted is on screen: once the     *)
(* loads have settled, the page shows the object with every change such a  *)
(* dialog said it made to it (the emits of ResourceActionDialog's run()    *)
(* and the refresh they ask for), whatever loads were in flight when the   *)
(* change was made.                                                        *)
OwnWritesShown ==
    target # None /\ object # None /\ ~loading /\ ~error =>
        object.content >= acked[target]

(* "performs the targeted PATCH/POST itself and reports the outcome", and  *)
(* a reported change is emitted: every change of the object that a success *)
(* toast has announced, a dialog's that is unmounted by then included, is  *)
(* on screen once the loads have settled.                                  *)
ReportedShown ==
    target # None /\ object # None /\ ~loading /\ ~error =>
        object.content >= told[target]
=============================================================================
