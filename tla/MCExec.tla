-------------------------------- MODULE MCExec --------------------------------
(***************************************************************************)
(* Two parts of the exec bridge that share no state, so a behaviour is one *)
(* part's: the admission of connections, or the stdin path of one session. *)
(*                                                                         *)
(* Admission: one session slot, so two pending slots, and three            *)
(* connections from two addresses, two handshakes each: every pool can be  *)
(* full and refuse.  Stdin: six frames of uneven sizes, an empty one among *)
(* them, against a cap that two or three of them fill: the exact fit and   *)
(* the refusal both happen.                                                *)
(***************************************************************************)
EXTENDS ExecAdmission, StdinQueue

CONSTANTS c1, c2, c3, ip1, ip2

VARIABLE part

MCConns == {c1, c2, c3}
MCIPs == {ip1, ip2}
MCLength == <<2, 0, 1, 3, 0, 2>>

execVars == <<part, vars, stdinVars>>

ExecInit == part \in {"admission", "stdin"} /\ Init /\ StdinInit

ExecNext ==
    /\ UNCHANGED part
    /\ \/ part = "admission" /\ Next /\ UNCHANGED stdinVars
       \/ part = "stdin" /\ StdinNext /\ UNCHANGED vars

(* The part that runs is scheduled as its own module says.                 *)
ExecSpec ==
    /\ ExecInit /\ [][ExecNext]_execVars
    /\ part = "admission" => AdmissionFairness
    /\ part = "stdin" => StdinFairness
=============================================================================
