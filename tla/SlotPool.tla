------------------------------- MODULE SlotPool -------------------------------
(***************************************************************************)
(* What a counting pool of slots promises: the holders are a set (nobody   *)
(* holds two slots), a slot is taken only while one is free, and it is     *)
(* given back exactly once per taking, by the one who took it.             *)
(* The exec bridge keeps two such pools as buffered channels of empty      *)
(* structs (Handler.pending and Handler.sessions); ExecAdmission is shown  *)
(* to implement this specification for each of them.                       *)
(***************************************************************************)
EXTENDS Integers

CONSTANTS Clients,    \* who may hold a slot
          Capacity    \* how many slots there are

VARIABLES holders,    \* who holds one
          free        \* how many are left

pool == <<holders, free>>

Init == holders = {} /\ free = Capacity

Take(c) ==
    /\ c \notin holders /\ free > 0
    /\ holders' = holders \cup {c}
    /\ free' = free - 1

Give(c) ==
    /\ c \in holders
    /\ holders' = holders \ {c}
    /\ free' = free + 1

Next == \E c \in Clients : Take(c) \/ Give(c)

Spec == Init /\ [][Next]_pool
===============================================================================
