------------------------------ MODULE Turnstile -----------------------------
(***************************************************************************)
(* What server_update_wait and server_update_signal promise: the updates   *)
(* are handed out numbers, each is called once, in the order of the        *)
(* numbers, and none is skipped.                                           *)
(***************************************************************************)
EXTENDS Naturals

CONSTANT Limit           \* the numbers a run hands out
VARIABLES issued, served

Init == issued = 0 /\ served = 0

Take  == /\ issued < Limit
         /\ issued' = issued + 1 /\ UNCHANGED served

Serve == /\ served < issued
         /\ served' = served + 1 /\ UNCHANGED issued

Next == Take \/ Serve

Spec == Init /\ [][Next]_<<issued, served>> /\ WF_<<issued, served>>(Serve)
=============================================================================
