-------------------------------- MODULE Rules -------------------------------
(***************************************************************************)
(* What the server promises about players, as the tests of game_server.c   *)
(* tell it (server-test.c, Tag Player and Test Freeing): players come and  *)
(* go, a free player jails an opponent, and one free player who enters the *)
(* enemy jail frees every jailed team mate at once.  Module Game           *)
(* implements this specification.                                          *)
(***************************************************************************)
CONSTANT Player          \* the slots, pairs <<team, id>>
VARIABLE status          \* "out", "free" or "jailed"

SameTeam(p, q) == p[1] = q[1]

Init == status = [p \in Player |-> "out"]

Enter(p) == /\ status[p] = "out"
            /\ status' = [status EXCEPT ![p] = "free"]

Leave(p) == /\ status[p] # "out"
            /\ status' = [status EXCEPT ![p] = "out"]

Tag(p, q) == /\ ~SameTeam(p, q) /\ status[p] = "free" /\ status[q] = "free"
             /\ status' = [status EXCEPT ![q] = "jailed"]

(* A rescue frees all the prisoners of the team of p and nobody else.      *)
Rescue(p) ==
  /\ status[p] = "free"
  /\ status' = [q \in Player |-> IF SameTeam(p, q) /\ status[q] = "jailed"
                                 THEN "free" ELSE status[q]]

Next == \E p \in Player : \/ Enter(p) \/ Leave(p) \/ Rescue(p)
                          \/ \E q \in Player : Tag(p, q)

Spec == Init /\ [][Next]_status
=============================================================================
