--------------------------- MODULE FileReception ---------------------------
(***************************************************************************)
(* What a reception promises its user: a file of n blocks arrives block by *)
(* block, none is taken back, and success is reported when, and only when, *)
(* all of them are there.                                                  *)
(***************************************************************************)
EXTENDS Integers

CONSTANT MaxPkts   \* a positive number

VARIABLES n, got, state

vars == <<n, got, state>>

Init == n = 0 /\ got = {} /\ state = "off"

Begin ==
  /\ state = "off"
  /\ n' \in 1..MaxPkts /\ got' = {} /\ state' = "on"

Save(k) ==
  /\ state = "on" /\ k \in (1..n) \ got
  /\ got' = got \cup {k}
  /\ UNCHANGED <<n, state>>

Succeed ==
  /\ state = "on" /\ got = 1..n
  /\ state' = "success"
  /\ UNCHANGED <<n, got>>

End ==
  /\ state # "off"
  /\ n' = 0 /\ got' = {} /\ state' = "off"

Next == Begin \/ (\E k \in 1..MaxPkts : Save(k)) \/ Succeed \/ End

Spec == Init /\ [][Next]_vars
=============================================================================
