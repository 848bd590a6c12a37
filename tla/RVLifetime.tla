----------------------------- MODULE RVLifetime -----------------------------
(***************************************************************************)
(* What reference counting of file structs promises: a struct comes to     *)
(* life with its first user, stays alive while it has users, and dies in   *)
(* the very step in which the last one leaves.                             *)
(***************************************************************************)
CONSTANTS Slot,  \* addresses of file structs
          User   \* who may hold one

VARIABLES alive,  \* structs in use
          users   \* who holds each of them

vars == <<alive, users>>

Init == alive = {} /\ users = [d \in Slot |-> {}]

Start(d, x) ==
  /\ d \notin alive
  /\ alive' = alive \cup {d}
  /\ users' = [users EXCEPT ![d] = {x}]

Join(d, x) ==
  /\ d \in alive
  /\ x \notin users[d]
  /\ users' = [users EXCEPT ![d] = @ \cup {x}]
  /\ UNCHANGED alive

Leave(d, x) ==
  /\ x \in users[d]
  /\ users' = [users EXCEPT ![d] = @ \ {x}]
  /\ alive' = IF users[d] = {x} THEN alive \ {d} ELSE alive

Next == \E d \in Slot, x \in User : Start(d, x) \/ Join(d, x) \/ Leave(d, x)

Spec == Init /\ [][Next]_vars
=============================================================================
