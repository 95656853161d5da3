--------------------------- MODULE TransferSession ---------------------------
(***************************************************************************)
(* TransferSession (src/src/transfer/decision.rs): the life of one         *)
(* transfer at the receiving side, as the library defines it. Each method  *)
(* changes the state in the states it accepts and returns an error in the  *)
(* others, which changes nothing. tailsfer-node keeps no such session; in  *)
(* Transfer each of its tasks is shown to go through one.                  *)
(***************************************************************************)
VARIABLE state      \* TransferState

new == state = "Offered"

accept == state = "Offered" /\ state' = "Accepted"

reject == state = "Offered" /\ state' = "Rejected"

begin_receiving == state = "Accepted" /\ state' = "Receiving"

complete == state = "Receiving" /\ state' = "Completed"

cancel == /\ state \in {"Offered", "Accepted", "Receiving"}
          /\ state' = "Cancelled"

can_receive_chunks == state \in {"Accepted", "Receiving"}

\* Any of the methods.
Next == accept \/ reject \/ begin_receiving \/ complete \/ cancel

\* A session whose every change is one of its methods.
Spec == new /\ [][Next]_state
=============================================================================
