------------------------------ MODULE Delivery ------------------------------
(***************************************************************************)
(* What a transfer promises the two people at its ends, with no protocol:  *)
(* the receiving side saves the file or refuses it, once and for good, and *)
(* what tailsfer-send reports agrees with that. A report of success means  *)
(* that the file was saved before; a report of rejection that it never     *)
(* will be. An error promises nothing: the file may have been saved.       *)
(***************************************************************************)
CONSTANT Transfers

VARIABLES
  outcome,      \* outcome[t]: "open", then "saved" or "refused"
  verdict       \* verdict[t]: "none", then what the sender reports

vars == <<outcome, verdict>>

Init == /\ outcome = [t \in Transfers |-> "open"]
        /\ verdict = [t \in Transfers |-> "none"]

Save(t) == /\ outcome[t] = "open"
           /\ outcome' = [outcome EXCEPT ![t] = "saved"]
           /\ UNCHANGED verdict

\* A crash of the node refuses every transfer it had not saved.
Refuse(refused) ==
  /\ \A t \in refused : outcome[t] = "open"
  /\ outcome' = [t \in Transfers |-> IF t \in refused THEN "refused" ELSE outcome[t]]
  /\ UNCHANGED verdict

Report(t, said) == /\ verdict[t] = "none"
                   /\ verdict' = [verdict EXCEPT ![t] = said]
                   /\ UNCHANGED outcome

ReportSuccess(t)   == outcome[t] = "saved" /\ Report(t, "success")
ReportRejection(t) == outcome[t] = "refused" /\ Report(t, "rejected")
ReportError(t)     == Report(t, "error")

Next == \/ \E t \in Transfers : \/ Save(t)
                                \/ ReportSuccess(t)
                                \/ ReportRejection(t)
                                \/ ReportError(t)
        \/ \E refused \in SUBSET Transfers : Refuse(refused)

Spec == Init /\ [][Next]_vars
=============================================================================
