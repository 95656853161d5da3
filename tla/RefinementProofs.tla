-------------------------- MODULE RefinementProofs --------------------------
(***************************************************************************)
(* Transfer implements its two abstract specifications: Delivery, what the *)
(* people at both ends are promised, and TransferSession, the states of a  *)
(* transfer at the receiving side. Both follow from where a step can take  *)
(* the two programs and from the invariants of TransferProofs.             *)
(***************************************************************************)
EXTENDS TransferProofs

\* The positions of a task, by the state of its session.
StillOffered == {"none", "awaiting_offer", "prompting", "accepting", "rejecting"}
Taken        == {"checking", "creating"}
InReceipt    == {"receiving", "flushing", "renaming"}
GivenUp      == {"discarding", "failing"}

\* Where a step takes the task of t; a rename saves its file, nothing else does.
TaskMoves(t) ==
  /\ rpc' = [rpc EXCEPT ![t] = rpc'[t]]
  /\ \A s \in Transfers : got'[s] # got[s] => s = t /\ rpc[t] = "receiving"
  /\ \/ /\ saved' = saved
        /\ \/ /\ rpc[t] \in StillOffered \ {"rejecting"}
              /\ rpc'[t] \in StillOffered \union {"checking", "failed"}
           \/ rpc[t] = "rejecting" /\ rpc'[t] \in {"rejected", "failed"}
           \/ rpc[t] \in Taken /\ rpc'[t] \in Taken \union {"receiving", "failing"}
           \/ rpc[t] \in InReceipt /\ rpc'[t] \in InReceipt \union GivenUp
           \/ rpc[t] = "verifying" /\ rpc'[t] \in {"done", "failed"}
           \/ rpc[t] \in GivenUp /\ rpc'[t] \in {"failing", "failed"}
     \/ /\ saved' = saved \union {t}
        /\ rpc[t] = "renaming" /\ rpc'[t] = "verifying"

\* The task moves, or nothing that the abstract views see of the node changes.
NodeView == <<rpc, saved, got>>

Undecided == {"start", "connecting"} \union SenderOnline

\* Where a step takes the sender of t.
SenderMoves(t) ==
  /\ spc' = [spc EXCEPT ![t] = spc'[t]]
  /\ \/ spc[t] \in Undecided
     \/ spc[t] = "complete" /\ spc'[t] = "exited"
     \/ spc'[t] = spc[t]

\* A crash ends every task that had a connection and had not ended.
CrashMoves ==
  /\ saved' = saved /\ got' = got
  /\ rpc' = [t \in Transfers |-> IF rpc[t] \in HandlerEnded \/ nodeEnd[t] = "none"
                                 THEN rpc[t] ELSE "crashed"]

---------------------------------------------------------------------------
\* Every step of a task is one of its moves.
LEMMA HandlerStepMoves ==
  ASSUME ITypeOK, NEW t \in Transfers, HandlerStep(t)
  PROVE  TaskMoves(t)
<1>1. NodeTypeOK
  BY DEF ITypeOK, TypeOK
<1> USE <1>1 DEF NodeTypeOK, TaskMoves, StillOffered, Taken, InReceipt, GivenUp, HandlerGoes
<1>3. CASE NodeAccepts(t)
  BY <1>3 DEF NodeAccepts, diskVars
<1>4. CASE NodeReadsOffer(t)
  BY <1>4 DEF NodeReadsOffer, diskVars
<1>5. CASE NodeOfferFails(t)
  BY <1>5 DEF NodeOfferFails, AfterOfferError, diskVars
<1>6. CASE NodeSendsAccept(t)
  BY <1>6 DEF NodeSendsAccept, diskVars
<1>7. CASE NodeSendsReject(t)
  BY <1>7 DEF NodeSendsReject, AfterReject, diskVars
<1>8. CASE NodeDecisionFails(t)
  BY <1>8 DEF NodeDecisionFails, diskVars
<1>9. CASE NodeChecksDestination(t)
  BY <1>9 DEF NodeChecksDestination, ReceiveFileFails, diskVars
<1>10. CASE NodeCreatesPart(t)
  BY <1>10 DEF NodeCreatesPart
<1>11. CASE NodeReceivesBlock(t)
  BY <1>11 DEF NodeReceivesBlock
<1>12. CASE NodeReceivesFin(t)
  BY <1>12 DEF NodeReceivesFin, diskVars
<1>13. CASE NodeFlushes(t)
  BY <1>13 DEF NodeFlushes, AfterFlush, diskVars
<1>14. CASE NodeReadFails(t)
  BY <1>14 DEF NodeReadFails, diskVars
<1>15. CASE NodeTimesOut(t)
  BY <1>15 DEF NodeTimesOut, diskVars
<1>16. CASE NodeDiscards(t)
  BY <1>16 DEF NodeDiscards, ReceiveFileFails
<1>17. CASE NodeRenames(t)
  BY <1>17 DEF NodeRenames
<1>18. CASE NodeLostPart(t)
  BY <1>18 DEF NodeLostPart, RenameFails, ReceiveFileFails, diskVars
<1>19. CASE NodeVerifies(t)
  BY <1>19 DEF NodeVerifies, diskVars
<1>20. CASE NodeVerifyFails(t)
  BY <1>20 DEF NodeVerifyFails, diskVars
<1>21. CASE NodeFails(t)
  BY <1>21 DEF NodeFails, diskVars
<1> QED
  BY <1>3, <1>4, <1>5, <1>6, <1>7, <1>8, <1>9, <1>10, <1>11, <1>12, <1>13, <1>14,
     <1>15, <1>16, <1>17, <1>18, <1>19, <1>20, <1>21 DEF HandlerStep

\* So is what the user and the disk do to it.
LEMMA UserAndDiskMoves ==
  ASSUME ITypeOK, NEW t \in Transfers, UserStep(t) \/ NodeFault(t)
  PROVE  TaskMoves(t)
<1>1. NodeTypeOK
  BY DEF ITypeOK, TypeOK
<1> USE <1>1 DEF NodeTypeOK, TaskMoves, StillOffered, Taken, InReceipt, GivenUp, HandlerGoes
<1>2. CASE UserAnswers(t)
  BY <1>2 DEF UserAnswers, AfterAnswer, diskVars
<1>3. CASE UserAnswersGarbage(t)
  BY <1>3 DEF UserAnswersGarbage, diskVars
<1>4. CASE NodeCannotCreate(t)
  BY <1>4 DEF NodeCannotCreate, diskVars
<1>5. CASE NodeWriteFails(t)
  BY <1>5 DEF NodeWriteFails
<1>6. CASE NodeLeavesPart(t)
  BY <1>6 DEF NodeLeavesPart, diskVars
<1> QED
  BY <1>2, <1>3, <1>4, <1>5, <1>6 DEF UserStep, NodeFault

\* Every step of a sender, and every fault of one, is one of its moves.
LEMMA SenderStepMoves ==
  ASSUME ITypeOK, NEW t \in Transfers, SenderStep(t) \/ SenderFault(t)
  PROVE  SenderMoves(t)
<1>1. SenderTypeOK
  BY DEF ITypeOK, TypeOK
<1> USE <1>1 DEF SenderTypeOK, SenderMoves, Undecided, SenderOnline, SenderGoes, SenderAborts
<1>2. CASE SenderStats(t) \/ SenderConnects(t) \/ SenderOffers(t)
  BY <1>2 DEF SenderStats, SenderConnects, SenderOffers
<1>3. CASE SenderTakesDecision(t)
  BY <1>3 DEF SenderTakesDecision
<1>4. CASE SenderSendsBlock(t) \/ SenderFinishes(t)
  BY <1>4 DEF SenderSendsBlock, SenderFinishes
<1>5. CASE SenderReadsVerification(t)
  BY <1>5 DEF SenderReadsVerification
<1>6. CASE SenderReadFails(t) \/ SenderWriteFails(t) \/ SenderExits(t)
  BY <1>6 DEF SenderReadFails, SenderWriteFails, SenderExits
<1>7. CASE SenderFault(t)
  BY <1>7 DEF SenderFault, SenderUnreachable, SenderIOFails, SenderKilled, LocalFileEdited
<1> QED
  BY <1>2, <1>3, <1>4, <1>5, <1>6, <1>7 DEF SenderStep

\* What a step of the system can do to the two programs, as the views see it.
LEMMA StepMoves ==
  ASSUME ITypeOK, [Next]_vars
  PROVE  \/ \E t \in Transfers : TaskMoves(t) /\ UNCHANGED spc
         \/ \E t \in Transfers : SenderMoves(t) /\ UNCHANGED NodeView
         \/ CrashMoves /\ UNCHANGED spc
         \/ UNCHANGED NodeView /\ UNCHANGED spc
<1>1. ASSUME NEW t \in Transfers, SenderActs(t) \/ (SenderFault(t) /\ UNCHANGED nodeVars)
      PROVE  SenderMoves(t) /\ UNCHANGED NodeView
  BY <1>1, SenderStepMoves DEF SenderActs, nodeVars, diskVars, NodeView
<1>2. ASSUME NEW t \in Transfers,
             HandlerActs(t) \/ UserActs(t) \/ (NodeFault(t) /\ UNCHANGED senderVars)
      PROVE  TaskMoves(t) /\ UNCHANGED spc
  BY <1>2, HandlerStepMoves, UserAndDiskMoves DEF HandlerActs, UserActs, senderVars
<1>3. ASSUME NEW t \in Transfers, LocksStdin(t) \/ DiskActs(t)
      PROVE  UNCHANGED NodeView /\ UNCHANGED spc
  BY <1>3 DEF LocksStdin, DiskActs, NodeLocksStdin, DiskWrites, diskVars, senderVars, NodeView
<1>4. ASSUME NEW t \in Transfers,
             ConnectionActs(t) \/ (NetworkCut(t) /\ UNCHANGED <<senderVars, nodeVars>>)
      PROVE  UNCHANGED NodeView /\ UNCHANGED spc
  BY <1>4 DEF ConnectionActs, senderVars, nodeVars, diskVars, NodeView
<1>5. ASSUME Crash PROVE CrashMoves /\ UNCHANGED spc
  BY <1>5 DEF Crash, CrashMoves, NodeCrashes, senderVars
<1>6. ASSUME Terminated \/ UNCHANGED vars PROVE UNCHANGED NodeView /\ UNCHANGED spc
  BY <1>6 DEF Terminated, vars, senderVars, nodeVars, diskVars, NodeView
<1> QED
  BY <1>1, <1>2, <1>3, <1>4, <1>5, <1>6 DEF Next, FaultStrikes

---------------------------------------------------------------------------
\* What a verdict says of the node.
LEMMA VerdictsAgree ==
  ASSUME IRepliesAll, NEW t \in Transfers
  PROVE  /\ verdict[t] = "success" => outcome[t] = "saved"
         /\ verdict[t] = "rejected" => outcome[t] = "refused"
         /\ rpc[t] \in {"verifying", "done"} => t \in saved
         /\ t \in saved => rpc[t] \in {"verifying", "done", "failed", "crashed"}
<1>1. SavedStates(t) /\ VerdictTrue(t)
  BY DEF IRepliesAll, IReplies
<1> QED
  BY <1>1 DEF SavedStates, VerdictTrue, verdict, outcome, Refusing, HandlerEnded

\* A task moves: the transfer is saved, refused, or stays open.
LEMMA TaskDelivers ==
  ASSUME ITypeOK, IRepliesAll, NEW t \in Transfers, TaskMoves(t), UNCHANGED spc
  PROVE  [Abstract!Next]_<<outcome, verdict>>
<1>1. verdict' = verdict
  BY DEF verdict
<1>2. /\ rpc[t] \in {"verifying", "done"} => t \in saved
      /\ t \in saved => rpc[t] \in {"verifying", "done", "failed", "crashed"}
  BY VerdictsAgree
<1>3. rpc \in [Transfers -> HandlerStates] /\ saved \subseteq Transfers
  BY DEF ITypeOK, TypeOK, NodeTypeOK
<1>4. \A s \in Transfers \ {t} : outcome'[s] = outcome[s]
  BY <1>3 DEF TaskMoves, outcome
<1>5. \/ outcome'[t] = outcome[t]
      \/ outcome[t] = "open" /\ outcome'[t] \in {"saved", "refused"}
  BY <1>2, <1>3 DEF TaskMoves, outcome, Refusing, HandlerEnded, StillOffered, Taken, InReceipt, GivenUp
<1>6. CASE outcome'[t] = outcome[t]
  <2>1. outcome' = outcome
    BY <1>4, <1>6 DEF outcome
  <2> QED BY <1>1, <2>1
<1>7. CASE outcome[t] = "open" /\ outcome'[t] = "saved"
  <2>1. outcome' = [outcome EXCEPT ![t] = "saved"]
    BY <1>4, <1>7 DEF outcome
  <2> QED BY <1>1, <1>7, <2>1 DEF Abstract!Next, Abstract!Save
<1>8. CASE outcome[t] = "open" /\ outcome'[t] = "refused"
  <2>1. outcome' = [s \in Transfers |-> IF s \in {t} THEN "refused" ELSE outcome[s]]
    BY <1>4, <1>8 DEF outcome
  <2>2. Abstract!Refuse({t})
    BY <1>1, <1>8, <2>1 DEF Abstract!Refuse
  <2> QED BY <2>2 DEF Abstract!Next
<1> QED BY <1>5, <1>6, <1>7, <1>8

\* A sender moves: it reports what is so, or nothing yet.
LEMMA SenderDelivers ==
  ASSUME ITypeOK, IRepliesAll', NEW t \in Transfers, SenderMoves(t), UNCHANGED NodeView
  PROVE  [Abstract!Next]_<<outcome, verdict>>
<1>1. outcome' = outcome
  BY DEF NodeView, outcome
<1>2. spc \in [Transfers -> SenderStates]
  BY DEF ITypeOK, TypeOK, SenderTypeOK
<1>3. \A s \in Transfers \ {t} : verdict'[s] = verdict[s]
  BY <1>2 DEF SenderMoves, verdict
<1>4. \/ verdict'[t] = verdict[t]
      \/ verdict[t] = "none" /\ verdict'[t] \in {"success", "rejected", "error"}
  BY <1>2 DEF SenderMoves, verdict, Undecided, SenderOnline
<1>5. /\ verdict'[t] = "success" => outcome'[t] = "saved"
      /\ verdict'[t] = "rejected" => outcome'[t] = "refused"
  <2>1. (SavedStates(t) /\ VerdictTrue(t))'
    BY DEF IRepliesAll, IReplies
  <2> QED
    BY <2>1 DEF SavedStates, VerdictTrue, verdict, outcome, Refusing, HandlerEnded
<1>6. CASE verdict'[t] = verdict[t]
  <2>1. verdict' = verdict
    BY <1>3, <1>6 DEF verdict
  <2> QED BY <1>1, <2>1
<1>7. CASE verdict[t] = "none" /\ verdict'[t] \in {"success", "rejected", "error"}
  <2>1. verdict' = [verdict EXCEPT ![t] = verdict'[t]]
    BY <1>3 DEF verdict
  <2>2. Abstract!Report(t, verdict'[t])
    BY <1>1, <1>7, <2>1 DEF Abstract!Report
  <2> QED
    BY <1>1, <1>5, <1>7, <2>2
    DEF Abstract!Next, Abstract!ReportSuccess, Abstract!ReportRejection, Abstract!ReportError
<1> QED BY <1>4, <1>6, <1>7

\* A crash refuses every transfer that was open at a task of the node.
LEMMA CrashDelivers ==
  ASSUME ITypeOK, CrashMoves, UNCHANGED spc
  PROVE  [Abstract!Next]_<<outcome, verdict>>
<1> DEFINE lost == {t \in Transfers : outcome[t] = "open" /\ outcome'[t] = "refused"}
<1>1. verdict' = verdict
  BY DEF verdict
<1>2. rpc \in [Transfers -> HandlerStates]
  BY DEF ITypeOK, TypeOK, NodeTypeOK
<1>3. \A t \in Transfers : \/ outcome'[t] = outcome[t]
                           \/ outcome[t] = "open" /\ outcome'[t] = "refused"
  BY <1>2 DEF CrashMoves, outcome, Refusing, HandlerEnded
<1>4. outcome' = [t \in Transfers |-> IF t \in lost THEN "refused" ELSE outcome[t]]
  BY <1>3 DEF outcome
<1>5. Abstract!Refuse(lost)
  BY <1>1, <1>4 DEF Abstract!Refuse
<1> QED BY <1>5 DEF Abstract!Next

LEMMA DeliveryStep ==
  ITypeOK /\ IRepliesAll /\ IRepliesAll' /\ [Next]_vars => [Abstract!Next]_<<outcome, verdict>>
<1> SUFFICES ASSUME ITypeOK, IRepliesAll, IRepliesAll', [Next]_vars
             PROVE  [Abstract!Next]_<<outcome, verdict>>
  OBVIOUS
<1>1. CASE UNCHANGED NodeView /\ UNCHANGED spc
  BY <1>1 DEF NodeView, outcome, verdict
<1> QED BY <1>1, StepMoves, TaskDelivers, SenderDelivers, CrashDelivers

LEMMA DeliveryInit == Init => Abstract!Init
  BY DEF Init, SenderInit, NodeInit, outcome, verdict, Refusing, HandlerEnded, Abstract!Init

\* The two programs implement Delivery: a transfer is saved or refused once and
\* for good, and the sender reports no success before the one and no rejection
\* before the other, whatever the faults (handle_connection, receive_file, and
\* main of tailsfer-send).
THEOREM ImplementsDelivery == Spec => KeepsItsPromise
  BY TypesInvariant, RepliesInvariant, DeliveryInit, DeliveryStep, PTL
  DEF Spec, KeepsItsPromise, Abstract!Spec, Abstract!vars

---------------------------------------------------------------------------
\* The states of the sessions, and data only where they allow it.
SessionStep == \A t \in Transfers :
                 /\ Session(t)!Next \/ UNCHANGED SessionState(t)
                 /\ got'[t] # got[t] => Session(t)!can_receive_chunks

LEMMA TaskFollows ==
  ASSUME ITypeOK, IRepliesAll, NEW t \in Transfers, TaskMoves(t)
  PROVE  SessionStep
<1>1. rpc \in [Transfers -> HandlerStates] /\ saved \subseteq Transfers
  BY DEF ITypeOK, TypeOK, NodeTypeOK
<1>2. /\ rpc[t] \in {"verifying", "done"} => t \in saved
      /\ t \in saved => rpc[t] \in {"verifying", "done", "failed", "crashed"}
  BY VerdictsAgree
<1>3. ASSUME NEW s \in Transfers, s # t
      PROVE  UNCHANGED SessionState(s) /\ got'[s] = got[s]
  BY <1>1, <1>3 DEF TaskMoves, SessionState
<1>4. Session(t)!Next \/ UNCHANGED SessionState(t)
  BY <1>1, <1>2 DEF TaskMoves, SessionState, StillOffered, Taken, InReceipt, GivenUp, Session!Next,
     Session!accept, Session!reject, Session!begin_receiving, Session!complete, Session!cancel
<1>5. got'[t] # got[t] => Session(t)!can_receive_chunks
  BY <1>2 DEF TaskMoves, SessionState, Session!can_receive_chunks
<1> QED BY <1>3, <1>4, <1>5 DEF SessionStep

LEMMA CrashFollows ==
  ASSUME ITypeOK, IRepliesAll, CrashMoves
  PROVE  SessionStep
<1> SUFFICES ASSUME NEW t \in Transfers
             PROVE  Session(t)!Next \/ UNCHANGED SessionState(t)
  BY DEF SessionStep, CrashMoves
<1>1. rpc \in [Transfers -> HandlerStates]
  BY DEF ITypeOK, TypeOK, NodeTypeOK
<1> QED
  BY <1>1, VerdictsAgree DEF CrashMoves, SessionState, HandlerStates, HandlerEnded,
     Session!Next, Session!cancel

LEMMA FollowsStep ==
  ITypeOK /\ IRepliesAll /\ [Next]_vars => [SessionStep]_<<rpc, saved, got>>
<1> SUFFICES ASSUME ITypeOK, IRepliesAll, [Next]_vars PROVE [SessionStep]_<<rpc, saved, got>>
  OBVIOUS
<1>1. CASE UNCHANGED NodeView
  BY <1>1 DEF NodeView
<1> QED BY <1>1, StepMoves, TaskFollows, CrashFollows

LEMMA FollowsInit == Init => \A t \in Transfers : Session(t)!new
  BY DEF Init, NodeInit, SessionState, Session!new

\* Every task takes its transfer through the states of a TransferSession by its
\* methods alone, and data only where can_receive_chunks says so (decision.rs
\* against handle_connection and receive_file).
THEOREM ImplementsSession == Spec => FollowsSession
<1>1. ITypeOK /\ IRepliesAll /\ [Next]_vars =>
        [\A t \in Transfers :
           /\ Session(t)!Next \/ UNCHANGED SessionState(t)
           /\ got'[t] # got[t] => Session(t)!can_receive_chunks]_<<rpc, saved, got>>
  BY FollowsStep DEF SessionStep
<1> QED
  BY <1>1, TypesInvariant, RepliesInvariant, FollowsInit, PTL DEF Spec, FollowsSession
=============================================================================
