------------------------------ MODULE Transfer ------------------------------
(***************************************************************************)
(* Every run of tailsfer-send against one tailsfer-node, over its own QUIC *)
(* connection, with the faults of the environment.                         *)
(***************************************************************************)
EXTENDS Sender, Node

vars == <<quicVars, senderVars, nodeVars>>

TypeOK == QuicTypeOK /\ SenderTypeOK /\ NodeTypeOK

Init == QuicInit /\ SenderInit /\ NodeInit

(***************************************************************************)
(* Timers of the connection. While a task waits for the user, nothing is   *)
(* sent either way on its connection. And the worker that it blocks may be *)
(* the one that polled the sockets and timers of the runtime, which no     *)
(* other worker takes over for it: as long as any prompt is open, the      *)
(* node's connections may all go unserved, and outlast the idle timeout;   *)
(* its own timers then are due when it is served again.                    *)
(***************************************************************************)
\* As Silent, had a keep-alive interval been configured.
SilentNever(t) == FALSE

Silent(t) == Prompting # {}

SenderWaitsTooLong(t) == /\ Silent(t)
                         /\ SenderIdlesOut(t)
                         /\ UNCHANGED faults

NodeWaitsTooLong(t) == /\ Silent(t)
                       /\ NodeIdlesOut(t)
                       /\ UNCHANGED faults

SenderNotices(t) == SenderLearnsClose(t) \/ SenderWaitsTooLong(t)

NodeNotices(t) == \/ WorkerFree /\ NodeLearnsClose(t)
                  \/ NodeWaitsTooLong(t)

---------------------------------------------------------------------------
SenderActs(t) == SenderStep(t) /\ UNCHANGED nodeVars

HandlerActs(t) == HandlerStep(t) /\ UNCHANGED senderVars

LocksStdin(t) == NodeLocksStdin(t) /\ UNCHANGED senderVars

DiskActs(t) == DiskWrites(t) /\ UNCHANGED senderVars

UserActs(t) == UserStep(t) /\ UNCHANGED senderVars

ConnectionActs(t) == /\ SenderNotices(t) \/ NodeNotices(t)
                     /\ UNCHANGED <<senderVars, nodeVars>>

FaultStrikes(t) == \/ SenderFault(t) /\ UNCHANGED nodeVars
                   \/ NodeFault(t) /\ UNCHANGED senderVars
                   \/ NetworkCut(t) /\ UNCHANGED <<senderVars, nodeVars>>

Crash == NodeCrashes /\ UNCHANGED senderVars

\* Every process has ended and every task too: nothing is left to happen.
Terminated == /\ \A t \in Transfers :
                   /\ spc[t] \in SenderEnded
                   /\ rpc[t] \in HandlerEnded \/ nodeEnd[t] = "none"
              /\ UNCHANGED vars

Next == \/ \E t \in Transfers : \/ SenderActs(t)
                                \/ HandlerActs(t)
                                \/ LocksStdin(t)
                                \/ DiskActs(t)
                                \/ UserActs(t)
                                \/ ConnectionActs(t)
                                \/ FaultStrikes(t)
        \/ Crash
        \/ Terminated

(***************************************************************************)
(* Processes, blocking threads and the sender's timers run, and so do the  *)
(* node's tasks and timers while no worker of it is blocked. Faults need   *)
(* not happen, and only SpecFairUser says that the user answers a prompt.  *)
(***************************************************************************)
\* Every worker of the node runs.
Served == Prompting = {}

Fairness == \A t \in Transfers :
              /\ WF_vars(SenderActs(t))
              /\ WF_vars(Served /\ HandlerActs(t))
              /\ WF_vars(LocksStdin(t))
              /\ WF_vars(DiskActs(t))
              /\ WF_vars(SenderNotices(t) /\ UNCHANGED <<senderVars, nodeVars>>)
              /\ WF_vars(Served /\ NodeNotices(t) /\ UNCHANGED <<senderVars, nodeVars>>)

Spec == Init /\ [][Next]_vars

FairSpec == Spec /\ Fairness

SpecFairUser == FairSpec /\ \A t \in Transfers : WF_vars(UserActs(t))

---------------------------------------------------------------------------
(***************************************************************************)
(* Safety.                                                                 *)
(***************************************************************************)
\* Two transfers of one file name never share a temporary file. The IDs are
\* clock readings of the senders, so this is an assumption about them.
DistinctPartPaths == \A s, t \in Transfers :
                       FileName[s] = FileName[t] /\ TransferId[s] = TransferId[t] => s = t

\* A file under its final name is exactly what its sender read and sent, and
\* as long as it offered, whatever was lost, cut, edited, killed or restarted
\* on the way (receive_file: the size check and flush before the rename).
SavedIntact == \A n \in Names : out[n] \in Transfers =>
                 LET t == out[n] IN /\ FileName[t] = n
                                    /\ data[t] = sent[t]
                                    /\ Len(sent[t]) = offered[t]

\* When tailsfer-send prints TRANSFER COMPLETE, the node had renamed the file
\* to its final name and had received what was sent.
CompleteMeansSaved == \A t \in Transfers : spc[t] \in {"complete", "exited"} =>
                        t \in saved /\ got[t] = sent[t] /\ Len(sent[t]) = offered[t]

\* When tailsfer-send prints that the receiver rejected the transfer, the node
\* created no file for it and will not; when it prints that the receiver
\* reported a failure, the node has ended without saving the file.
RejectedMeansUnsaved == \A t \in Transfers :
                          /\ spc[t] = "rejected" => rpc[t] = "rejected" /\ fd[t] = None
                          /\ spc[t] = "refused" => rpc[t] = "failed" /\ t \notin saved

\* A name that exists in the directory keeps the file it names: a transfer is
\* refused rather than replace it (receive_file: try_exists before anything).
NoOverwrite == [][\A n \in Names : out[n] # None => out'[n] = out[n]]_out

\* With the manual policy, only a file whose own prompt was on the terminal
\* when the user typed y is saved (handle_connection: the prompt).
ConsentBeforeSave == Policy = "manual" => saved \subseteq consent

\* A sender that ended with an error after the node ended well: the node says
\* that the verification was sent, and the sender never heard of it.
OutcomesAgree == \A t \in Transfers : ~(rpc[t] = "done" /\ spc[t] = "failed")

---------------------------------------------------------------------------
(***************************************************************************)
(* Liveness.                                                               *)
(***************************************************************************)
\* tailsfer-send always returns to the shell, even when the user of the node
\* never answers: the idle timer of its connection sees to that.
SenderEnds == \A t \in Transfers : <>(spc[t] \in SenderEnded)

\* A connection that reached the node is handled to its end.
HandlerEnds == \A t \in Transfers : (nodeEnd[t] # "none") ~> (rpc[t] \in HandlerEnded)

\* Every task ends unless a prompt stays open for good: what the others missed
\* while a worker was blocked (data, a close, the idle timer) they get to know
\* once the user has answered (handle_connection).
StallsEnd == \A t \in Transfers :
               []<>(Prompting = {}) => ((nodeEnd[t] # "none") ~> (rpc[t] \in HandlerEnded))

\* A .tailsfer.part file does not stay: it is renamed or removed.
PartsAreTemporary == \A p \in Paths : (part[p] # None) ~> (part[p] = None)

---------------------------------------------------------------------------
(***************************************************************************)
(* The abstract view.                                                      *)
(***************************************************************************)
Refusing == {"rejecting", "discarding", "failing"} \union HandlerEnded

outcome == [t \in Transfers |-> IF t \in saved THEN "saved"
                                ELSE IF rpc[t] \in Refusing THEN "refused" ELSE "open"]

verdict == [t \in Transfers |-> IF spc[t] \in {"complete", "exited"} THEN "success"
                                ELSE IF spc[t] \in {"rejected", "refused"} THEN "rejected"
                                ELSE IF spc[t] \in {"failed", "killed"} THEN "error"
                                ELSE "none"]

Abstract == INSTANCE Delivery WITH outcome <- outcome, verdict <- verdict

\* The two programs keep the promise of Delivery in every step.
KeepsItsPromise == Abstract!Spec

---------------------------------------------------------------------------
(***************************************************************************)
(* The session that the task of a transfer goes through. A rejection       *)
(* counts when its frame is written, a completion when the file is renamed.*)
(***************************************************************************)
SessionState(t) ==
  IF t \in saved THEN "Completed"
  ELSE IF rpc[t] \in {"none", "awaiting_offer", "prompting", "accepting", "rejecting"} THEN "Offered"
  ELSE IF rpc[t] \in {"checking", "creating"} THEN "Accepted"
  ELSE IF rpc[t] \in {"receiving", "flushing", "renaming", "verifying"} THEN "Receiving"
  ELSE IF rpc[t] = "rejected" THEN "Rejected"
  ELSE "Cancelled"

Session(t) == INSTANCE TransferSession WITH state <- SessionState(t)

\* A task takes its transfer through the states of TransferSession by its
\* methods alone: what was rejected, cancelled or completed is never taken up
\* again, whatever fails and whoever restarts, and file data is received only
\* where can_receive_chunks says so (handle_connection, receive_file).
FollowsSession ==
  /\ \A t \in Transfers : Session(t)!new
  /\ [][\A t \in Transfers :
          /\ Session(t)!Next \/ UNCHANGED SessionState(t)
          /\ got'[t] # got[t] => Session(t)!can_receive_chunks]_<<rpc, saved, got>>
=============================================================================
