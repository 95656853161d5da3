------------------------------- MODULE Sender -------------------------------
(***************************************************************************)
(* tailsfer-send (src/src/bin/tailsfer-send.rs): one process per transfer, *)
(* a single sequence of awaits. An action is what happens between two      *)
(* awaits; where an await can fail there is an action for the failure.     *)
(***************************************************************************)
EXTENDS Quic

CONSTANTS
  Content,      \* Content[t]: the file when tailsfer-send looks at its size
  Edits         \* the contents that another program may give the file later

ASSUME ContentAssumption == /\ Content \in [Transfers -> Files]
                            /\ Edits \subseteq Files

VARIABLES
  spc,          \* spc[t]: where main() stands
  local,        \* local[t]: the file on the sender's disk
  offered,      \* offered[t]: the size read from the metadata
  sent          \* sent[t]: what was read from the file and written to the
                \*   stream, which is also what the sender's hasher holds

senderVars == <<spc, local, offered, sent>>

SenderEnded == {"exited", "rejected", "refused", "failed", "killed"}
SenderOnline == {"offering", "deciding", "sending", "verifying"}
SenderStates == {"start", "connecting", "complete"} \union SenderOnline \union SenderEnded

SenderTypeOK == /\ spc \in [Transfers -> SenderStates]
                /\ local \in [Transfers -> Files]
                /\ offered \in [Transfers -> Nat]
                /\ sent \in [Transfers -> Files]

SenderInit == /\ spc = [t \in Transfers |-> "start"]
              /\ local = Content
              /\ offered = [t \in Transfers |-> 0]
              /\ sent = [t \in Transfers |-> <<>>]

SenderGoes(t, state) == spc' = [spc EXCEPT ![t] = state]

(***************************************************************************)
(* main() returns an error: the SendStream is dropped, which finishes it   *)
(* as if the data were complete, and with it the connection.               *)
(***************************************************************************)
SenderAborts(t) == /\ SenderGoes(t, "failed")
                   /\ SenderWrites(t, Fin)
                   /\ SenderCloses(t)

---------------------------------------------------------------------------
\* The size in the offer is the size now; the file is opened much later.
SenderStats(t) == /\ spc[t] = "start"
                  /\ offered' = [offered EXCEPT ![t] = Len(local[t])]
                  /\ SenderGoes(t, "connecting")
                  /\ UNCHANGED <<local, sent, quicVars>>

SenderConnects(t) == /\ spc[t] = "connecting"
                     /\ senderEnd' = [senderEnd EXCEPT ![t] = "open"]
                     /\ nodeEnd' = [nodeEnd EXCEPT ![t] = "open"]
                     /\ SenderGoes(t, "offering")
                     /\ UNCHANGED <<local, offered, sent, up, down, stopped, faults>>

SenderOffers(t) == /\ spc[t] = "offering"
                   /\ senderEnd[t] = "open"
                   /\ SenderWrites(t, OfferFrame(t, offered[t]))
                   /\ SenderGoes(t, "deciding")
                   /\ UNCHANGED <<local, offered, sent, down, senderEnd, nodeEnd, stopped, faults>>

\* The decision is believed only when it names this transfer.
AfterDecision(t, frame) ==
  IF frame.type = "Accept" /\ frame.id = TransferId[t] THEN "sending"
  ELSE IF frame.type = "Reject" /\ frame.id = TransferId[t] THEN "rejected"
  ELSE "failed"

SenderTakesDecision(t) ==
  /\ spc[t] = "deciding"
  /\ SenderReads(t)
  /\ LET next == AfterDecision(t, Head(down[t])) IN
       \/ /\ next = "sending"
          /\ SenderGoes(t, "sending")
          /\ UNCHANGED <<up, senderEnd>>
       \/ /\ next = "rejected"
          /\ SenderGoes(t, "rejected")
          /\ SenderCloses(t)
          /\ UNCHANGED up
       \/ /\ next = "failed"
          /\ SenderAborts(t)
  /\ UNCHANGED <<local, offered, sent, nodeEnd, stopped, faults>>

SenderSendsBlock(t) ==
  /\ spc[t] = "sending"
  /\ senderEnd[t] = "open"
  /\ ~stopped[t]
  /\ Len(sent[t]) < Len(local[t])
  /\ LET block == local[t][Len(sent[t]) + 1] IN
       /\ SenderWrites(t, Data(block))
       /\ sent' = [sent EXCEPT ![t] = Append(@, block)]
  /\ UNCHANGED <<spc, local, offered, down, senderEnd, nodeEnd, stopped, faults>>

\* What was sent is as long as what was offered.
SizeUnchanged(t) == Len(sent[t]) = offered[t]

\* The end of the file. finish() is reached only when the size is as offered.
SenderFinishes(t) ==
  /\ spc[t] = "sending"
  /\ Len(sent[t]) >= Len(local[t])
  /\ \/ /\ SizeUnchanged(t)
        /\ SenderWrites(t, Fin)
        /\ SenderGoes(t, "verifying")
        /\ UNCHANGED senderEnd
     \/ /\ ~SizeUnchanged(t)
        /\ SenderAborts(t)
  /\ UNCHANGED <<local, offered, sent, down, nodeEnd, stopped, faults>>

\* As AfterVerification, had any answer after the data counted as success.
AfterAnyAnswer(t, frame) == "complete"

\* Success needs the ID and the hash. A Reject that comes after the data is
\* reported as a failure of the receiver, everything else as an error.
AfterVerification(t, frame) ==
  IF frame.type = "Verified" /\ frame.id = TransferId[t] /\ frame.hash = sent[t]
  THEN "complete"
  ELSE IF frame.type = "Reject" /\ frame.id = TransferId[t] THEN "refused"
  ELSE "failed"

SenderReadsVerification(t) ==
  /\ spc[t] = "verifying"
  /\ SenderReads(t)
  /\ LET next == AfterVerification(t, Head(down[t])) IN
       /\ SenderGoes(t, next)
       /\ senderEnd' = [senderEnd EXCEPT ![t] = IF next = "complete" THEN @ ELSE "closed"]
  /\ UNCHANGED <<local, offered, sent, up, nodeEnd, stopped, faults>>

SenderReadFails(t) == /\ spc[t] \in {"deciding", "verifying"}
                      /\ senderEnd[t] = "closed"
                      /\ SenderGoes(t, "failed")
                      /\ UNCHANGED <<local, offered, sent, quicVars>>

\* A write fails when the connection is lost or the node stopped the stream.
SenderWriteFails(t) ==
  /\ \/ spc[t] = "offering"
     \/ spc[t] = "sending" /\ Len(sent[t]) < Len(local[t])
  /\ senderEnd[t] = "closed" \/ stopped[t]
  /\ SenderAborts(t)
  /\ UNCHANGED <<local, offered, sent, down, nodeEnd, stopped, faults>>

\* Endpoint::wait_idle: the process stays until its connection is gone.
SenderExits(t) == /\ spc[t] = "complete"
                  /\ senderEnd[t] = "closed"
                  /\ SenderGoes(t, "exited")
                  /\ UNCHANGED <<local, offered, sent, quicVars>>

SenderStep(t) == \/ SenderStats(t)
                 \/ SenderConnects(t)
                 \/ SenderOffers(t)
                 \/ SenderTakesDecision(t)
                 \/ SenderSendsBlock(t)
                 \/ SenderFinishes(t)
                 \/ SenderReadsVerification(t)
                 \/ SenderReadFails(t)
                 \/ SenderWriteFails(t)
                 \/ SenderExits(t)

---------------------------------------------------------------------------
(***************************************************************************)
(* What the environment does to a sender.                                  *)
(***************************************************************************)
\* No node answers at the address.
SenderUnreachable(t) == /\ spc[t] = "connecting"
                        /\ Fault("net")
                        /\ SenderGoes(t, "failed")
                        /\ UNCHANGED <<local, offered, sent, up, down, senderEnd, nodeEnd, stopped>>

\* File::open or a read of the file fails.
SenderIOFails(t) == /\ spc[t] = "sending"
                    /\ Fault("disk")
                    /\ SenderAborts(t)
                    /\ UNCHANGED <<local, offered, sent, down, nodeEnd, stopped>>

\* The process dies: nothing is finished and the node is not told.
SenderKilled(t) == /\ spc[t] \in SenderOnline
                   /\ Fault("kill")
                   /\ SenderGoes(t, "killed")
                   /\ SenderCloses(t)
                   /\ UNCHANGED <<local, offered, sent, up, down, nodeEnd, stopped>>

\* Another program changes the file between two of tailsfer-send's reads.
LocalFileEdited(t) == /\ spc[t] \in {"connecting", "offering", "deciding", "sending"}
                      /\ Fault("edit")
                      /\ \E content \in Edits \ {local[t]} :
                           local' = [local EXCEPT ![t] = content]
                      /\ UNCHANGED <<spc, offered, sent, up, down, senderEnd, nodeEnd, stopped>>

SenderFault(t) == \/ SenderUnreachable(t)
                  \/ SenderIOFails(t)
                  \/ SenderKilled(t)
                  \/ LocalFileEdited(t)
=============================================================================
