-------------------------------- MODULE Node --------------------------------
(***************************************************************************)
(* tailsfer-node (src/src/bin/tailsfer-node.rs): one process, one spawned  *)
(* handle_connection task per connection, one directory of received files, *)
(* one terminal. Every task runs the same code on its own variables and    *)
(* they meet in the directory, on standard input and on the worker threads *)
(* of the runtime.                                                         *)
(*                                                                         *)
(* A file is an inode that paths name, as File::create reuses the one a    *)
(* path already names. The inode of a new file is named after the transfer *)
(* that created it. tokio's File hands a write to a blocking thread and    *)
(* returns: the next write or flush waits for it, nothing else does.       *)
(***************************************************************************)
EXTENDS Quic

CONSTANTS
  Policy,       \* TAILSFER_RECEIVE_POLICY: "auto" or "manual"
  Workers,      \* worker threads of the tokio runtime
  Existing,     \* names of files in the directory before any transfer
  None,         \* no transfer, no file
  Old,          \* the content of a file that was there before
  Hole          \* a block of a file that nobody wrote

ASSUME PolicyAssumption == Policy \in {"auto", "manual"}
ASSUME WorkersAssumption == Workers \in Nat \ {0}
ASSUME ExistingAssumption == Existing \subseteq Names
ASSUME DistinctAssumption == /\ None \notin Transfers /\ Old \notin Transfers
                             /\ None # Old /\ Hole \notin Blocks

VARIABLES
  rpc,          \* rpc[t]: where the task of transfer t stands
  offer,        \* offer[t]: the offer it read
  got,          \* got[t]: the data it read, which its hasher holds
  fd,           \* fd[t]: the inode it has open
  inflight,     \* the tasks whose last write is still with a blocking thread
  part,         \* part[n, id]: the inode named .n.id.tailsfer.part
  out,          \* out[n]: the inode named n
  data,         \* data[i]: the content of an inode
  saved,        \* the transfers whose rename to the final name succeeded
  stdin,        \* the task that holds the lock of standard input
  screen,       \* the transfer of the last prompt on the terminal
  consent       \* the transfers on the screen when the user typed y

nodeVars == <<rpc, offer, got, fd, inflight, part, out, data, saved, stdin, screen, consent>>

\* The state of the tasks alone, and that of the disk and of the terminal.
diskVars == <<fd, inflight, part, out, data, saved>>
userVars == <<stdin, screen, consent>>

HandlerEnded == {"done", "rejected", "failed", "crashed"}
HandlerStates == {"none", "awaiting_offer", "prompting", "accepting", "rejecting",
                  "checking", "creating", "receiving", "flushing", "discarding",
                  "renaming", "verifying", "failing"} \union HandlerEnded

Paths == Names \X Ids
Inodes == Transfers \union {None}

NodeTypeOK == /\ rpc \in [Transfers -> HandlerStates]
              /\ offer \in [Transfers -> Offers \union {None}]
              /\ got \in [Transfers -> Files]
              /\ fd \in [Transfers -> Inodes]
              /\ inflight \subseteq Transfers
              /\ part \in [Paths -> Inodes]
              /\ out \in [Names -> Inodes \union {Old}]
              /\ data \in [Transfers -> Seq(Blocks \union {Hole})]
              /\ saved \subseteq Transfers
              /\ stdin \in Inodes
              /\ screen \in Inodes
              /\ consent \subseteq Inodes

NodeInit == /\ rpc = [t \in Transfers |-> "none"]
            /\ offer = [t \in Transfers |-> None]
            /\ got = [t \in Transfers |-> <<>>]
            /\ fd = [t \in Transfers |-> None]
            /\ inflight = {}
            /\ part = [p \in Paths |-> None]
            /\ out = [n \in Names |-> IF n \in Existing THEN Old ELSE None]
            /\ data = [t \in Transfers |-> <<>>]
            /\ saved = {}
            /\ stdin = None
            /\ screen = None
            /\ consent = {}

HandlerGoes(t, state) == rpc' = [rpc EXCEPT ![t] = state]

\* The temporary file of a transfer, and the prompt that blocks a worker.
PartPath(t) == <<offer[t].name, offer[t].id>>
Prompting == {t \in Transfers : rpc[t] = "prompting"}

WorkerFree == Cardinality(Prompting) < Workers

---------------------------------------------------------------------------
(***************************************************************************)
(* The offer and the decision.                                             *)
(***************************************************************************)
\* The accept loop spawns a task, which waits for the stream.
NodeAccepts(t) == /\ rpc[t] = "none"
                  /\ nodeEnd[t] # "none"
                  /\ HandlerGoes(t, "awaiting_offer")
                  /\ UNCHANGED <<offer, got, diskVars, userVars, quicVars>>

\* With the manual policy the prompt is printed before standard input is locked.
NodeReadsOffer(t) ==
  /\ rpc[t] = "awaiting_offer"
  /\ NodeReads(t)
  /\ Head(up[t]).type = "TransferOffer"
  /\ offer' = [offer EXCEPT ![t] = Head(up[t])]
  /\ \/ /\ Policy = "auto"
        /\ HandlerGoes(t, "accepting")
        /\ UNCHANGED screen
     \/ /\ Policy = "manual"
        /\ HandlerGoes(t, "prompting")
        /\ screen' = t
  /\ UNCHANGED <<got, diskVars, stdin, consent, down, senderEnd, nodeEnd, stopped, faults>>

\* As AfterOfferError, had the task gone back to wait for another stream.
AfterOfferErrorRetry == "awaiting_offer"

AfterOfferError == "failed"

\* The connection went away before a whole offer could be read.
NodeOfferFails(t) == /\ rpc[t] = "awaiting_offer"
                     /\ nodeEnd[t] = "closed"
                     /\ HandlerGoes(t, AfterOfferError)
                     /\ UNCHANGED <<offer, got, diskVars, userVars, quicVars>>

\* io::stdin().read_line takes the lock and holds it until a line came.
NodeLocksStdin(t) == /\ rpc[t] = "prompting"
                     /\ stdin = None
                     /\ stdin' = t
                     /\ UNCHANGED <<rpc, offer, got, diskVars, screen, consent, quicVars>>

\* As AfterAnswer, had the prompt been [Y/n].
AfterAnswerDefaultYes(answer) == IF answer = "n" THEN "rejecting" ELSE "accepting"

\* Only y accepts; anything else, the end of input included, declines.
AfterAnswer(answer) == IF answer = "y" THEN "accepting" ELSE "rejecting"

\* The line the user types, at the prompt on the screen, goes to the holder.
UserAnswers(t) ==
  /\ stdin = t
  /\ rpc[t] = "prompting"
  /\ stdin' = None
  /\ \E answer \in {"y", "n", ""} :
       /\ HandlerGoes(t, AfterAnswer(answer))
       /\ consent' = IF answer = "y" THEN consent \union {screen} ELSE consent
  /\ UNCHANGED <<offer, got, diskVars, screen, quicVars>>

\* A line that is not UTF-8 is an error of read_line: the task ends there.
UserAnswersGarbage(t) ==
  /\ stdin = t
  /\ rpc[t] = "prompting"
  /\ stdin' = None
  /\ HandlerGoes(t, "failed")
  /\ NodeCloses(t)
  /\ UNCHANGED <<offer, got, diskVars, screen, consent, up, down, senderEnd, stopped, faults>>

NodeSendsAccept(t) ==
  /\ rpc[t] = "accepting"
  /\ nodeEnd[t] = "open"
  /\ NodeWrites(t, DecisionFrame("Accept", offer[t].id))
  /\ HandlerGoes(t, "checking")
  /\ UNCHANGED <<offer, got, diskVars, userVars, up, senderEnd, nodeEnd, stopped, faults>>

\* As AfterReject, had the return after it been forgotten.
AfterRejectGoesOn == "checking"

AfterReject == "rejected"

\* The frame, finish and close follow each other with no await that can wait.
NodeSendsReject(t) ==
  /\ rpc[t] = "rejecting"
  /\ nodeEnd[t] = "open"
  /\ NodeWrites(t, DecisionFrame("Reject", offer[t].id))
  /\ NodeCloses(t)
  /\ HandlerGoes(t, AfterReject)
  /\ UNCHANGED <<offer, got, diskVars, userVars, up, senderEnd, stopped, faults>>

NodeDecisionFails(t) == /\ rpc[t] \in {"accepting", "rejecting"}
                        /\ nodeEnd[t] = "closed"
                        /\ HandlerGoes(t, "failed")
                        /\ UNCHANGED <<offer, got, diskVars, userVars, quicVars>>

---------------------------------------------------------------------------
(***************************************************************************)
(* receive_file. When it returns, RecvStream is dropped and the sender is  *)
(* told to stop, unless the stream was read to its end.                    *)
(***************************************************************************)
\* As ReceiveFileFails, had a transfer that failed been received again.
ReceiveFileRetried(t) == /\ HandlerGoes(t, "checking")
                         /\ UNCHANGED quicVars

ReceiveFileFails(t) == /\ HandlerGoes(t, "failing")
                       /\ stopped' = [stopped EXCEPT ![t] = TRUE]
                       /\ UNCHANGED <<up, down, senderEnd, nodeEnd, faults>>

\* As DestinationFree, had the check been forgotten.
DestinationUnchecked(t) == TRUE

DestinationFree(t) == out[offer[t].name] = None

NodeChecksDestination(t) ==
  /\ rpc[t] = "checking"
  /\ \/ /\ DestinationFree(t)
        /\ HandlerGoes(t, "creating")
        /\ UNCHANGED quicVars
     \/ /\ ~DestinationFree(t)
        /\ ReceiveFileFails(t)
  /\ UNCHANGED <<offer, got, diskVars, userVars>>

\* File::create truncates the file when the path names one.
NodeCreatesPart(t) ==
  /\ rpc[t] = "creating"
  /\ LET inode == IF part[PartPath(t)] = None THEN t ELSE part[PartPath(t)] IN
       /\ part' = [part EXCEPT ![PartPath(t)] = inode]
       /\ data' = [data EXCEPT ![inode] = <<>>]
       /\ fd' = [fd EXCEPT ![t] = inode]
  /\ HandlerGoes(t, "receiving")
  /\ UNCHANGED <<offer, got, inflight, out, saved, userVars, quicVars>>

Total(t) == Len(got[t])

\* The write is handed over, the hasher updated, then the total is checked.
NodeReceivesBlock(t) ==
  /\ rpc[t] = "receiving"
  /\ t \notin inflight
  /\ NodeReads(t)
  /\ Head(up[t]).type = "Data"
  /\ got' = [got EXCEPT ![t] = Append(@, Head(up[t]).block)]
  /\ inflight' = inflight \union {t}
  /\ HandlerGoes(t, IF Total(t) + 1 > offer[t].size THEN "discarding" ELSE "receiving")
  /\ UNCHANGED <<offer, fd, part, out, data, saved, userVars,
                 down, senderEnd, nodeEnd, stopped, faults>>

NodeReceivesFin(t) == /\ rpc[t] = "receiving"
                      /\ NodeReads(t)
                      /\ Head(up[t]).type = "Fin"
                      /\ HandlerGoes(t, "flushing")
                      /\ UNCHANGED <<offer, got, diskVars, userVars,
                                     down, senderEnd, nodeEnd, stopped, faults>>

\* A blocking thread performs the write, at the position of this task's File.
DiskWrites(t) ==
  /\ t \in inflight
  /\ inflight' = inflight \ {t}
  /\ LET file == data[fd[t]]
         size == IF Len(file) > Total(t) THEN Len(file) ELSE Total(t) IN
       data' = [data EXCEPT ![fd[t]] =
                  [i \in 1 .. size |-> IF i = Total(t) THEN got[t][i]
                                       ELSE IF i <= Len(file) THEN file[i] ELSE Hole]]
  /\ UNCHANGED <<rpc, offer, got, fd, part, out, saved, userVars, quicVars>>

\* As Flushed, had flush been forgotten before the rename.
FlushForgotten(t) == TRUE

Flushed(t) == t \notin inflight

\* As AfterFlush, had a short file been taken for a complete one.
AfterFlushShort(t) == IF Total(t) <= offer[t].size THEN "renaming" ELSE "discarding"

\* As AfterFlush, had the verification been sent before the rename.
AfterFlushEarly(t) == IF Total(t) = offer[t].size THEN "verifying" ELSE "discarding"

AfterFlush(t) == IF Total(t) = offer[t].size THEN "renaming" ELSE "discarding"

NodeFlushes(t) == /\ rpc[t] = "flushing"
                  /\ Flushed(t)
                  /\ HandlerGoes(t, AfterFlush(t))
                  /\ UNCHANGED <<offer, got, diskVars, userVars, quicVars>>

NodeReadFails(t) == /\ rpc[t] = "receiving"
                    /\ nodeEnd[t] = "closed"
                    /\ HandlerGoes(t, "discarding")
                    /\ UNCHANGED <<offer, got, diskVars, userVars, quicVars>>

\* TRANSFER_TIMEOUT covers the loop and the flush.
NodeTimesOut(t) == /\ rpc[t] \in {"receiving", "flushing"}
                   /\ HandlerGoes(t, "discarding")
                   /\ UNCHANGED <<offer, got, diskVars, userVars, quicVars>>

\* As AfterRemoval, had an error path returned without remove_file.
PartKept(t) == part

AfterRemoval(t) == [part EXCEPT ![PartPath(t)] = None]

NodeDiscards(t) == /\ rpc[t] = "discarding"
                   /\ part' = AfterRemoval(t)
                   /\ ReceiveFileFails(t)
                   /\ UNCHANGED <<offer, got, fd, inflight, out, data, saved, userVars>>

\* rename replaces whatever the final name names by now.
NodeRenames(t) ==
  /\ rpc[t] = "renaming"
  /\ part[PartPath(t)] # None
  /\ out' = [out EXCEPT ![offer[t].name] = part[PartPath(t)]]
  /\ part' = [part EXCEPT ![PartPath(t)] = None]
  /\ saved' = saved \union {t}
  /\ HandlerGoes(t, "verifying")
  /\ UNCHANGED <<offer, got, fd, inflight, data, userVars, quicVars>>

\* As ReceiveFileFails, had a rename that fails been tried again.
RenameRetried(t) == /\ HandlerGoes(t, "renaming")
                    /\ UNCHANGED quicVars

RenameFails(t) == ReceiveFileFails(t)

\* Another transfer of the same name and ID renamed or removed the shared file.
NodeLostPart(t) == /\ rpc[t] = "renaming"
                   /\ part[PartPath(t)] = None
                   /\ RenameFails(t)
                   /\ UNCHANGED <<offer, got, diskVars, userVars>>

---------------------------------------------------------------------------
(***************************************************************************)
(* The answer to the sender: write, finish and close, with no wait for the *)
(* frame to arrive.                                                        *)
(***************************************************************************)
NodeVerifies(t) ==
  /\ rpc[t] = "verifying"
  /\ nodeEnd[t] = "open"
  /\ NodeWrites(t, VerifiedFrame(offer[t].id, got[t]))
  /\ NodeCloses(t)
  /\ HandlerGoes(t, "done")
  /\ UNCHANGED <<offer, got, diskVars, userVars, up, senderEnd, stopped, faults>>

\* write_all fails: the file is saved and the task ends with an error.
NodeVerifyFails(t) == /\ rpc[t] = "verifying"
                      /\ nodeEnd[t] = "closed"
                      /\ HandlerGoes(t, "failed")
                      /\ UNCHANGED <<offer, got, diskVars, userVars, quicVars>>

\* A failed transfer is reported as a Reject, whose own errors are ignored.
NodeFails(t) == /\ rpc[t] = "failing"
                /\ NodeWrites(t, DecisionFrame("Reject", offer[t].id))
                /\ NodeCloses(t)
                /\ HandlerGoes(t, "failed")
                /\ UNCHANGED <<offer, got, diskVars, userVars, up, senderEnd, stopped, faults>>

\* A task needs a worker to take a step; one that prompts blocks its worker.
\* That another one is free lets the task run and does not make it.
HandlerStep(t) == /\ WorkerFree
                  /\ \/ NodeAccepts(t)
                     \/ NodeReadsOffer(t)
                     \/ NodeOfferFails(t)
                     \/ NodeSendsAccept(t)
                     \/ NodeSendsReject(t)
                     \/ NodeDecisionFails(t)
                     \/ NodeChecksDestination(t)
                     \/ NodeCreatesPart(t)
                     \/ NodeReceivesBlock(t)
                     \/ NodeReceivesFin(t)
                     \/ NodeFlushes(t)
                     \/ NodeReadFails(t)
                     \/ NodeTimesOut(t)
                     \/ NodeDiscards(t)
                     \/ NodeRenames(t)
                     \/ NodeLostPart(t)
                     \/ NodeVerifies(t)
                     \/ NodeVerifyFails(t)
                     \/ NodeFails(t)

NodeStep(t) == HandlerStep(t) \/ NodeLocksStdin(t) \/ DiskWrites(t)

UserStep(t) == UserAnswers(t) \/ UserAnswersGarbage(t)

---------------------------------------------------------------------------
(***************************************************************************)
(* What the environment does to the node.                                  *)
(***************************************************************************)
\* create_dir_all, try_exists or File::create fails.
NodeCannotCreate(t) == /\ rpc[t] \in {"checking", "creating"}
                       /\ Fault("disk")
                       /\ HandlerGoes(t, "failing")
                       /\ stopped' = [stopped EXCEPT ![t] = TRUE]
                       /\ UNCHANGED <<offer, got, diskVars, userVars, up, down, senderEnd, nodeEnd>>

\* A write fails; the next write, which gives up its data, or flush reports it.
NodeWriteFails(t) ==
  /\ t \in inflight
  /\ Fault("disk")
  /\ \/ /\ rpc[t] = "receiving"
        /\ NodeReads(t)
        /\ Head(up[t]).type = "Data"
     \/ /\ rpc[t] = "flushing"
        /\ UNCHANGED up
  /\ inflight' = inflight \ {t}
  /\ HandlerGoes(t, "discarding")
  /\ UNCHANGED <<offer, got, fd, part, out, data, saved, userVars,
                 down, senderEnd, nodeEnd, stopped>>

\* remove_file fails, which is ignored, or rename fails, which leaves the part.
NodeLeavesPart(t) == /\ rpc[t] \in {"discarding", "renaming"}
                     /\ Fault("disk")
                     /\ HandlerGoes(t, "failing")
                     /\ stopped' = [stopped EXCEPT ![t] = TRUE]
                     /\ UNCHANGED <<offer, got, diskVars, userVars, up, down, senderEnd, nodeEnd>>

\* The process dies with every task, and is started again at once.
NodeCrashes ==
  /\ Fault("crash")
  /\ rpc' = [t \in Transfers |-> IF rpc[t] \in HandlerEnded \/ nodeEnd[t] = "none"
                                 THEN rpc[t] ELSE "crashed"]
  /\ nodeEnd' = [t \in Transfers |-> IF nodeEnd[t] = "open" THEN "closed" ELSE nodeEnd[t]]
  /\ inflight' = {}
  /\ stdin' = None
  /\ screen' = None
  /\ UNCHANGED <<offer, got, fd, part, out, data, saved, consent, up, down, senderEnd, stopped>>

NodeFault(t) == NodeCannotCreate(t) \/ NodeWriteFails(t) \/ NodeLeavesPart(t)
=============================================================================
