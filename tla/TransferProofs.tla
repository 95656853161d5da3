--------------------------- MODULE TransferProofs ---------------------------
(***************************************************************************)
(* Types, and what the replies of the node mean, for every value of the    *)
(* constants: TypeCorrect, CompletionIsTrue, RejectionIsTrue. The lemmas   *)
(* follow Next: one per group of actions, one step per action.             *)
(***************************************************************************)
EXTENDS TransferInductive, TLAPS

\* What the stream operations write and read are items and replies.
LEMMA StreamTypes ==
  ASSUME QuicTypeOK, NEW t \in Transfers
  PROVE  /\ \A item \in Items : SenderWrites(t, item) => up' \in [Transfers -> Seq(Items)]
         /\ \A frame \in Replies : NodeWrites(t, frame) => down' \in [Transfers -> Seq(Replies)]
         /\ SenderReads(t) => Head(down[t]) \in Replies /\ down' \in [Transfers -> Seq(Replies)]
         /\ NodeReads(t) => Head(up[t]) \in Items /\ up' \in [Transfers -> Seq(Items)]
<1>1. up \in [Transfers -> Seq(Items)] /\ down \in [Transfers -> Seq(Replies)]
  BY DEF QuicTypeOK
<1>2. ASSUME NEW item \in Items, SenderWrites(t, item)
      PROVE  up' \in [Transfers -> Seq(Items)]
  BY <1>1, <1>2 DEF SenderWrites
<1>3. ASSUME NEW frame \in Replies, NodeWrites(t, frame)
      PROVE  down' \in [Transfers -> Seq(Replies)]
  BY <1>1, <1>3 DEF NodeWrites
<1>4. ASSUME SenderReads(t)
      PROVE  Head(down[t]) \in Replies /\ down' \in [Transfers -> Seq(Replies)]
  BY <1>1, <1>4 DEF SenderReads
<1>5. ASSUME NodeReads(t)
      PROVE  Head(up[t]) \in Items /\ up' \in [Transfers -> Seq(Items)]
  BY <1>1, <1>5 DEF NodeReads
<1> QED BY <1>2, <1>3, <1>4, <1>5

\* Types hold at the start.
LEMMA TypeInit == Init => ITypeOK
  BY NamesAssumption, FaultsAssumption, ContentAssumption, ExistingAssumption
  DEF ITypeOK, TypeOK, OfferKnown, OfferStates, HandlerStates, HandlerEnded, SenderStates, SenderEnded, SenderOnline,
      QuicTypeOK, SenderTypeOK, NodeTypeOK, Ends, Files, Inodes,
      Init, QuicInit, SenderInit, NodeInit

\* Types: every step of a tailsfer-send.
LEMMA SenderTypes ==
  ASSUME ITypeOK, NEW t \in Transfers, SenderStep(t)
  PROVE  SenderTypeOK' /\ QuicTypeOK'
<1>1. Fin \in Items
  BY DEF Fin, Items
<1>2. QuicTypeOK /\ SenderTypeOK
  BY DEF ITypeOK, TypeOK
<1> USE <1>2, NamesAssumption DEF SenderTypeOK, SenderStates, SenderEnded, SenderOnline, SenderGoes, Files, QuicTypeOK, Ends, SenderCloses
<1>3. CASE SenderStats(t)
  BY <1>3 DEF SenderStats, quicVars
<1>4. CASE SenderConnects(t)
  BY <1>4 DEF SenderConnects
<1>5. CASE SenderOffers(t)
  <2>1. OfferFrame(t, offered[t]) \in Items
    BY DEF OfferFrame, Items, Offers
  <2>2. up' \in [Transfers -> Seq(Items)]
    BY <1>5, <2>1, StreamTypes DEF SenderOffers
  <2> QED BY <1>5, <2>2 DEF SenderOffers
<1>6. CASE SenderTakesDecision(t)
  <2>1. down' \in [Transfers -> Seq(Replies)]
    BY <1>6, StreamTypes DEF SenderTakesDecision
  <2>2. up' \in [Transfers -> Seq(Items)]
    BY <1>6, <1>1, StreamTypes DEF SenderTakesDecision, SenderAborts
  <2> QED BY <1>6, <2>1, <2>2 DEF SenderTakesDecision, SenderAborts
<1>7. CASE SenderSendsBlock(t)
  <2> DEFINE block == local[t][Len(sent[t]) + 1]
  <2>1. block \in Blocks
    BY <1>7 DEF SenderSendsBlock
  <2>2. Data(block) \in Items
    BY <2>1 DEF Data, Items
  <2>3. up' \in [Transfers -> Seq(Items)]
    BY <1>7, <2>2, StreamTypes DEF SenderSendsBlock
  <2>4. sent' \in [Transfers -> Seq(Blocks)]
    BY <1>7, <2>1 DEF SenderSendsBlock
  <2> QED BY <1>7, <2>3, <2>4 DEF SenderSendsBlock
<1>8. CASE SenderFinishes(t)
  <2>1. up' \in [Transfers -> Seq(Items)]
    BY <1>8, <1>1, StreamTypes DEF SenderFinishes, SenderAborts
  <2> QED BY <1>8, <2>1 DEF SenderFinishes, SenderAborts
<1>9. CASE SenderReadsVerification(t)
  <2>1. down' \in [Transfers -> Seq(Replies)]
    BY <1>9, StreamTypes DEF SenderReadsVerification
  <2> QED BY <1>9, <2>1 DEF SenderReadsVerification, AfterVerification
<1>10. CASE SenderReadFails(t)
  BY <1>10 DEF SenderReadFails, quicVars
<1>11. CASE SenderWriteFails(t)
  <2>1. up' \in [Transfers -> Seq(Items)]
    BY <1>11, <1>1, StreamTypes DEF SenderWriteFails, SenderAborts
  <2> QED BY <1>11, <2>1 DEF SenderWriteFails, SenderAborts
<1>12. CASE SenderExits(t)
  BY <1>12 DEF SenderExits, quicVars
<1> QED
  BY <1>3, <1>4, <1>5, <1>6, <1>7, <1>8, <1>9, <1>10, <1>11, <1>12 DEF SenderStep

\* Types: every step of a task of the node.
LEMMA HandlerTypes ==
  ASSUME ITypeOK, NEW t \in Transfers, HandlerStep(t)
  PROVE  NodeTypeOK' /\ QuicTypeOK' /\ OfferKnown'
<1>1. QuicTypeOK /\ NodeTypeOK /\ OfferKnown
  BY DEF ITypeOK, TypeOK
<1>2. \A x \in Transfers : x # None
  BY DistinctAssumption
<1> USE <1>1 DEF NodeTypeOK, OfferKnown, OfferStates, HandlerStates, HandlerEnded, HandlerGoes, Files, Inodes, QuicTypeOK, Ends, NodeCloses
<1>3. CASE NodeAccepts(t)
  BY <1>3 DEF NodeAccepts, quicVars, userVars, diskVars
<1>4. CASE NodeReadsOffer(t)
  <2>1. Head(up[t]) \in Items /\ up' \in [Transfers -> Seq(Items)]
    BY <1>4, StreamTypes DEF NodeReadsOffer
  <2>2. Head(up[t]) \in Offers
    BY <1>4, <2>1 DEF NodeReadsOffer, Items, Fin
  <2> QED BY <1>4, <2>1, <2>2, ZenonT(60) DEF NodeReadsOffer, diskVars
<1>5. CASE NodeOfferFails(t)
  BY <1>5 DEF NodeOfferFails, AfterOfferError, quicVars, userVars, diskVars
<1>6. CASE NodeSendsAccept(t)
  <2>1. offer[t] \in Offers
    BY <1>6 DEF NodeSendsAccept
  <2>2. DecisionFrame("Accept", offer[t].id) \in Replies
    BY <2>1 DEF DecisionFrame, Replies, Offers
  <2>3. down' \in [Transfers -> Seq(Replies)]
    BY <1>6, <2>2, StreamTypes DEF NodeSendsAccept
  <2> QED BY <1>6, <2>3 DEF NodeSendsAccept, userVars, diskVars
<1>7. CASE NodeSendsReject(t)
  <2>1. offer[t] \in Offers
    BY <1>7 DEF NodeSendsReject
  <2>2. DecisionFrame("Reject", offer[t].id) \in Replies
    BY <2>1 DEF DecisionFrame, Replies, Offers
  <2>3. down' \in [Transfers -> Seq(Replies)]
    BY <1>7, <2>2, StreamTypes DEF NodeSendsReject
  <2> QED BY <1>7, <2>3 DEF NodeSendsReject, AfterReject, userVars, diskVars
<1>8. CASE NodeDecisionFails(t)
  BY <1>8 DEF NodeDecisionFails, quicVars, userVars, diskVars
<1>9. CASE NodeChecksDestination(t)
  BY <1>9, ZenonT(60) DEF NodeChecksDestination, ReceiveFileFails, quicVars, userVars, diskVars
<1>10. CASE NodeCreatesPart(t)
  <2>1. PartPath(t) \in Paths
    BY <1>10 DEF NodeCreatesPart, PartPath, Paths, Offers
  <2> QED BY <1>10, <1>2, <2>1, SMTT(30) DEF NodeCreatesPart, quicVars, userVars
<1>11. CASE NodeReceivesBlock(t)
  <2>1. Head(up[t]) \in Items /\ up' \in [Transfers -> Seq(Items)]
    BY <1>11, StreamTypes DEF NodeReceivesBlock
  <2>2. Head(up[t]).block \in Blocks
    BY <1>11, <2>1 DEF NodeReceivesBlock, Items, Offers, Fin
  <2>3. got' \in [Transfers -> Seq(Blocks)]
    BY <1>11, <2>2 DEF NodeReceivesBlock
  <2>4. rpc' \in [Transfers -> HandlerStates] /\ OfferKnown'
    BY <1>11 DEF NodeReceivesBlock
  <2> QED BY <1>11, <2>1, <2>3, <2>4 DEF NodeReceivesBlock, userVars
<1>12. CASE NodeReceivesFin(t)
  <2>1. up' \in [Transfers -> Seq(Items)]
    BY <1>12, StreamTypes DEF NodeReceivesFin
  <2> QED BY <1>12, <2>1 DEF NodeReceivesFin, userVars, diskVars
<1>13. CASE NodeFlushes(t)
  BY <1>13 DEF NodeFlushes, AfterFlush, quicVars, userVars, diskVars
<1>14. CASE NodeReadFails(t)
  BY <1>14 DEF NodeReadFails, quicVars, userVars, diskVars
<1>15. CASE NodeTimesOut(t)
  BY <1>15 DEF NodeTimesOut, quicVars, userVars, diskVars
<1>16. CASE NodeDiscards(t)
  BY <1>16 DEF NodeDiscards, AfterRemoval, ReceiveFileFails, userVars
<1>17. CASE NodeRenames(t)
  <2>1. PartPath(t) \in Paths
    BY <1>17 DEF NodeRenames, PartPath, Paths, Offers
  <2> QED BY <1>17, <2>1 DEF NodeRenames, quicVars, userVars
<1>18. CASE NodeLostPart(t)
  BY <1>18 DEF NodeLostPart, RenameFails, ReceiveFileFails, userVars, diskVars
<1>19. CASE NodeVerifies(t)
  <2>1. offer[t] \in Offers
    BY <1>19 DEF NodeVerifies
  <2>2. VerifiedFrame(offer[t].id, got[t]) \in Replies
    BY <2>1 DEF VerifiedFrame, Replies, Offers
  <2>3. down' \in [Transfers -> Seq(Replies)]
    BY <1>19, <2>2, StreamTypes DEF NodeVerifies
  <2> QED BY <1>19, <2>3 DEF NodeVerifies, userVars, diskVars
<1>20. CASE NodeVerifyFails(t)
  BY <1>20 DEF NodeVerifyFails, quicVars, userVars, diskVars
<1>21. CASE NodeFails(t)
  <2>1. offer[t] \in Offers
    BY <1>21 DEF NodeFails
  <2>2. DecisionFrame("Reject", offer[t].id) \in Replies
    BY <2>1 DEF DecisionFrame, Replies, Offers
  <2>3. down' \in [Transfers -> Seq(Replies)]
    BY <1>21, <2>2, StreamTypes DEF NodeFails
  <2> QED BY <1>21, <2>3 DEF NodeFails, userVars, diskVars
<1> QED
  BY <1>3, <1>4, <1>5, <1>6, <1>7, <1>8, <1>9, <1>10, <1>11, <1>12, <1>13, <1>14,
     <1>15, <1>16, <1>17, <1>18, <1>19, <1>20, <1>21 DEF HandlerStep

\* Types: the prompt, the user's line, and the blocking thread's write.
LEMMA TerminalAndDiskTypes ==
  ASSUME ITypeOK, NEW t \in Transfers, NodeLocksStdin(t) \/ DiskWrites(t) \/ UserStep(t)
  PROVE  NodeTypeOK' /\ QuicTypeOK' /\ OfferKnown'
<1>1. QuicTypeOK /\ NodeTypeOK /\ OfferKnown
  BY DEF ITypeOK, TypeOK
<1> USE <1>1 DEF NodeTypeOK, OfferKnown, OfferStates, HandlerStates, HandlerEnded, HandlerGoes, Files, Inodes, QuicTypeOK, Ends, NodeCloses
<1>2. CASE NodeLocksStdin(t)
  BY <1>2 DEF NodeLocksStdin, quicVars, diskVars
<1>3. CASE DiskWrites(t)
  <2> DEFINE file == data[fd[t]]
             size == IF Len(file) > Total(t) THEN Len(file) ELSE Total(t)
             written == [i \in 1 .. size |-> IF i = Total(t) THEN got[t][i]
                                             ELSE IF i <= Len(file) THEN file[i] ELSE Hole]
  <2>1. data' = [data EXCEPT ![fd[t]] = written]
    BY <1>3 DEF DiskWrites
  <2>2. ASSUME fd[t] \in Transfers
        PROVE  written \in Seq(Blocks \union {Hole})
    BY <2>2, SMTT(30) DEF Total
  <2>3. data' \in [Transfers -> Seq(Blocks \union {Hole})]
    BY <2>1, <2>2
  <2> QED BY <1>3, <2>3 DEF DiskWrites, quicVars, userVars
<1>4. CASE UserAnswers(t)
  BY <1>4 DEF UserAnswers, AfterAnswer, quicVars, diskVars
<1>5. CASE UserAnswersGarbage(t)
  BY <1>5 DEF UserAnswersGarbage, diskVars
<1> QED BY <1>2, <1>3, <1>4, <1>5 DEF UserStep

\* Types: an end that learns of a close or idles out.
LEMMA ConnectionTypes ==
  ASSUME ITypeOK, NEW t \in Transfers, SenderNotices(t) \/ NodeNotices(t)
  PROVE  QuicTypeOK'
  BY DEF ITypeOK, TypeOK, QuicTypeOK, Ends, SenderNotices, NodeNotices, SenderWaitsTooLong,
         NodeWaitsTooLong, SenderLearnsClose, NodeLearnsClose, SenderIdlesOut, NodeIdlesOut,
         SenderCloses, NodeCloses

\* Types: what the environment does to a sender.
LEMMA SenderFaultTypes ==
  ASSUME ITypeOK, NEW t \in Transfers, SenderFault(t)
  PROVE  SenderTypeOK' /\ QuicTypeOK'
<1>1. QuicTypeOK /\ SenderTypeOK
  BY DEF ITypeOK, TypeOK
<1>2. ASSUME NEW kind, Fault(kind)
      PROVE  faults' \in 0 .. MaxFaults
  BY <1>1, <1>2, FaultsAssumption DEF Fault, QuicTypeOK
<1> USE <1>1, ContentAssumption
    DEF SenderTypeOK, SenderStates, SenderEnded, SenderOnline, SenderGoes, QuicTypeOK, Ends, SenderCloses
<1>3. CASE SenderUnreachable(t)
  BY <1>3, <1>2 DEF SenderUnreachable
<1>4. CASE SenderIOFails(t)
  <2>1. up' \in [Transfers -> Seq(Items)]
    BY <1>4, StreamTypes DEF SenderIOFails, SenderAborts, Items
  <2> QED BY <1>4, <1>2, <2>1 DEF SenderIOFails, SenderAborts
<1>5. CASE SenderKilled(t)
  BY <1>5, <1>2 DEF SenderKilled
<1>6. CASE LocalFileEdited(t)
  BY <1>6, <1>2 DEF LocalFileEdited
<1> QED BY <1>3, <1>4, <1>5, <1>6 DEF SenderFault

\* Types: a disk that fails under the node.
LEMMA NodeFaultTypes ==
  ASSUME ITypeOK, NEW t \in Transfers, NodeFault(t)
  PROVE  NodeTypeOK' /\ QuicTypeOK' /\ OfferKnown'
<1>1. QuicTypeOK /\ NodeTypeOK /\ OfferKnown
  BY DEF ITypeOK, TypeOK
<1>2. ASSUME NEW kind, Fault(kind)
      PROVE  faults' \in 0 .. MaxFaults
  BY <1>1, <1>2, FaultsAssumption DEF Fault, QuicTypeOK
<1> USE <1>1 DEF NodeTypeOK, OfferKnown, OfferStates, HandlerStates, HandlerEnded, HandlerGoes, QuicTypeOK
<1>3. CASE NodeCannotCreate(t)
  BY <1>3, <1>2 DEF NodeCannotCreate, userVars, diskVars
<1>4. CASE NodeWriteFails(t)
  <2>1. up' \in [Transfers -> Seq(Items)]
    BY <1>4, StreamTypes DEF NodeWriteFails
  <2> QED BY <1>4, <1>2, <2>1 DEF NodeWriteFails, userVars
<1>5. CASE NodeLeavesPart(t)
  BY <1>5, <1>2 DEF NodeLeavesPart, userVars, diskVars
<1> QED BY <1>3, <1>4, <1>5 DEF NodeFault

\* Types: the node dies and restarts.
LEMMA CrashTypes ==
  ASSUME ITypeOK, NodeCrashes
  PROVE  NodeTypeOK' /\ QuicTypeOK' /\ OfferKnown'
<1>1. QuicTypeOK /\ NodeTypeOK /\ OfferKnown
  BY DEF ITypeOK, TypeOK
<1>2. faults' \in 0 .. MaxFaults
  BY <1>1, FaultsAssumption DEF NodeCrashes, Fault, QuicTypeOK
<1> QED
  BY <1>1, <1>2 DEF NodeCrashes, NodeTypeOK, QuicTypeOK, OfferKnown, OfferStates, HandlerStates,
                    HandlerEnded, Inodes, Ends

\* Types: the path is cut.
LEMMA NetworkTypes ==
  ASSUME ITypeOK, NEW t \in Transfers, NetworkCut(t)
  PROVE  QuicTypeOK'
<1>1. QuicTypeOK
  BY DEF ITypeOK, TypeOK
<1>2. faults' \in 0 .. MaxFaults
  BY <1>1, FaultsAssumption DEF NetworkCut, Fault, QuicTypeOK
<1> QED
  BY <1>1, <1>2 DEF QuicTypeOK, Ends, NetworkCut, SenderIdlesOut, NodeIdlesOut, SenderCloses, NodeCloses

\* Types of the connection while nothing happens on it.
LEMMA QuicTypesUnchanged == QuicTypeOK /\ UNCHANGED quicVars => QuicTypeOK'
  BY DEF QuicTypeOK, quicVars

\* Types of the senders while none takes a step.
LEMMA SenderTypesUnchanged == SenderTypeOK /\ UNCHANGED senderVars => SenderTypeOK'
  BY DEF SenderTypeOK, senderVars

\* Types of the node while it takes no step.
LEMMA NodeTypesUnchanged ==
  NodeTypeOK /\ OfferKnown /\ UNCHANGED nodeVars => NodeTypeOK' /\ OfferKnown'
  BY DEF NodeTypeOK, OfferKnown, nodeVars

\* Types: every step of the system.
LEMMA TypeStep == ITypeOK /\ [Next]_vars => ITypeOK'
<1> SUFFICES ASSUME ITypeOK, [Next]_vars PROVE ITypeOK'
  OBVIOUS
<1>1. QuicTypeOK /\ SenderTypeOK /\ NodeTypeOK /\ OfferKnown
  BY DEF ITypeOK, TypeOK
<1>2. ASSUME QuicTypeOK' /\ SenderTypeOK' /\ NodeTypeOK' /\ OfferKnown'
      PROVE  ITypeOK'
  BY <1>2 DEF ITypeOK, TypeOK
<1>3. ASSUME NEW t \in Transfers, SenderActs(t) PROVE ITypeOK'
  BY <1>1, <1>2, <1>3, SenderTypes, NodeTypesUnchanged DEF SenderActs
<1>4. ASSUME NEW t \in Transfers, HandlerActs(t) PROVE ITypeOK'
  BY <1>1, <1>2, <1>4, HandlerTypes, SenderTypesUnchanged DEF HandlerActs
<1>5. ASSUME NEW t \in Transfers, LocksStdin(t) \/ DiskActs(t) \/ UserActs(t) PROVE ITypeOK'
  BY <1>1, <1>2, <1>5, TerminalAndDiskTypes, SenderTypesUnchanged DEF LocksStdin, DiskActs, UserActs
<1>6. ASSUME NEW t \in Transfers, ConnectionActs(t) PROVE ITypeOK'
  <2>1. UNCHANGED senderVars /\ UNCHANGED nodeVars
    BY <1>6 DEF ConnectionActs
  <2> QED
    BY <1>1, <1>2, <1>6, <2>1, ConnectionTypes, SenderTypesUnchanged, NodeTypesUnchanged
    DEF ConnectionActs
<1>7. ASSUME NEW t \in Transfers, FaultStrikes(t) PROVE ITypeOK'
  <2>1. CASE SenderFault(t) /\ UNCHANGED nodeVars
    BY <1>1, <1>2, <2>1, SenderFaultTypes, NodeTypesUnchanged
  <2>2. CASE NodeFault(t) /\ UNCHANGED senderVars
    BY <1>1, <1>2, <2>2, NodeFaultTypes, SenderTypesUnchanged
  <2>3. CASE NetworkCut(t) /\ UNCHANGED senderVars /\ UNCHANGED nodeVars
    BY <1>1, <1>2, <2>3, NetworkTypes, SenderTypesUnchanged, NodeTypesUnchanged
  <2> QED BY <1>7, <2>1, <2>2, <2>3 DEF FaultStrikes
<1>8. CASE Crash
  BY <1>1, <1>2, <1>8, CrashTypes, SenderTypesUnchanged DEF Crash
<1>9. CASE UNCHANGED vars
  <2>1. UNCHANGED quicVars /\ UNCHANGED senderVars /\ UNCHANGED nodeVars
    BY <1>9 DEF vars
  <2> QED BY <1>1, <1>2, <2>1, QuicTypesUnchanged, SenderTypesUnchanged, NodeTypesUnchanged
<1> QED
  BY <1>3, <1>4, <1>5, <1>6, <1>7, <1>8, <1>9 DEF Next, Terminated

\* The types, and that a task past its offer has one, hold in every state.
THEOREM TypesInvariant == Spec => []ITypeOK
  BY TypeInit, TypeStep, PTL DEF Spec

\* Every variable keeps its type, for any number of transfers, names and blocks.
THEOREM TypeCorrect == Spec => []TypeOK
<1>1. ITypeOK => TypeOK
  BY DEF ITypeOK
<1> QED BY <1>1, TypesInvariant, PTL
---------------------------------------------------------------------------
\* No reply is queued at the start.
LEMMA RepliesInit == Init => IRepliesAll
  BY DEF Init, QuicInit, SenderInit, NodeInit, IRepliesAll, IReplies, SavedStates, RepliesInOrder,
         VerdictTrue, BeforeOffer, BeforePart, AcceptedOpen, AcceptedEnded, Connected

\* Replies stay true when a sender steps; what it then believes is so.
LEMMA SenderReplies ==
  ASSUME ITypeOK, IRepliesAll, NEW t \in Transfers, SenderStep(t), UNCHANGED nodeVars
  PROVE  IRepliesAll'
<1> SUFFICES ASSUME NEW s \in Transfers PROVE IReplies(s)'
  BY DEF IRepliesAll
<1>1. IReplies(s) /\ IReplies(t)
  BY DEF IRepliesAll
<1>2. QuicTypeOK /\ SenderTypeOK
  BY DEF ITypeOK, TypeOK
<1>3. SavedStates(s)'
  BY <1>1 DEF IReplies, SavedStates, nodeVars
<1>0. UNCHANGED <<rpc, saved, got>>
  BY DEF nodeVars
<1> USE <1>1, <1>2, <1>0 DEF IReplies, QuicTypeOK, SenderTypeOK, SenderGoes, SenderCloses, Connected
<1>4. CASE SenderStats(t)
  BY <1>4, <1>3 DEF SenderStats, quicVars, RepliesInOrder, VerdictTrue, BeforeOffer, Honest
<1>5. CASE SenderConnects(t)
  BY <1>5, <1>3 DEF SenderConnects, RepliesInOrder, VerdictTrue, BeforeOffer, Honest
<1>6. CASE SenderOffers(t)
  BY <1>6, <1>3 DEF SenderOffers, SenderWrites, RepliesInOrder, VerdictTrue, BeforeOffer, Honest, AcceptedOpen
<1>7. CASE SenderTakesDecision(t)
  BY <1>7, <1>3, SMTT(30) DEF SenderTakesDecision, AfterDecision, SenderAborts, SenderWrites, SenderReads, RepliesInOrder, VerdictTrue, BeforeOffer, Honest
<1>8. CASE SenderSendsBlock(t)
  BY <1>8, <1>3, SMTT(30) DEF SenderSendsBlock, SenderWrites, RepliesInOrder, VerdictTrue, BeforeOffer, Honest
<1>9. CASE SenderFinishes(t)
  BY <1>9, <1>3 DEF SenderFinishes, SizeUnchanged, SenderAborts, SenderWrites, RepliesInOrder, VerdictTrue, BeforeOffer, Honest
<1>10. CASE SenderReadsVerification(t)
  <2>1. RepliesInOrder(s)'
    BY <1>10 DEF SenderReadsVerification, AfterVerification, SenderReads, RepliesInOrder, BeforeOffer, Honest
  <2>2. Honest(t, Head(down[t])) /\ rpc[t] # "rejected"
    BY <1>10 DEF SenderReadsVerification, SenderReads, RepliesInOrder, AcceptedOpen, AcceptedEnded
  <2>3. VerdictTrue(s)'
    BY <1>10, <2>2 DEF SenderReadsVerification, AfterVerification, VerdictTrue, Honest
  <2> QED BY <1>3, <2>1, <2>3
<1>11. CASE SenderReadFails(t)
  BY <1>11, <1>3 DEF SenderReadFails, quicVars, RepliesInOrder, VerdictTrue, BeforeOffer, Honest
<1>12. CASE SenderWriteFails(t)
  BY <1>12, <1>3, SMTT(30) DEF SenderWriteFails, SenderAborts, SenderWrites, RepliesInOrder, VerdictTrue, BeforeOffer, Honest
<1>13. CASE SenderExits(t)
  BY <1>13, <1>3 DEF SenderExits, quicVars, RepliesInOrder, VerdictTrue, BeforeOffer, Honest
<1> QED
  BY <1>4, <1>5, <1>6, <1>7, <1>8, <1>9, <1>10, <1>11, <1>12, <1>13 DEF SenderStep

\* A task writes only replies that are true, and stands by those it wrote.
LEMMA HandlerReplies ==
  ASSUME ITypeOK, IRepliesAll, NEW t \in Transfers, HandlerStep(t), UNCHANGED senderVars
  PROVE  IRepliesAll'
<1> SUFFICES ASSUME NEW s \in Transfers PROVE IReplies(s)'
  BY DEF IRepliesAll
<1>1. IReplies(s) /\ IReplies(t)
  BY DEF IRepliesAll
<1>2. QuicTypeOK /\ NodeTypeOK
  BY DEF ITypeOK, TypeOK
<1>0. UNCHANGED <<spc, sent, offered>>
  BY DEF senderVars
<1> USE <1>1, <1>2, <1>0
    DEF IReplies, SavedStates, RepliesInOrder, VerdictTrue, Honest, Connected, BeforeOffer, BeforePart,
        AcceptedOpen, AcceptedEnded, QuicTypeOK, NodeTypeOK, HandlerGoes, NodeCloses
<1>3. CASE NodeAccepts(t)
  BY <1>3 DEF NodeAccepts, diskVars, quicVars
<1>4. CASE NodeReadsOffer(t)
  BY <1>4 DEF NodeReadsOffer, NodeReads, diskVars
<1>5. CASE NodeOfferFails(t)
  BY <1>5 DEF NodeOfferFails, AfterOfferError, diskVars, quicVars
<1>6. CASE NodeSendsAccept(t)
  <2>1. CASE s # t
    BY <1>6, <2>1 DEF NodeSendsAccept, NodeWrites, diskVars
  <2>2. CASE s = t
    <3>1. /\ rpc[t] = "accepting" /\ rpc'[t] = "checking"
          /\ UNCHANGED <<up, senderEnd, nodeEnd, got, fd, saved>>
      BY <1>6 DEF NodeSendsAccept, diskVars
    <3>2. \/ ~Connected(t) /\ down'[t] = down[t]
          \/ down'[t] = Append(down[t], DecisionFrame("Accept", offer[t].id))
      BY <1>6 DEF NodeSendsAccept, NodeWrites
    <3>3. rpc' = [rpc EXCEPT ![t] = "checking"] /\ rpc'[t] = "checking"
      BY <1>6 DEF NodeSendsAccept
    <3>4. DecisionFrame("Accept", offer[t].id).type = "Accept"
      BY DEF DecisionFrame
    <3>5. \A i \in 1 .. Len(down'[t]) : down'[t][i].type = "Accept"
      <4>1. \A i \in 1 .. Len(down[t]) : down[t][i].type \in {"Accept", "Reject", "Verified"}
        BY DEF Replies
      <4>2. ASSUME NEW i \in 1 .. Len(down[t]) PROVE FALSE
        <5>1. Honest(t, down[t][i])
          OBVIOUS
        <5> QED BY <3>1, <4>1, <5>1
      <4>3. down[t] = <<>>
        <5>1. down[t] \in Seq(Replies)
          OBVIOUS
        <5> QED BY <4>2, <5>1
      <4> QED BY <3>2, <3>4, <4>3
    <3>6. SavedStates(t)' /\ VerdictTrue(t)'
      BY <3>1, <3>3
    <3>7. RepliesInOrder(t)'
      BY <3>1, <3>2, <3>3, <3>4, <3>5
    <3> QED BY <2>2, <3>6, <3>7
  <2> QED BY <2>1, <2>2
<1>7. CASE NodeSendsReject(t)
  BY <1>7 DEF NodeSendsReject, AfterReject, NodeWrites, DecisionFrame, diskVars
<1>8. CASE NodeDecisionFails(t)
  BY <1>8 DEF NodeDecisionFails, diskVars, quicVars
<1>9. CASE NodeChecksDestination(t)
  BY <1>9 DEF NodeChecksDestination, ReceiveFileFails, diskVars, quicVars
<1>10. CASE NodeCreatesPart(t)
  BY <1>10 DEF NodeCreatesPart, quicVars
<1>11. CASE NodeReceivesBlock(t)
  BY <1>11 DEF NodeReceivesBlock, NodeReads
<1>12. CASE NodeReceivesFin(t)
  BY <1>12 DEF NodeReceivesFin, NodeReads, diskVars
<1>13. CASE NodeFlushes(t)
  BY <1>13 DEF NodeFlushes, AfterFlush, diskVars, quicVars
<1>14. CASE NodeReadFails(t)
  BY <1>14 DEF NodeReadFails, diskVars, quicVars
<1>15. CASE NodeTimesOut(t)
  BY <1>15 DEF NodeTimesOut, diskVars, quicVars
<1>16. CASE NodeDiscards(t)
  BY <1>16 DEF NodeDiscards, ReceiveFileFails
<1>17. CASE NodeRenames(t)
  BY <1>17 DEF NodeRenames, quicVars
<1>18. CASE NodeLostPart(t)
  BY <1>18 DEF NodeLostPart, RenameFails, ReceiveFileFails, diskVars
<1>19. CASE NodeVerifies(t)
  BY <1>19 DEF NodeVerifies, NodeWrites, VerifiedFrame, diskVars
<1>20. CASE NodeVerifyFails(t)
  BY <1>20 DEF NodeVerifyFails, diskVars, quicVars
<1>21. CASE NodeFails(t)
  BY <1>21 DEF NodeFails, NodeWrites, DecisionFrame, diskVars
<1> QED
  BY <1>3, <1>4, <1>5, <1>6, <1>7, <1>8, <1>9, <1>10, <1>11, <1>12, <1>13, <1>14,
     <1>15, <1>16, <1>17, <1>18, <1>19, <1>20, <1>21 DEF HandlerStep

\* The user and the disk do not make a queued reply false.
LEMMA TerminalAndDiskReplies ==
  ASSUME ITypeOK, IRepliesAll, NEW t \in Transfers,
         NodeLocksStdin(t) \/ DiskWrites(t) \/ UserStep(t), UNCHANGED senderVars
  PROVE  IRepliesAll'
<1> SUFFICES ASSUME NEW s \in Transfers PROVE IReplies(s)'
  BY DEF IRepliesAll
<1>1. IReplies(s) /\ IReplies(t)
  BY DEF IRepliesAll
<1>2. QuicTypeOK /\ NodeTypeOK
  BY DEF ITypeOK, TypeOK
<1>0. UNCHANGED <<spc, sent, offered>>
  BY DEF senderVars
<1> USE <1>1, <1>2, <1>0
    DEF IReplies, SavedStates, RepliesInOrder, VerdictTrue, Honest, Connected, BeforeOffer, BeforePart,
        AcceptedOpen, AcceptedEnded, QuicTypeOK, NodeTypeOK, HandlerGoes, NodeCloses
<1>3. CASE NodeLocksStdin(t)
  BY <1>3 DEF NodeLocksStdin, diskVars, quicVars
<1>4. CASE DiskWrites(t)
  BY <1>4 DEF DiskWrites, quicVars
<1>5. CASE UserAnswers(t)
  <2>1. PICK state \in {"accepting", "rejecting"} : HandlerGoes(t, state)
    BY <1>5 DEF UserAnswers, AfterAnswer
  <2>2. /\ rpc[t] = "prompting"
        /\ UNCHANGED <<got, fd, saved, up, down, senderEnd, nodeEnd>>
    BY <1>5 DEF UserAnswers, diskVars, quicVars
  <2> QED BY <2>1, <2>2
<1>6. CASE UserAnswersGarbage(t)
  BY <1>6 DEF UserAnswersGarbage, diskVars
<1> QED BY <1>3, <1>4, <1>5, <1>6 DEF UserStep

\* Losing a connection does not make a queued reply false.
LEMMA ConnectionReplies ==
  ASSUME ITypeOK, IRepliesAll, NEW t \in Transfers,
         SenderNotices(t) \/ NodeNotices(t) \/ NetworkCut(t),
         UNCHANGED senderVars, UNCHANGED nodeVars
  PROVE  IRepliesAll'
<1>1. UNCHANGED <<spc, offered, sent, rpc, got, fd, saved, up, down>>
  BY DEF senderVars, nodeVars, SenderNotices, NodeNotices, NetworkCut, SenderWaitsTooLong, NodeWaitsTooLong,
         SenderLearnsClose, NodeLearnsClose, SenderIdlesOut, NodeIdlesOut
<1>2. \A s \in Transfers : Connected(s)' => Connected(s)
  BY DEF ITypeOK, TypeOK, QuicTypeOK, Connected, SenderNotices, NodeNotices, NetworkCut, SenderWaitsTooLong,
         NodeWaitsTooLong, SenderLearnsClose, NodeLearnsClose, SenderIdlesOut, NodeIdlesOut, SenderCloses, NodeCloses
<1> QED
  BY <1>1, <1>2 DEF IRepliesAll, IReplies, SavedStates, RepliesInOrder, VerdictTrue, Honest

\* Nor do the faults of a sender's machine and of the node's disk.
LEMMA FaultReplies ==
  ASSUME ITypeOK, IRepliesAll, NEW t \in Transfers,
         \/ SenderFault(t) /\ UNCHANGED nodeVars
         \/ NodeFault(t) /\ UNCHANGED senderVars
  PROVE  IRepliesAll'
<1> SUFFICES ASSUME NEW s \in Transfers PROVE IReplies(s)'
  BY DEF IRepliesAll
<1>1. IReplies(s) /\ IReplies(t)
  BY DEF IRepliesAll
<1>2. QuicTypeOK /\ SenderTypeOK /\ NodeTypeOK
  BY DEF ITypeOK, TypeOK
<1> USE <1>1, <1>2
    DEF IReplies, SavedStates, RepliesInOrder, VerdictTrue, Honest, Connected, BeforeOffer, BeforePart,
        AcceptedOpen, AcceptedEnded, QuicTypeOK, SenderTypeOK, NodeTypeOK, HandlerGoes, SenderGoes, SenderCloses
<1>3. CASE SenderUnreachable(t) /\ UNCHANGED nodeVars
  BY <1>3 DEF SenderUnreachable, nodeVars
<1>4. CASE SenderIOFails(t) /\ UNCHANGED nodeVars
  BY <1>4 DEF SenderIOFails, SenderAborts, SenderWrites, nodeVars
<1>5. CASE SenderKilled(t) /\ UNCHANGED nodeVars
  BY <1>5 DEF SenderKilled, nodeVars
<1>6. CASE LocalFileEdited(t) /\ UNCHANGED nodeVars
  BY <1>6 DEF LocalFileEdited, nodeVars
<1>7. CASE NodeCannotCreate(t) /\ UNCHANGED senderVars
  BY <1>7 DEF NodeCannotCreate, diskVars, senderVars
<1>8. CASE NodeWriteFails(t) /\ UNCHANGED senderVars
  BY <1>8 DEF NodeWriteFails, NodeReads, senderVars
<1>9. CASE NodeLeavesPart(t) /\ UNCHANGED senderVars
  BY <1>9 DEF NodeLeavesPart, diskVars, senderVars
<1> QED BY <1>3, <1>4, <1>5, <1>6, <1>7, <1>8, <1>9 DEF SenderFault, NodeFault

\* Nor does a crash of the node: what was saved stays saved.
LEMMA CrashReplies ==
  ASSUME ITypeOK, IRepliesAll, NodeCrashes, UNCHANGED senderVars
  PROVE  IRepliesAll'
<1> SUFFICES ASSUME NEW s \in Transfers PROVE IReplies(s)'
  BY DEF IRepliesAll
<1>1. IReplies(s)
  BY DEF IRepliesAll
<1> QED
  BY <1>1 DEF ITypeOK, TypeOK, QuicTypeOK, NodeTypeOK, NodeCrashes, senderVars, IReplies, SavedStates,
              RepliesInOrder, VerdictTrue, Honest, Connected, BeforeOffer, BeforePart, AcceptedOpen,
              AcceptedEnded, HandlerEnded, HandlerStates

\* Replies: every step of the system.
LEMMA RepliesStep == ITypeOK /\ IRepliesAll /\ [Next]_vars => IRepliesAll'
<1> SUFFICES ASSUME ITypeOK, IRepliesAll, [Next]_vars PROVE IRepliesAll'
  OBVIOUS
<1>1. ASSUME NEW t \in Transfers, SenderActs(t) PROVE IRepliesAll'
  BY <1>1, SenderReplies DEF SenderActs
<1>2. ASSUME NEW t \in Transfers, HandlerActs(t) PROVE IRepliesAll'
  BY <1>2, HandlerReplies DEF HandlerActs
<1>3. ASSUME NEW t \in Transfers, LocksStdin(t) \/ DiskActs(t) \/ UserActs(t) PROVE IRepliesAll'
  BY <1>3, TerminalAndDiskReplies DEF LocksStdin, DiskActs, UserActs
<1>4. ASSUME NEW t \in Transfers, ConnectionActs(t) PROVE IRepliesAll'
  <2>1. UNCHANGED senderVars /\ UNCHANGED nodeVars
    BY <1>4 DEF ConnectionActs
  <2> QED BY <1>4, <2>1, ConnectionReplies DEF ConnectionActs
<1>5. ASSUME NEW t \in Transfers, FaultStrikes(t) PROVE IRepliesAll'
  <2>1. CASE NetworkCut(t) /\ UNCHANGED senderVars /\ UNCHANGED nodeVars
    BY <2>1, ConnectionReplies
  <2> QED BY <1>5, <2>1, FaultReplies DEF FaultStrikes
<1>6. CASE Crash
  BY <1>6, CrashReplies DEF Crash
<1>7. CASE UNCHANGED vars
  BY <1>7 DEF vars, quicVars, senderVars, nodeVars, IRepliesAll, IReplies, SavedStates, RepliesInOrder,
              VerdictTrue, Honest, Connected
<1> QED
  BY <1>1, <1>2, <1>3, <1>4, <1>5, <1>6, <1>7 DEF Next, Terminated

\* What a frame on its way to the sender says is so, in every state.
LEMMA RepliesInvariant == Spec => []IRepliesAll
  BY TypesInvariant, RepliesInit, RepliesStep, PTL DEF Spec

\* When tailsfer-send prints TRANSFER COMPLETE, the node had saved the file
\* and both programs had hashed the same data, of the size offered.
THEOREM CompletionIsTrue == Spec => []CompleteMeansSaved
<1>1. IRepliesAll => CompleteMeansSaved
  BY DEF IRepliesAll, IReplies, SavedStates, VerdictTrue, CompleteMeansSaved
<1> QED BY <1>1, RepliesInvariant, PTL

\* When tailsfer-send prints that the receiver rejected the transfer or
\* reported a failure, no file of it was saved or will be.
THEOREM RejectionIsTrue == Spec => []RejectedMeansUnsaved
<1>1. IRepliesAll => RejectedMeansUnsaved
  BY DEF IRepliesAll, IReplies, SavedStates, VerdictTrue, BeforePart, RejectedMeansUnsaved
<1> QED BY <1>1, RepliesInvariant, PTL
=============================================================================
