-------------------------- MODULE ContentionProofs --------------------------
(***************************************************************************)
(* Transfers that do not compete. With one worker thread they do not       *)
(* compete for the terminal: a prompt blocks the thread, so no other task  *)
(* prints its own prompt over it, and only what was prompted for is saved. *)
(* With different names they do not compete for a file: the test of the    *)
(* destination is far from the rename, and still holds there.              *)
(***************************************************************************)
EXTENDS IntactProofs, FiniteSetTheorems

\* A task exists only for a connection that reached the node.
Reached == \A t \in Transfers : rpc[t] # "none" => nodeEnd[t] # "none"

\* Whoever waits for the user has the last prompt on the terminal.
PromptOnScreen == \A t \in Transfers : rpc[t] = "prompting" => screen = t

\* From the answer on, what is accepted was on the screen.
Underway == {"accepting", "checking", "creating", "receiving", "flushing", "renaming"}

Consented == \A t \in Transfers : rpc[t] \in Underway \/ t \in saved => t \in consent

IConsent == Reached /\ PromptOnScreen /\ Consented

---------------------------------------------------------------------------
LEMMA ConsentInit == Init => IConsent
  BY DEF Init, NodeInit, IConsent, Reached, PromptOnScreen, Consented, Underway

\* The worker is free only when no task prompts.
LEMMA OnePrompt ==
  ASSUME Workers = 1, PromptOnScreen, WorkerFree
  PROVE  \A t \in Transfers : rpc[t] # "prompting"
<1>1. Prompting \subseteq {screen}
  BY DEF PromptOnScreen, Prompting
<1>2. IsFiniteSet(Prompting) /\ Cardinality(Prompting) \in Nat
  BY <1>1, FS_Singleton, FS_Subset, FS_CardinalityType
<1>3. Prompting = {}
  BY <1>2, FS_EmptySet DEF WorkerFree
<1> QED BY <1>3 DEF Prompting

\* Every step of a task.
LEMMA HandlerConsent ==
  ASSUME Workers = 1, Policy = "manual", ITypeOK, IConsent,
         NEW t \in Transfers, HandlerStep(t)
  PROVE  IConsent'
<1>1. QuicTypeOK /\ NodeTypeOK
  BY DEF ITypeOK, TypeOK
<1> USE <1>1 DEF QuicTypeOK, NodeTypeOK, IConsent, Reached, PromptOnScreen, Consented, Underway,
                 HandlerGoes, NodeCloses, userVars
<1>3. CASE NodeAccepts(t)
  BY <1>3 DEF NodeAccepts, diskVars, quicVars
<1>4. CASE NodeReadsOffer(t)
  <2>1. \A s \in Transfers : rpc[s] # "prompting"
    BY OnePrompt DEF HandlerStep
  <2>2. rpc' = [rpc EXCEPT ![t] = "prompting"] /\ screen' = t
    BY <1>4 DEF NodeReadsOffer
  <2> QED BY <1>4, <2>1, <2>2 DEF NodeReadsOffer, diskVars
<1>5. CASE NodeOfferFails(t)
  BY <1>5 DEF NodeOfferFails, AfterOfferError, diskVars, quicVars
<1>6. CASE NodeSendsAccept(t)
  BY <1>6 DEF NodeSendsAccept, diskVars
<1>7. CASE NodeSendsReject(t)
  BY <1>7 DEF NodeSendsReject, AfterReject, diskVars
<1>8. CASE NodeDecisionFails(t)
  BY <1>8 DEF NodeDecisionFails, diskVars, quicVars
<1>9. CASE NodeChecksDestination(t)
  BY <1>9 DEF NodeChecksDestination, ReceiveFileFails, diskVars, quicVars
<1>10. CASE NodeCreatesPart(t)
  BY <1>10 DEF NodeCreatesPart, quicVars
<1>11. CASE NodeReceivesBlock(t)
  BY <1>11 DEF NodeReceivesBlock
<1>12. CASE NodeReceivesFin(t)
  BY <1>12 DEF NodeReceivesFin, diskVars
<1>13. CASE NodeFlushes(t)
  BY <1>13 DEF NodeFlushes, AfterFlush, diskVars, quicVars
<1>14. CASE NodeReadFails(t)
  BY <1>14 DEF NodeReadFails, diskVars, quicVars
<1>15. CASE NodeTimesOut(t)
  BY <1>15 DEF NodeTimesOut, diskVars, quicVars
<1>16. CASE NodeDiscards(t)
  BY <1>16 DEF NodeDiscards, ReceiveFileFails
<1>17. CASE NodeRenames(t)
  BY <1>17 DEF NodeRenames, quicVars
<1>18. CASE NodeLostPart(t)
  BY <1>18 DEF NodeLostPart, RenameFails, ReceiveFileFails, diskVars
<1>19. CASE NodeVerifies(t)
  BY <1>19 DEF NodeVerifies, diskVars
<1>20. CASE NodeVerifyFails(t)
  BY <1>20 DEF NodeVerifyFails, diskVars, quicVars
<1>21. CASE NodeFails(t)
  BY <1>21 DEF NodeFails, diskVars
<1> QED
  BY <1>3, <1>4, <1>5, <1>6, <1>7, <1>8, <1>9, <1>10, <1>11, <1>12, <1>13, <1>14,
     <1>15, <1>16, <1>17, <1>18, <1>19, <1>20, <1>21 DEF HandlerStep

\* The user, the disk, and the faults of the node.
LEMMA UserConsent ==
  ASSUME ITypeOK, IConsent, NEW t \in Transfers,
         UserStep(t) \/ NodeLocksStdin(t) \/ DiskWrites(t) \/ NodeFault(t)
  PROVE  IConsent'
<1>1. QuicTypeOK /\ NodeTypeOK
  BY DEF ITypeOK, TypeOK
<1> USE <1>1 DEF QuicTypeOK, NodeTypeOK, IConsent, Reached, PromptOnScreen, Consented, Underway,
                 HandlerGoes, NodeCloses, userVars
<1>2. CASE UserAnswers(t)
  BY <1>2 DEF UserAnswers, AfterAnswer, diskVars, quicVars
<1>3. CASE UserAnswersGarbage(t)
  BY <1>3 DEF UserAnswersGarbage, diskVars
<1>4. CASE NodeLocksStdin(t)
  BY <1>4 DEF NodeLocksStdin, diskVars, quicVars
<1>5. CASE DiskWrites(t)
  BY <1>5 DEF DiskWrites, quicVars
<1>6. CASE NodeCannotCreate(t)
  BY <1>6 DEF NodeCannotCreate, diskVars
<1>7. CASE NodeWriteFails(t)
  BY <1>7 DEF NodeWriteFails
<1>8. CASE NodeLeavesPart(t)
  BY <1>8 DEF NodeLeavesPart, diskVars
<1> QED
  BY <1>2, <1>3, <1>4, <1>5, <1>6, <1>7, <1>8 DEF UserStep, NodeFault

\* Senders and connections leave the node alone, but for its end.
LEMMA OutsideConsent ==
  ASSUME ITypeOK, IConsent, NEW t \in Transfers, UNCHANGED nodeVars,
         \/ SenderStep(t) \/ SenderFault(t)
         \/ SenderNotices(t) \/ NodeNotices(t) \/ NetworkCut(t)
  PROVE  IConsent'
<1>1. \A s \in Transfers : nodeEnd[s] # "none" => nodeEnd'[s] # "none"
  <2>1. nodeEnd \in [Transfers -> Ends]
    BY DEF ITypeOK, TypeOK, QuicTypeOK
  <2>2. CASE SenderStep(t)
    BY <2>1, <2>2 DEF SenderStep, SenderStats, SenderConnects, SenderOffers, SenderTakesDecision,
       SenderSendsBlock, SenderFinishes, SenderReadsVerification, SenderReadFails,
       SenderWriteFails, SenderExits, quicVars
  <2>3. CASE SenderFault(t)
    BY <2>3 DEF SenderFault, SenderUnreachable, SenderIOFails, SenderKilled, LocalFileEdited
  <2>4. CASE SenderNotices(t) \/ NodeNotices(t) \/ NetworkCut(t)
    BY <2>1, <2>4 DEF SenderNotices, NodeNotices, NetworkCut, SenderWaitsTooLong, NodeWaitsTooLong,
       SenderLearnsClose, NodeLearnsClose, SenderIdlesOut, NodeIdlesOut, NodeCloses
  <2> QED BY <2>2, <2>3, <2>4
<1>2. UNCHANGED <<rpc, screen, consent, saved>>
  BY DEF nodeVars
<1> QED
  BY <1>1, <1>2 DEF IConsent, Reached, PromptOnScreen, Consented

LEMMA CrashConsent ==
  ASSUME ITypeOK, IConsent, NodeCrashes
  PROVE  IConsent'
  BY DEF ITypeOK, TypeOK, QuicTypeOK, NodeTypeOK, NodeCrashes, IConsent, Reached, PromptOnScreen,
     Consented, Underway, HandlerEnded

LEMMA ConsentStep ==
  Workers = 1 /\ Policy = "manual" /\ ITypeOK /\ IConsent /\ [Next]_vars => IConsent'
<1> SUFFICES ASSUME Workers = 1, Policy = "manual", ITypeOK, IConsent, [Next]_vars PROVE IConsent'
  OBVIOUS
<1>1. ASSUME NEW t \in Transfers, SenderActs(t) \/ ConnectionActs(t) PROVE IConsent'
  BY <1>1, OutsideConsent DEF SenderActs, ConnectionActs, nodeVars, diskVars, userVars
<1>2. ASSUME NEW t \in Transfers, HandlerActs(t) PROVE IConsent'
  BY <1>2, HandlerConsent DEF HandlerActs
<1>3. ASSUME NEW t \in Transfers, LocksStdin(t) \/ DiskActs(t) \/ UserActs(t) PROVE IConsent'
  BY <1>3, UserConsent DEF LocksStdin, DiskActs, UserActs
<1>4. ASSUME NEW t \in Transfers, FaultStrikes(t) PROVE IConsent'
  BY <1>4, OutsideConsent, UserConsent DEF FaultStrikes
<1>5. CASE Crash
  BY <1>5, CrashConsent DEF Crash
<1>6. CASE Terminated \/ UNCHANGED vars
  BY <1>6 DEF Terminated, vars, quicVars, nodeVars, IConsent, Reached, PromptOnScreen, Consented
<1> QED BY <1>1, <1>2, <1>3, <1>4, <1>5, <1>6 DEF Next

\* With the manual policy and one worker thread, only a file whose own prompt
\* was on the terminal when the user typed y is saved, for any number of
\* transfers and faults (handle_connection: the prompt; with more threads
\* another prompt can come in between).
THEOREM OneWorkerAsks == Workers = 1 => (Spec => []ConsentBeforeSave)
<1> SUFFICES ASSUME Workers = 1 PROVE Spec => []ConsentBeforeSave
  OBVIOUS
<1>1. CASE Policy = "manual"
  <2>1. ITypeOK /\ IConsent /\ [Next]_vars => IConsent'
    BY <1>1, ConsentStep
  <2>2. ITypeOK /\ IConsent => ConsentBeforeSave
    BY DEF ITypeOK, TypeOK, NodeTypeOK, IConsent, Consented, ConsentBeforeSave
  <2> QED BY <2>1, <2>2, ConsentInit, TypesInvariant, PTL DEF Spec
<1>2. CASE Policy # "manual"
  <2>1. ConsentBeforeSave
    BY <1>2 DEF ConsentBeforeSave
  <2> QED BY <2>1, PTL
<1> QED BY <1>1, <1>2

---------------------------------------------------------------------------
(***************************************************************************)
(* Different names.                                                        *)
(***************************************************************************)
\* No two transfers have one file name.
DistinctNames == \A s, t \in Transfers : FileName[s] = FileName[t] => s = t

\* Behind the test of the destination, up to the rename.
Between == {"creating", "receiving", "flushing", "renaming"}

\* What the test found still is so.
IFree == \A t \in Transfers : rpc[t] \in Between => out[FileName[t]] = None

\* The offer that a task has read is the one of its transfer.
NamesKnown == \A t \in Transfers : rpc[t] \in OfferStates => offer[t].name = FileName[t]

---------------------------------------------------------------------------
LEMMA OffersAreOwn == IDataAll => NamesKnown
<1> SUFFICES ASSUME IDataAll, NEW t \in Transfers, rpc[t] \in OfferStates
             PROVE  offer[t].name = FileName[t]
  BY DEF NamesKnown
<1>1. GotSent(t)
  BY DEF IDataAll, IData
<1>2. offer[t] = OfferFrame(t, offered[t])
  BY <1>1 DEF GotSent
<1> QED BY <1>2 DEF OfferFrame

\* A step of a task renames, or leaves the final names alone; it gets behind
\* the test only by the test.
LEMMA HandlerOut ==
  ASSUME ITypeOK, NEW t \in Transfers, HandlerStep(t)
  PROVE  /\ rpc' = [rpc EXCEPT ![t] = rpc'[t]]
         /\ \/ NodeRenames(t)
            \/ /\ out' = out
               /\ rpc'[t] \in Between => rpc[t] \in Between \/ (rpc[t] = "checking" /\ DestinationFree(t))
<1>1. NodeTypeOK
  BY DEF ITypeOK, TypeOK
<1> USE <1>1 DEF NodeTypeOK, Between, HandlerGoes
<1>2. CASE NodeAccepts(t) \/ NodeReadsOffer(t) \/ NodeOfferFails(t)
  BY <1>2 DEF NodeAccepts, NodeReadsOffer, NodeOfferFails, AfterOfferError, diskVars
<1>3. CASE NodeSendsAccept(t) \/ NodeSendsReject(t) \/ NodeDecisionFails(t)
  BY <1>3 DEF NodeSendsAccept, NodeSendsReject, AfterReject, NodeDecisionFails, diskVars
<1>4. CASE NodeChecksDestination(t)
  BY <1>4 DEF NodeChecksDestination, ReceiveFileFails, diskVars
<1>5. CASE NodeCreatesPart(t) \/ NodeReceivesBlock(t) \/ NodeReceivesFin(t)
  BY <1>5 DEF NodeCreatesPart, NodeReceivesBlock, NodeReceivesFin, diskVars
<1>6. CASE NodeFlushes(t) \/ NodeReadFails(t) \/ NodeTimesOut(t)
  BY <1>6 DEF NodeFlushes, AfterFlush, NodeReadFails, NodeTimesOut, diskVars
<1>7. CASE NodeDiscards(t) \/ NodeLostPart(t)
  BY <1>7 DEF NodeDiscards, NodeLostPart, RenameFails, ReceiveFileFails, diskVars
<1>8. CASE NodeRenames(t)
  BY <1>8 DEF NodeRenames
<1>9. CASE NodeVerifies(t) \/ NodeVerifyFails(t) \/ NodeFails(t)
  BY <1>9 DEF NodeVerifies, NodeVerifyFails, NodeFails, diskVars
<1> QED
  BY <1>2, <1>3, <1>4, <1>5, <1>6, <1>7, <1>8, <1>9 DEF HandlerStep

\* The terminal, the disk and the faults of the node: no final name changes,
\* and no task gets behind the test.
LEMMA NodeOut ==
  ASSUME ITypeOK, NEW t \in Transfers,
         UserStep(t) \/ NodeLocksStdin(t) \/ DiskWrites(t) \/ NodeFault(t)
  PROVE  /\ out' = out
         /\ \A s \in Transfers : rpc'[s] \in Between => rpc[s] \in Between
<1>1. NodeTypeOK
  BY DEF ITypeOK, TypeOK
<1> USE <1>1 DEF NodeTypeOK, Between, HandlerGoes
<1>2. CASE UserStep(t)
  BY <1>2 DEF UserStep, UserAnswers, AfterAnswer, UserAnswersGarbage, diskVars
<1>3. CASE NodeLocksStdin(t) \/ DiskWrites(t)
  BY <1>3 DEF NodeLocksStdin, DiskWrites, diskVars
<1>4. CASE NodeFault(t)
  BY <1>4 DEF NodeFault, NodeCannotCreate, NodeWriteFails, NodeLeavesPart, diskVars
<1> QED BY <1>2, <1>3, <1>4

\* A step changes a final name only by a rename, onto a name that is free.
LEMMA FreeStep ==
  ASSUME DistinctNames, ITypeOK, NamesKnown, IFree, [Next]_vars
  PROVE  /\ IFree'
         /\ \A n \in Names : out[n] # None => out'[n] = out[n]
<1>1. NodeTypeOK
  BY DEF ITypeOK, TypeOK
<1>2. ASSUME out' = out, \A s \in Transfers : rpc'[s] \in Between => rpc[s] \in Between
      PROVE  IFree' /\ \A n \in Names : out[n] # None => out'[n] = out[n]
  BY <1>2 DEF IFree
<1>3. ASSUME NEW t \in Transfers, HandlerActs(t)
      PROVE  IFree' /\ \A n \in Names : out[n] # None => out'[n] = out[n]
  <2>1. HandlerStep(t)
    BY <1>3 DEF HandlerActs
  <2>2. rpc' = [rpc EXCEPT ![t] = rpc'[t]] /\ rpc \in [Transfers -> HandlerStates]
    BY <1>1, <2>1, HandlerOut DEF NodeTypeOK
  <2>3. CASE /\ out' = out
             /\ rpc'[t] \in Between => rpc[t] \in Between \/ (rpc[t] = "checking" /\ DestinationFree(t))
    <3>1. rpc[t] = "checking" /\ DestinationFree(t) => out[FileName[t]] = None
      BY DEF NamesKnown, DestinationFree, OfferStates, HandlerStates
    <3> QED BY <2>2, <2>3, <3>1 DEF IFree
  <2>4. CASE NodeRenames(t)
    <3>1. rpc[t] = "renaming" /\ rpc'[t] = "verifying"
      BY <2>2, <2>4 DEF NodeRenames, HandlerGoes
    <3>2. out[FileName[t]] = None /\ offer[t].name = FileName[t]
      BY <3>1 DEF IFree, Between, NamesKnown, OfferStates, HandlerStates
    <3>3. \A n \in Names \ {FileName[t]} : out'[n] = out[n]
      BY <1>1, <2>4, <3>2 DEF NodeRenames, NodeTypeOK
    <3>4. ASSUME NEW s \in Transfers, rpc'[s] \in Between PROVE out'[FileName[s]] = None
      <4>1. s # t /\ rpc[s] \in Between
        BY <2>2, <3>1, <3>4 DEF Between
      <4>2. FileName[s] \in Names \ {FileName[t]}
        BY <4>1, NamesAssumption DEF DistinctNames
      <4> QED BY <3>3, <4>1, <4>2 DEF IFree
    <3> QED BY <3>2, <3>3, <3>4 DEF IFree
  <2> QED BY <2>1, <2>3, <2>4, HandlerOut
<1>4. ASSUME NEW t \in Transfers, LocksStdin(t) \/ DiskActs(t) \/ UserActs(t)
      PROVE  IFree' /\ \A n \in Names : out[n] # None => out'[n] = out[n]
  BY <1>2, <1>4, NodeOut DEF LocksStdin, DiskActs, UserActs
<1>5. ASSUME NEW t \in Transfers, FaultStrikes(t)
      PROVE  IFree' /\ \A n \in Names : out[n] # None => out'[n] = out[n]
  BY <1>2, <1>5, NodeOut DEF FaultStrikes, nodeVars
<1>6. ASSUME NEW t \in Transfers, SenderActs(t) \/ ConnectionActs(t)
      PROVE  IFree' /\ \A n \in Names : out[n] # None => out'[n] = out[n]
  BY <1>2, <1>6 DEF SenderActs, ConnectionActs, nodeVars
<1>7. CASE Crash
  BY <1>1, <1>2, <1>7 DEF Crash, NodeCrashes, NodeTypeOK, Between
<1>8. CASE Terminated \/ UNCHANGED vars
  BY <1>2, <1>8 DEF Terminated, vars, nodeVars
<1> QED BY <1>3, <1>4, <1>5, <1>6, <1>7, <1>8 DEF Next

LEMMA FreeInit == Init => IFree
  BY DEF Init, NodeInit, IFree, Between

\* A name that exists in the directory keeps its file when no two transfers
\* have one name, however late the rename and whatever the faults
\* (receive_file: try_exists before anything, rename at the end).
THEOREM NamesAreKept == DistinctNames => (Spec => NoOverwrite)
<1> SUFFICES ASSUME DistinctNames PROVE Spec => NoOverwrite
  OBVIOUS
<1>1. DistinctPartPaths
  BY DEF DistinctNames, DistinctPartPaths
<1>2. ITypeOK /\ IRepliesAll /\ IDataAll /\ IDirectory /\ [Next]_vars => IDataAll' /\ IDirectory'
  BY <1>1, DataStep
<1>3. ITypeOK /\ IDataAll /\ IFree /\ [Next]_vars => IFree'
  BY FreeStep, OffersAreOwn
<1>4. ITypeOK /\ IDataAll /\ IFree /\ [Next]_vars =>
        [\A n \in Names : out[n] # None => out'[n] = out[n]]_out
  BY FreeStep, OffersAreOwn
<1> QED
  BY <1>2, <1>3, <1>4, DataInit, FreeInit, TypesInvariant, RepliesInvariant, PTL DEF Spec, NoOverwrite
=============================================================================
