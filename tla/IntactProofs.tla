---------------------------- MODULE IntactProofs ----------------------------
(***************************************************************************)
(* A saved file is intact, for every value of the constants, as long as no *)
(* two transfers share a temporary file: SavedIsIntact. The invariant ties *)
(* the stream to what was sent, the hasher to the stream, the inode to the *)
(* hasher and the directory to the inodes.                                 *)
(***************************************************************************)
EXTENDS TransferProofs

\* Data and directory at the start: nothing sent, nothing saved.
LEMMA DataInit == Init => IDataAll /\ IDirectory
<1> SUFFICES ASSUME Init PROVE IDataAll /\ IDirectory
  OBVIOUS
<1>1. IDirectory
  BY DistinctAssumption DEF Init, NodeInit, IDirectory
<1>2. IDataAll
  BY DEF Init, QuicInit, SenderInit, NodeInit, IDataAll, IData, StreamUnread, StreamRead, GotSent,
         DiskOfTransfer, Reading, HasRead, OfferStates, HandlerStates, HandlerEnded, BeforeOffer, Connected
<1> QED BY <1>1, <1>2

\* A step that leaves everything about a transfer alone keeps its invariant.
LEMMA DataKept ==
  ASSUME ITypeOK, NEW s \in Transfers, IData(s),
         UNCHANGED <<rpc[s], offer[s], got[s], fd[s], data[s], spc[s], offered[s], sent[s],
                     up[s], stopped[s], senderEnd[s], nodeEnd[s]>>,
         s \in inflight' <=> s \in inflight
  PROVE  IData(s)'
<1>1. StreamUnread(s)'
  BY DEF IData, StreamUnread, OfferFrame, Connected
<1>2. StreamRead(s)'
  BY DEF IData, StreamRead, Connected
<1>3. GotSent(s)'
  BY DEF IData, GotSent, OfferFrame
<1>4. DiskOfTransfer(s)'
  BY DEF IData, DiskOfTransfer
<1> QED BY <1>1, <1>2, <1>3, <1>4 DEF IData

\* A stream in place stays so when the next item is put behind it.
LEMMA StreamGrows ==
  ASSUME NEW queue \in Seq(Items), NEW item \in Items, NEW first \in Nat \ {0}, NEW n \in Int,
         NEW file, NEW state,
         \A i \in first .. Len(queue) : InPlace(queue[i], n + i, file, state),
         InPlace(item, n + Len(queue) + 1, file, state)
  PROVE  \A i \in first .. Len(Append(queue, item)) :
            InPlace(Append(queue, item)[i], n + i, file, state)
<1> SUFFICES ASSUME NEW i \in first .. Len(Append(queue, item))
             PROVE  InPlace(Append(queue, item)[i], n + i, file, state)
  OBVIOUS
<1>1. Len(Append(queue, item)) = Len(queue) + 1
  OBVIOUS
<1>2. CASE i = Len(queue) + 1
  <2>1. Append(queue, item)[i] = item
    BY <1>2
  <2>2. n + i = n + Len(queue) + 1
    BY <1>2
  <2> QED BY <2>1, <2>2
<1>3. CASE i \in first .. Len(queue)
  <2>1. Append(queue, item)[i] = queue[i]
    BY <1>3
  <2> QED BY <1>3, <2>1
<1> QED BY <1>1, <1>2, <1>3

\* A stream in place stays so when its first item is taken.
LEMMA StreamShrinks ==
  ASSUME NEW queue \in Seq(Items), queue # <<>>, NEW n \in Int, NEW file, NEW state,
         \A i \in 2 .. Len(queue) : InPlace(queue[i], n + i, file, state)
  PROVE  \A i \in 1 .. Len(Tail(queue)) : InPlace(Tail(queue)[i], n + 1 + i, file, state)
<1> SUFFICES ASSUME NEW i \in 1 .. Len(Tail(queue))
             PROVE  InPlace(Tail(queue)[i], n + 1 + i, file, state)
  OBVIOUS
<1>1. i + 1 \in 2 .. Len(queue) /\ Tail(queue)[i] = queue[i + 1]
  OBVIOUS
<1>2. InPlace(queue[i + 1], n + (i + 1), file, state)
  BY <1>1
<1>3. n + (i + 1) = n + 1 + i
  OBVIOUS
<1> QED BY <1>1, <1>2, <1>3

\* Sequences of the same length with the same items are the same.
LEMMA SequenceEquality ==
  ASSUME NEW S, NEW a \in Seq(S), NEW b \in Seq(S), Len(a) = Len(b),
         \A i \in 1 .. Len(a) : a[i] = b[i]
  PROVE  a = b
  OBVIOUS

\* A function on 1 .. n is a sequence of length n.
LEMMA FunctionIsSequence ==
  ASSUME NEW S, NEW n \in Nat, NEW f \in [1 .. n -> S]
  PROVE  f \in Seq(S) /\ Len(f) = n
  OBVIOUS

\* The stream stays the rest of what was sent when a sender steps: it appends
\* the next block, or the end, which it reaches as it stops streaming.
LEMMA SenderData ==
  ASSUME ITypeOK, IRepliesAll, IDataAll, NEW t \in Transfers,
         SenderStep(t) \/ SenderFault(t), UNCHANGED nodeVars
  PROVE  IDataAll'
<1> SUFFICES ASSUME NEW s \in Transfers PROVE IData(s)'
  BY DEF IDataAll
<1>1. IData(s) /\ IData(t) /\ RepliesInOrder(t)
  BY DEF IDataAll, IRepliesAll, IReplies
<1>2. QuicTypeOK /\ SenderTypeOK /\ NodeTypeOK
  BY DEF ITypeOK, TypeOK
<1>3. UNCHANGED <<rpc, offer, got, fd, data, inflight>>
  BY DEF nodeVars
<1>4. CASE s # t
  <2>1. UNCHANGED <<spc[s], offered[s], sent[s], up[s], stopped[s], senderEnd[s], nodeEnd[s]>>
    BY <1>2, <1>4
    DEF QuicTypeOK, SenderTypeOK, SenderStep, SenderFault, SenderStats, SenderConnects, SenderOffers,
        SenderTakesDecision, SenderSendsBlock, SenderFinishes, SenderReadsVerification, SenderReadFails,
        SenderWriteFails, SenderExits, SenderUnreachable, SenderIOFails, SenderKilled, LocalFileEdited,
        SenderGoes, SenderWrites, SenderCloses, SenderAborts, quicVars
  <2> QED BY <1>1, <1>3, <2>1, DataKept
<1>5. CASE s = t
  <2>1. DiskOfTransfer(t)'
    BY <1>1, <1>3 DEF IData, DiskOfTransfer
  <2>2. ASSUME StreamUnread(t)', StreamRead(t)', GotSent(t)'
        PROVE  IData(s)'
    BY <1>5, <2>1, <2>2 DEF IData
  <2>3. StreamUnread(t) /\ StreamRead(t) /\ GotSent(t)
    BY <1>1 DEF IData
  \* A step that only moves the sender on, or ends it.
  <2>4. ASSUME UNCHANGED <<up[t], offered[t], sent[t], nodeEnd[t]>>,
               Connected(t)' => Connected(t),
               spc[t] \notin BeforeOffer, spc'[t] \notin BeforeOffer,
               spc'[t] = "deciding" => spc[t] = "deciding",
               spc'[t] = "sending" => spc[t] \in {"deciding", "sending"}
        PROVE  IData(s)'
    <3>1. spc'[t] \in Streaming => spc[t] \in Streaming
      BY <2>4 DEF Streaming, BeforeOffer
    <3>0. \A item, j, file : InPlace(item, j, file, spc[t]) => InPlace(item, j, file, spc'[t])
      BY <3>1 DEF InPlace
    <3>2. StreamUnread(t)'
      BY <1>3, <2>3, <2>4, <3>0 DEF StreamUnread, OfferFrame
    <3>3. StreamRead(t)'
      BY <1>3, <2>3, <2>4, <3>0 DEF StreamRead
    <3>4. GotSent(t)'
      BY <1>3, <2>3, <2>4, <3>1 DEF GotSent, BeforeOffer, OfferFrame
    <3> QED BY <2>2, <3>2, <3>3, <3>4
  \* A step that ends the stream.
  <2>5. ASSUME SenderWrites(t, Fin), UNCHANGED <<offered, sent, nodeEnd, stopped>>,
               spc[t] \in {"offering", "deciding", "sending"},
               spc[t] = "offering" => ~Connected(t),
               spc'[t] \notin Streaming
        PROVE  IData(s)'
    <3>1. \/ ~Connected(t) /\ up'[t] = up[t]
          \/ Connected(t) /\ up'[t] = Append(up[t], Fin)
      BY <1>2, <2>5 DEF SenderWrites, QuicTypeOK
    <3>2. up[t] \in Seq(Items) /\ sent[t] \in Seq(Blocks) /\ got[t] \in Seq(Blocks)
      BY <1>2 DEF QuicTypeOK, SenderTypeOK, NodeTypeOK, Files
    <3>3. \A item, j : InPlace(item, j, sent[t], spc[t]) => InPlace(item, j, sent[t], spc'[t])
      BY <2>5 DEF InPlace, Streaming
    <3>4. InPlace(Fin, Len(sent[t]) + 1, sent[t], spc'[t])
      BY <2>5 DEF InPlace, Streaming
    <3>5. StreamUnread(t)'
      <4>1. CASE ~Connected(t)
        BY <1>3, <2>3, <2>5, <3>1, <3>3, <4>1 DEF StreamUnread, OfferFrame, Streaming
      <4>2. CASE Connected(t)
        <5> SUFFICES ASSUME rpc[t] \in {"none", "awaiting_offer"} PROVE StreamUnread(t)'
          BY <1>3 DEF StreamUnread
        <5>1. Len(up[t]) = Len(sent[t]) + 1 /\ up'[t] = Append(up[t], Fin) /\ Fin \in Items
          BY <2>3, <2>5, <3>1, <4>2 DEF StreamUnread, Items
        <5>2. \A i \in 2 .. Len(up[t]) : InPlace(up[t][i], -1 + i, sent[t], spc'[t])
          <6> TAKE i \in 2 .. Len(up[t])
          <6>1. InPlace(up[t][i], i - 1, sent[t], spc[t])
            BY <2>3 DEF StreamUnread
          <6>2. i - 1 = -1 + i
            OBVIOUS
          <6> QED BY <3>3, <6>1, <6>2
        <5>3. InPlace(Fin, -1 + Len(up[t]) + 1, sent[t], spc'[t])
          BY <3>2, <3>4, <5>1
        <5>4. \A i \in 2 .. Len(up'[t]) : InPlace(up'[t][i], -1 + i, sent[t], spc'[t])
          BY <3>2, <5>1, <5>2, <5>3, StreamGrows
        <5>5. up'[t][1] = OfferFrame(t, offered[t])
          BY <2>3, <3>2, <5>1 DEF StreamUnread
        <5> QED
          BY <1>3, <2>3, <2>5, <3>2, <5>4, <5>5 DEF StreamUnread, OfferFrame, Streaming
      <4> QED BY <4>1, <4>2
    <3>6. StreamRead(t)'
      <4>1. CASE ~Connected(t)
        BY <1>3, <2>3, <2>5, <3>1, <3>3, <4>1 DEF StreamRead, Streaming
      <4>2. CASE Connected(t)
        <5> SUFFICES ASSUME rpc[t] \in Reading PROVE StreamRead(t)'
          BY <1>3 DEF StreamRead
        <5>1. /\ spc[t] \in {"deciding", "sending"} => Len(got[t]) + Len(up[t]) = Len(sent[t])
              /\ up'[t] = Append(up[t], Fin) /\ Fin \in Items
          BY <2>3, <3>1, <4>2 DEF StreamRead, Items
        <5>2. \A i \in 1 .. Len(up[t]) : InPlace(up[t][i], Len(got[t]) + i, sent[t], spc'[t])
          BY <2>3, <3>3 DEF StreamRead
        <5>3. InPlace(Fin, Len(got[t]) + Len(up[t]) + 1, sent[t], spc'[t])
          BY <2>5, <3>2, <3>4, <4>2, <5>1
        <5>4. \A i \in 1 .. Len(up'[t]) : InPlace(up'[t][i], Len(got[t]) + i, sent[t], spc'[t])
          <6>1. Len(got[t]) \in Int /\ 1 \in Nat \ {0}
            BY <3>2
          <6>2. Fin \in Items
            BY DEF Items
          <6> QED BY <3>2, <5>1, <5>2, <5>3, <6>1, <6>2, StreamGrows
        <5> QED
          BY <1>3, <2>5, <5>4 DEF StreamRead, Streaming
      <4> QED BY <4>1, <4>2
    <3>7. GotSent(t)'
      BY <1>3, <2>3, <2>5, <3>1, <3>2 DEF GotSent, BeforeOffer, OfferFrame, Streaming
    <3> QED BY <2>2, <3>5, <3>6, <3>7
  <2> USE DEF SenderGoes, SenderCloses
  <2>6. CASE SenderStats(t)
    BY <1>1, <1>2, <1>3, <2>2, <2>3, <2>6
    DEF SenderStats, quicVars, StreamUnread, StreamRead, GotSent, InPlace, RepliesInOrder, BeforeOffer,
        Streaming, SenderTypeOK, Reading, HasRead, OfferStates, HandlerStates, HandlerEnded, Connected
  <2>7. CASE SenderConnects(t)
    BY <1>1, <1>2, <1>3, <2>2, <2>3, <2>7
    DEF SenderConnects, StreamUnread, StreamRead, GotSent, InPlace, RepliesInOrder, BeforeOffer,
        Streaming, SenderTypeOK, Reading, HasRead, OfferStates, HandlerStates, HandlerEnded, Connected
  <2>8. CASE SenderOffers(t)
    <3>1. up'[t] = IF Connected(t) THEN <<OfferFrame(t, offered[t])>> ELSE <<>>
      BY <1>1, <1>2, <2>8 DEF SenderOffers, SenderWrites, RepliesInOrder, BeforeOffer, QuicTypeOK
    <3> QED
      <4>1. /\ spc[t] = "offering" /\ spc'[t] = "deciding"
            /\ rpc[t] \in {"none", "awaiting_offer", "failed", "crashed"}
            /\ UNCHANGED <<offered, sent, senderEnd, nodeEnd, stopped>>
        BY <1>1, <1>2, <2>8 DEF SenderOffers, SenderTypeOK, RepliesInOrder, BeforeOffer
      <4>2. sent[t] = <<>> /\ (rpc[t] \in {"none", "awaiting_offer"} => got[t] = <<>>)
        BY <2>3, <4>1 DEF GotSent, StreamUnread
      <4>3. StreamUnread(t)'
        BY <1>3, <3>1, <4>1, <4>2 DEF StreamUnread, OfferFrame, Connected
      <4>4. StreamRead(t)'
        BY <1>3, <4>1 DEF StreamRead, Reading
      <4>5. GotSent(t)'
        BY <1>3, <2>3, <4>1 DEF GotSent, BeforeOffer, Reading, HasRead, OfferStates, OfferFrame, Streaming
      <4> QED BY <2>2, <4>3, <4>4, <4>5
  <2>9. CASE SenderTakesDecision(t)
    <3>1. CASE spc'[t] = "failed"
      BY <1>2, <2>5, <2>9, <3>1
      DEF SenderTakesDecision, SenderAborts, SenderTypeOK, Streaming
    <3>2. CASE spc'[t] \in {"sending", "rejected"}
      BY <1>2, <2>4, <2>9, <3>2
      DEF SenderTakesDecision, SenderAborts, SenderTypeOK, QuicTypeOK, BeforeOffer, Connected
    <3> QED BY <1>2, <2>9, <3>1, <3>2 DEF SenderTakesDecision, SenderAborts, SenderTypeOK
  <2>10. CASE SenderSendsBlock(t)
    <3> DEFINE block == local[t][Len(sent[t]) + 1]
    <3>1. /\ spc[t] = "sending" /\ block \in Blocks
          /\ sent'[t] = Append(sent[t], block)
          /\ UNCHANGED <<spc, offered, senderEnd, nodeEnd, stopped>>
      BY <1>2, <2>10 DEF SenderSendsBlock, SenderTypeOK, Files
    <3>2. \/ ~Connected(t) /\ up'[t] = up[t]
          \/ Connected(t) /\ up'[t] = Append(up[t], Data(block))
      BY <1>2, <2>10 DEF SenderSendsBlock, SenderWrites, QuicTypeOK
    <3>3. up[t] \in Seq(Items) /\ sent[t] \in Seq(Blocks) /\ got[t] \in Seq(Blocks)
      BY <1>2 DEF QuicTypeOK, SenderTypeOK, NodeTypeOK, Files
    <3>4. /\ Len(sent'[t]) = Len(sent[t]) + 1 /\ sent'[t][Len(sent[t]) + 1] = block
          /\ \A j \in 1 .. Len(sent[t]) : sent'[t][j] = sent[t][j]
      BY <3>1, <3>3
    <3>5. \A item : \A j \in Nat \ {0} :
            InPlace(item, j, sent[t], spc[t]) => InPlace(item, j, sent'[t], spc[t])
      BY <3>1, <3>3, <3>4 DEF InPlace, Streaming
    <3>6. InPlace(Data(block), Len(sent[t]) + 1, sent'[t], spc[t])
      BY <3>3, <3>4 DEF InPlace, Data
    <3>7. StreamUnread(t)'
      <4>1. CASE ~Connected(t)
        BY <1>3, <2>3, <3>1, <3>2, <3>3, <3>5, <4>1 DEF StreamUnread, OfferFrame, Connected
      <4>2. CASE Connected(t)
        <5> SUFFICES ASSUME rpc[t] \in {"none", "awaiting_offer"} PROVE StreamUnread(t)'
          BY <1>3 DEF StreamUnread
        <5>1. /\ Len(up[t]) = Len(sent[t]) + 1
              /\ up'[t] = Append(up[t], Data(block)) /\ Data(block) \in Items
          BY <2>3, <3>1, <3>2, <4>2 DEF StreamUnread, Data, Items
        <5>2. \A i \in 2 .. Len(up[t]) : InPlace(up[t][i], i - 1, sent[t], spc[t])
          BY <2>3 DEF StreamUnread
        <5>3. \A i \in 2 .. Len(up[t]) : InPlace(up[t][i], -1 + i, sent'[t], spc[t])
          <6> TAKE i \in 2 .. Len(up[t])
          <6>1. i - 1 \in Nat \ {0} /\ i - 1 = -1 + i
            OBVIOUS
          <6> QED BY <3>5, <5>2, <6>1
        <5>4. InPlace(Data(block), -1 + Len(up[t]) + 1, sent'[t], spc[t])
          BY <3>3, <3>6, <5>1
        <5>5. \A i \in 2 .. Len(up'[t]) : InPlace(up'[t][i], -1 + i, sent'[t], spc[t])
          <6>1. -1 \in Int /\ 2 \in Nat \ {0}
            OBVIOUS
          <6> HIDE DEF block
          <6> QED BY <3>3, <5>1, <5>3, <5>4, <6>1, StreamGrows
        <5>6. up'[t][1] = OfferFrame(t, offered[t]) /\ Len(up'[t]) = Len(sent'[t]) + 1
          BY <2>3, <3>3, <3>4, <5>1 DEF StreamUnread
        <5> QED
          BY <1>3, <2>3, <3>1, <3>3, <5>5, <5>6 DEF StreamUnread, OfferFrame, Connected
      <4> QED BY <4>1, <4>2
    <3>8. StreamRead(t)'
      <4> SUFFICES ASSUME rpc[t] \in Reading PROVE StreamRead(t)'
        BY <1>3 DEF StreamRead
      <4>1. \A i \in 1 .. Len(up[t]) : InPlace(up[t][i], Len(got[t]) + i, sent'[t], spc[t])
        <5> TAKE i \in 1 .. Len(up[t])
        <5>1. Len(got[t]) + i \in Nat \ {0}
          BY <3>3
        <5>2. InPlace(up[t][i], Len(got[t]) + i, sent[t], spc[t])
          BY <2>3 DEF StreamRead
        <5> QED BY <3>5, <5>1, <5>2
      <4>2. CASE ~Connected(t)
        BY <1>3, <3>1, <3>2, <4>1, <4>2 DEF StreamRead, Connected
      <4>3. CASE Connected(t)
        <5>1. /\ Len(got[t]) + Len(up[t]) = Len(sent[t])
              /\ up'[t] = Append(up[t], Data(block)) /\ Data(block) \in Items
          BY <2>3, <3>1, <3>2, <4>3 DEF StreamRead, Data, Items
        <5>2. InPlace(Data(block), Len(got[t]) + Len(up[t]) + 1, sent'[t], spc[t])
          BY <3>6, <5>1
        <5>3. \A i \in 1 .. Len(up'[t]) : InPlace(up'[t][i], Len(got[t]) + i, sent'[t], spc[t])
          <6>1. Len(got[t]) \in Int /\ 1 \in Nat \ {0}
            BY <3>3
          <6> HIDE DEF block
          <6> QED BY <3>3, <4>1, <5>1, <5>2, <6>1, StreamGrows
        <5>4. Len(got[t]) + Len(up'[t]) = Len(sent'[t])
          <6>1. Len(up'[t]) = Len(up[t]) + 1
            BY <3>3, <5>1
          <6>2. Len(got[t]) \in Nat /\ Len(up[t]) \in Nat /\ Len(sent[t]) \in Nat
            BY <3>3
          <6>3. Len(sent'[t]) = Len(sent[t]) + 1
            BY <3>4
          <6>4. Len(got[t]) + Len(up[t]) = Len(sent[t])
            BY <5>1
          <6>5. Len(got[t]) + (Len(up[t]) + 1) = Len(sent[t]) + 1
            <7> DEFINE g == Len(got[t])
                       u == Len(up[t])
                       n == Len(sent[t])
            <7>1. g \in Nat /\ u \in Nat /\ n \in Nat /\ g + u = n
              BY <6>2, <6>4
            <7> HIDE DEF g, u, n
            <7>2. g + (u + 1) = n + 1
              BY <7>1
            <7> QED BY <7>2 DEF g, u, n
          <6> QED BY <6>1, <6>3, <6>5
        <5> QED
          BY <1>3, <3>1, <5>3, <5>4 DEF StreamRead, Connected
      <4> QED BY <4>2, <4>3
    <3>9. GotSent(t)'
      BY <1>3, <2>3, <3>1, <3>3, <3>4 DEF GotSent, BeforeOffer, OfferFrame, Streaming, HasRead
    <3> QED BY <2>2, <3>7, <3>8, <3>9
  <2>11. CASE SenderFinishes(t)
    BY <1>2, <2>5, <2>11 DEF SenderFinishes, SenderAborts, SenderTypeOK, Streaming
  <2>12. CASE SenderReadsVerification(t)
    BY <1>2, <2>4, <2>12
    DEF SenderReadsVerification, AfterVerification, SenderTypeOK, QuicTypeOK, BeforeOffer, Connected
  <2>13. CASE SenderReadFails(t)
    BY <1>2, <2>4, <2>13 DEF SenderReadFails, quicVars, SenderTypeOK, BeforeOffer, Connected
  <2>14. CASE SenderWriteFails(t)
    BY <1>2, <2>3, <2>5, <2>14
    DEF SenderWriteFails, SenderAborts, GotSent, BeforeOffer, Connected, SenderTypeOK, Streaming
  <2>15. CASE SenderExits(t)
    BY <1>2, <2>4, <2>15 DEF SenderExits, quicVars, SenderTypeOK, BeforeOffer, Connected
  <2>16. CASE SenderUnreachable(t)
    BY <1>1, <1>2, <1>3, <2>2, <2>3, <2>16
    DEF SenderUnreachable, StreamUnread, StreamRead, GotSent, InPlace, RepliesInOrder, BeforeOffer,
        Streaming, SenderTypeOK, Reading, HasRead, OfferStates, HandlerStates, HandlerEnded, Connected
  <2>17. CASE SenderIOFails(t)
    BY <1>2, <2>5, <2>17 DEF SenderIOFails, SenderAborts, SenderTypeOK, Streaming
  <2>18. CASE SenderKilled(t)
    BY <1>1, <1>2, <1>3, <2>2, <2>3, <2>4, <2>18
    DEF SenderKilled, SenderOnline, QuicTypeOK, SenderTypeOK, BeforeOffer, Connected,
        StreamUnread, StreamRead, GotSent, RepliesInOrder, OfferStates, Reading, HasRead, Streaming
  <2>19. CASE LocalFileEdited(t)
    BY <1>1, <1>3, <1>5, <2>19, DataKept DEF LocalFileEdited
  <2> QED
    BY <2>6, <2>7, <2>8, <2>9, <2>10, <2>11, <2>12, <2>13, <2>14, <2>15, <2>16, <2>17, <2>18, <2>19
    DEF SenderStep, SenderFault
<1> QED BY <1>4, <1>5
---------------------------------------------------------------------------
\* A step of a task that writes nothing and reads nothing it goes on from.
LEMMA MovesOn ==
  ASSUME ITypeOK, NEW t \in Transfers, IData(t),
         UNCHANGED <<got[t], offer[t], spc[t], offered[t], sent[t], senderEnd[t]>>,
         rpc'[t] \in {"receiving"} \union HasRead =>
            /\ UNCHANGED <<fd[t], data[t]>>
            /\ t \in inflight' <=> t \in inflight
            /\ rpc[t] \in {"receiving"} \union HasRead,
         fd'[t] = fd[t],
         t \in inflight' => /\ t \in inflight
                            /\ rpc'[t] \in {"receiving", "flushing", "discarding", "failing", "failed"},
         rpc'[t] \in Reading \union {"none", "awaiting_offer"} => up'[t] = up[t],
         rpc'[t] \in {"none", "awaiting_offer"} => rpc[t] \in {"none", "awaiting_offer"},
         rpc'[t] \in Reading => rpc[t] \in Reading,
         rpc'[t] \in Reading \ {"receiving"} => rpc[t] \in Reading \ {"receiving"},
         rpc'[t] \in HasRead => rpc[t] \in HasRead,
         rpc'[t] \in {"renaming", "verifying", "done"} =>
            rpc[t] \in {"renaming", "verifying", "done"} \/ Len(sent[t]) = offered[t],
         rpc'[t] \in OfferStates => rpc[t] \in OfferStates,
         rpc'[t] # "none" => nodeEnd'[t] # "none",
         nodeEnd'[t] # nodeEnd[t] => nodeEnd[t] = "open" /\ nodeEnd'[t] = "closed",
         stopped'[t] # stopped[t] => spc[t] \notin BeforeOffer
  PROVE  IData(t)'
<1>1. Connected(t)' => Connected(t)
  BY DEF Connected
<1>2. StreamUnread(t)'
  BY <1>1 DEF IData, StreamUnread, OfferFrame
<1>3. StreamRead(t)'
  BY <1>1 DEF IData, StreamRead
<1>4. GotSent(t)'
  BY DEF IData, GotSent, OfferFrame
<1>5. DiskOfTransfer(t)'
  BY DEF IData, DiskOfTransfer
<1> QED BY <1>2, <1>3, <1>4, <1>5 DEF IData

\* The offer that a task read is the one its sender wrote, and the temporary
\* path it gives is either free or names the file of that very task.
LEMMA OwnPart ==
  ASSUME ITypeOK, IDataAll, IDirectory, DistinctPartPaths,
         NEW t \in Transfers, rpc[t] \in OfferStates
  PROVE  /\ offer[t] = OfferFrame(t, offered[t])
         /\ PartPath(t) = <<FileName[t], TransferId[t]>>
         /\ PartPath(t) \in Paths
         /\ part[PartPath(t)] \in {None, t}
<1>1. offer[t] = OfferFrame(t, offered[t])
  BY DEF IDataAll, IData, GotSent
<1>2. PartPath(t) = <<FileName[t], TransferId[t]>>
  BY <1>1 DEF PartPath, OfferFrame
<1>3. PartPath(t) \in Paths
  BY <1>2, NamesAssumption DEF Paths
<1>4. part[PartPath(t)] \in Transfers \union {None}
  BY <1>3 DEF ITypeOK, TypeOK, NodeTypeOK, Inodes
<1>5. ASSUME NEW s \in Transfers, part[PartPath(t)] = s PROVE s = t
  <2>1. PartPath(t) = <<FileName[s], TransferId[s]>>
    BY <1>3, <1>5, DistinctAssumption DEF IDirectory
  <2>2. FileName[s] = FileName[t] /\ TransferId[s] = TransferId[t]
    BY <1>2, <2>1
  <2> QED BY <2>2 DEF DistinctPartPaths
<1> QED BY <1>1, <1>2, <1>3, <1>4, <1>5

\* A directory whose entries only disappear, and whose published files stay.
LEMMA DirectoryKept ==
  ASSUME IDirectory, out' = out,
         \A p \in Paths : part'[p] # None => part'[p] = part[p],
         \A s \in Transfers : Published(s) => Published(s)'
  PROVE  IDirectory'
<1>1. \A p \in Paths : part'[p] # None => p = <<FileName[part'[p]], TransferId[part'[p]]>>
  BY DEF IDirectory
<1>2. ASSUME NEW n \in Names, NEW s \in Transfers, out'[n] = s
      PROVE  FileName[s] = n /\ Published(s)'
  BY <1>2 DEF IDirectory
<1> QED BY <1>1, <1>2 DEF IDirectory, Published

\* A published file stays so while nothing touches its data.
LEMMA PublishedKept ==
  ASSUME NEW s \in Transfers, Published(s),
         UNCHANGED <<data[s], sent[s], offered[s]>>,
         s \in saved', s \notin inflight', spc'[s] \notin Streaming
  PROVE  Published(s)'
  BY DEF Published
---------------------------------------------------------------------------
\* A step of one task leaves the data of the other transfers alone: each task
\* opens a file of its own.
LEMMA HandlerOthers ==
  ASSUME ITypeOK, IDataAll, IDirectory, DistinctPartPaths, NEW t \in Transfers,
         HandlerStep(t), UNCHANGED senderVars, NEW s \in Transfers, s # t
  PROVE  /\ UNCHANGED <<rpc[s], offer[s], got[s], fd[s], data[s], spc[s], offered[s], sent[s],
                        up[s], stopped[s], senderEnd[s], nodeEnd[s]>>
         /\ s \in inflight' <=> s \in inflight
<1>1. QuicTypeOK /\ NodeTypeOK
  BY DEF ITypeOK, TypeOK
<1>2. UNCHANGED <<spc, offered, sent>>
  BY DEF senderVars
<1>3. CASE NodeCreatesPart(t)
  <2>1. rpc[t] \in OfferStates
    BY <1>3 DEF NodeCreatesPart, OfferStates, HandlerStates
  <2>2. PartPath(t) \in Paths /\ part[PartPath(t)] \in {None, t}
    BY <2>1, OwnPart
  <2>3. data' = [data EXCEPT ![t] = <<>>] /\ fd' = [fd EXCEPT ![t] = t]
    BY <1>3, <2>2 DEF NodeCreatesPart
  <2> QED
    BY <1>1, <1>2, <1>3, <2>3 DEF NodeCreatesPart, HandlerGoes, quicVars, QuicTypeOK, NodeTypeOK
<1>4. CASE ~NodeCreatesPart(t)
  <2>1. UNCHANGED <<fd, data>>
    BY <1>4
    DEF HandlerStep, NodeAccepts, NodeReadsOffer, NodeOfferFails, NodeSendsAccept, NodeSendsReject,
        NodeDecisionFails, NodeChecksDestination, NodeReceivesBlock, NodeReceivesFin, NodeFlushes,
        NodeReadFails, NodeTimesOut, NodeDiscards, NodeRenames, NodeLostPart, NodeVerifies,
        NodeVerifyFails, NodeFails, diskVars
  <2>2. /\ UNCHANGED <<rpc[s], offer[s], got[s], up[s], stopped[s], senderEnd[s], nodeEnd[s]>>
        /\ s \in inflight' <=> s \in inflight
    BY <1>1, <1>4
    DEF QuicTypeOK, NodeTypeOK, HandlerStep, NodeAccepts, NodeReadsOffer, NodeOfferFails, NodeSendsAccept,
        NodeSendsReject, NodeDecisionFails, NodeChecksDestination, NodeReceivesBlock, NodeReceivesFin,
        NodeFlushes, NodeReadFails, NodeTimesOut, NodeDiscards, NodeRenames, NodeLostPart, NodeVerifies,
        NodeVerifyFails, NodeFails, diskVars, quicVars, HandlerGoes, NodeReads, NodeWrites, NodeCloses,
        ReceiveFileFails, RenameFails
  <2> QED BY <1>2, <2>1, <2>2
<1> QED BY <1>3, <1>4

\* A step of a task keeps got a beginning of what was sent, and the file got but
\* for the write in flight.
LEMMA HandlerOwn ==
  ASSUME ITypeOK, IRepliesAll, IDataAll, IDirectory, DistinctPartPaths, NEW t \in Transfers,
         HandlerStep(t), UNCHANGED senderVars
  PROVE  IData(t)'
<1>1. IData(t) /\ RepliesInOrder(t) /\ SavedStates(t)
  BY DEF IDataAll, IRepliesAll, IReplies
<1>2. StreamUnread(t) /\ StreamRead(t) /\ GotSent(t) /\ DiskOfTransfer(t)
  BY <1>1 DEF IData
<1>3. QuicTypeOK /\ NodeTypeOK /\ SenderTypeOK
  BY DEF ITypeOK, TypeOK
<1>4. UNCHANGED <<spc, offered, sent>>
  BY DEF senderVars
<1>5. rpc[t] # "none" => nodeEnd[t] # "none" /\ spc[t] \notin {"start", "connecting"}
  BY <1>2 DEF GotSent
<1>6. rpc[t] \notin {"none", "awaiting_offer", "failed", "crashed"} => spc[t] \notin BeforeOffer
  BY <1>1 DEF RepliesInOrder
<1>7. up[t] \in Seq(Items) /\ got[t] \in Seq(Blocks) /\ sent[t] \in Seq(Blocks)
  BY <1>3 DEF QuicTypeOK, NodeTypeOK, SenderTypeOK, Files
\* Steps that neither read nor open anything.
<1>10. CASE NodeAccepts(t)
  BY <1>1, <1>2, <1>3, <1>4, <1>10, MovesOn
  DEF NodeAccepts, HandlerGoes, diskVars, quicVars, NodeTypeOK, HasRead, Reading, OfferStates, HandlerStates,
      DiskOfTransfer, HandlerEnded
<1>11. CASE NodeOfferFails(t)
  BY <1>1, <1>2, <1>3, <1>4, <1>11, MovesOn
  DEF NodeOfferFails, AfterOfferError, HandlerGoes, diskVars, quicVars, NodeTypeOK, HasRead, Reading,
      OfferStates, HandlerStates, DiskOfTransfer
<1>12. CASE NodeSendsAccept(t)
  BY <1>1, <1>2, <1>3, <1>4, <1>5, <1>12, MovesOn
  DEF NodeSendsAccept, HandlerGoes, diskVars, NodeTypeOK, HasRead, Reading, OfferStates, HandlerStates,
      DiskOfTransfer
<1>13. CASE NodeSendsReject(t)
  BY <1>1, <1>2, <1>3, <1>4, <1>5, <1>13, MovesOn
  DEF NodeSendsReject, AfterReject, NodeCloses, HandlerGoes, diskVars, NodeTypeOK, QuicTypeOK, HasRead,
      Reading, OfferStates, HandlerStates, HandlerEnded, DiskOfTransfer
<1>14. CASE NodeDecisionFails(t)
  BY <1>1, <1>2, <1>3, <1>4, <1>5, <1>14, MovesOn
  DEF NodeDecisionFails, HandlerGoes, diskVars, quicVars, NodeTypeOK, HasRead, Reading, OfferStates,
      HandlerStates, DiskOfTransfer
<1>15. CASE NodeChecksDestination(t)
  BY <1>1, <1>2, <1>3, <1>4, <1>5, <1>6, <1>15, MovesOn
  DEF NodeChecksDestination, ReceiveFileFails, HandlerGoes, diskVars, quicVars, NodeTypeOK, QuicTypeOK,
      HasRead, Reading, OfferStates, HandlerStates, DiskOfTransfer
<1>16. CASE NodeFlushes(t)
  <2>1. rpc'[t] = IF Len(got[t]) = offered[t] THEN "renaming" ELSE "discarding"
    BY <1>2, <1>3, <1>16
    DEF NodeFlushes, AfterFlush, Total, HandlerGoes, NodeTypeOK, GotSent, OfferFrame, OfferStates, HandlerStates
  <2>2. rpc'[t] = "renaming" => Len(sent[t]) = offered[t]
    BY <1>2, <1>16, <2>1 DEF NodeFlushes, GotSent, HasRead
  <2> QED
    BY <1>1, <1>2, <1>3, <1>4, <1>5, <1>16, <2>1, <2>2, MovesOn
    DEF NodeFlushes, Flushed, diskVars, quicVars, HasRead, Reading, OfferStates, HandlerStates, DiskOfTransfer
<1>17. CASE NodeReadFails(t)
  BY <1>1, <1>2, <1>3, <1>4, <1>5, <1>17, MovesOn
  DEF NodeReadFails, HandlerGoes, diskVars, quicVars, NodeTypeOK, HasRead, Reading, OfferStates,
      HandlerStates, DiskOfTransfer
<1>18. CASE NodeTimesOut(t)
  BY <1>1, <1>2, <1>3, <1>4, <1>5, <1>18, MovesOn
  DEF NodeTimesOut, HandlerGoes, diskVars, quicVars, NodeTypeOK, HasRead, Reading, OfferStates,
      HandlerStates, DiskOfTransfer
<1>19. CASE NodeDiscards(t)
  BY <1>1, <1>2, <1>3, <1>4, <1>5, <1>6, <1>19, MovesOn
  DEF NodeDiscards, ReceiveFileFails, HandlerGoes, NodeTypeOK, QuicTypeOK, HasRead, Reading, OfferStates,
      HandlerStates, DiskOfTransfer
<1>20. CASE NodeRenames(t)
  BY <1>1, <1>2, <1>3, <1>4, <1>5, <1>20, MovesOn
  DEF NodeRenames, HandlerGoes, quicVars, NodeTypeOK, HasRead, Reading, OfferStates,
      HandlerStates, DiskOfTransfer
<1>21. CASE NodeLostPart(t)
  BY <1>1, <1>2, <1>3, <1>4, <1>5, <1>6, <1>21, MovesOn
  DEF NodeLostPart, RenameFails, ReceiveFileFails, HandlerGoes, diskVars, NodeTypeOK, QuicTypeOK, HasRead,
      Reading, OfferStates, HandlerStates, DiskOfTransfer
<1>22. CASE NodeVerifies(t)
  BY <1>1, <1>2, <1>3, <1>4, <1>5, <1>22, MovesOn
  DEF NodeVerifies, NodeCloses, HandlerGoes, diskVars, NodeTypeOK, QuicTypeOK, HasRead, Reading,
      OfferStates, HandlerStates, HandlerEnded, DiskOfTransfer
<1>23. CASE NodeVerifyFails(t)
  BY <1>1, <1>2, <1>3, <1>4, <1>5, <1>23, MovesOn
  DEF NodeVerifyFails, HandlerGoes, diskVars, quicVars, NodeTypeOK, HasRead, Reading, OfferStates,
      HandlerStates, DiskOfTransfer
<1>24. CASE NodeFails(t)
  BY <1>1, <1>2, <1>3, <1>4, <1>5, <1>24, MovesOn
  DEF NodeFails, NodeCloses, HandlerGoes, diskVars, NodeTypeOK, QuicTypeOK, Ends, HasRead, Reading,
      OfferStates, HandlerStates, DiskOfTransfer
\* Steps that read the stream, and the one that creates the file.
<1>25. CASE NodeReadsOffer(t)
  <2>1. /\ rpc[t] = "awaiting_offer" /\ rpc'[t] \in {"accepting", "prompting"}
        /\ up[t] # <<>> /\ up'[t] = Tail(up[t]) /\ offer'[t] = up[t][1]
        /\ UNCHANGED <<got, fd, data, inflight, senderEnd, nodeEnd, stopped>>
    BY <1>3, <1>25 DEF NodeReadsOffer, NodeReads, HandlerGoes, diskVars, NodeTypeOK, QuicTypeOK
  <2>2. got[t] = <<>> /\ up[t][1] = OfferFrame(t, offered[t])
    BY <1>2, <2>1 DEF StreamUnread
  <2>3. spc[t] \notin BeforeOffer
    BY <1>1, <2>1 DEF RepliesInOrder
  <2>4. StreamUnread(t)'
    BY <2>1 DEF StreamUnread
  <2>5. StreamRead(t)'
    <3>1. \A i \in 2 .. Len(up[t]) : InPlace(up[t][i], -1 + i, sent[t], spc[t])
      <4> TAKE i \in 2 .. Len(up[t])
      <4>1. i - 1 = -1 + i
        OBVIOUS
      <4> QED BY <1>2, <2>1, <4>1 DEF StreamUnread
    <3>2. \A i \in 1 .. Len(Tail(up[t])) : InPlace(Tail(up[t])[i], -1 + 1 + i, sent[t], spc[t])
      <4>1. -1 \in Int
        OBVIOUS
      <4> QED BY <1>7, <2>1, <3>1, <4>1, StreamShrinks
    <3>3. \A i \in 1 .. Len(Tail(up[t])) : InPlace(Tail(up[t])[i], 0 + i, sent[t], spc[t])
      <4> TAKE i \in 1 .. Len(Tail(up[t]))
      <4>1. -1 + 1 + i = 0 + i
        OBVIOUS
      <4> QED BY <3>2, <4>1
    <3>4. Len(got[t]) = 0 /\ Len(Tail(up[t])) = Len(up[t]) - 1
      BY <1>7, <2>1, <2>2
    <3>5. spc[t] \in {"deciding", "sending"} /\ Connected(t) => Len(up[t]) = Len(sent[t]) + 1
      BY <1>2, <2>1 DEF StreamUnread
    <3>6. Len(up[t]) \in Nat /\ Len(sent[t]) \in Nat
      BY <1>7
    <3>7. spc[t] \in {"deciding", "sending"} /\ Connected(t) => 0 + Len(Tail(up[t])) = Len(sent[t])
      BY <3>4, <3>5, <3>6
    <3> QED BY <1>4, <2>1, <3>3, <3>4, <3>7 DEF StreamRead, Connected
  <2>6. GotSent(t)'
    BY <1>2, <1>4, <1>7, <2>1, <2>2, <2>3 DEF GotSent, OfferFrame, HasRead, BeforeOffer
  <2>7. DiskOfTransfer(t)'
    BY <1>2, <2>1 DEF DiskOfTransfer, HasRead
  <2> QED BY <2>4, <2>5, <2>6, <2>7 DEF IData
<1>26. CASE NodeCreatesPart(t)
  <2>1. rpc[t] = "creating" /\ rpc'[t] = "receiving"
        /\ UNCHANGED <<offer, got, inflight, up, senderEnd, nodeEnd, stopped>>
    BY <1>3, <1>26 DEF NodeCreatesPart, HandlerGoes, quicVars, NodeTypeOK
  <2>2. PartPath(t) \in Paths /\ part[PartPath(t)] \in {None, t}
    BY <2>1, OwnPart DEF OfferStates, HandlerStates
  <2>3. data'[t] = <<>> /\ fd'[t] = t
    BY <1>3, <1>26, <2>2 DEF NodeCreatesPart, NodeTypeOK
  <2>4. got[t] = <<>> /\ t \notin inflight
    BY <1>2, <2>1 DEF GotSent, DiskOfTransfer, Reading
  <2>5. StreamUnread(t)'
    BY <2>1 DEF StreamUnread
  <2>6. StreamRead(t)'
    BY <1>2, <1>4, <2>1 DEF StreamRead, Reading, Connected
  <2>7. GotSent(t)'
    BY <1>2, <1>4, <2>1 DEF GotSent, Reading, HasRead, OfferStates, HandlerStates, OfferFrame
  <2>8. DiskOfTransfer(t)'
    BY <2>1, <2>3, <2>4 DEF DiskOfTransfer
  <2> QED BY <2>5, <2>6, <2>7, <2>8 DEF IData
<1>27. CASE NodeReceivesFin(t)
  <2>1. /\ rpc[t] = "receiving" /\ rpc'[t] = "flushing" /\ up[t] # <<>> /\ up[t][1].type = "Fin"
        /\ UNCHANGED <<offer, got, fd, data, inflight, senderEnd, nodeEnd, stopped>>
    BY <1>3, <1>27 DEF NodeReceivesFin, NodeReads, HandlerGoes, diskVars, NodeTypeOK
  <2>2. InPlace(up[t][1], Len(got[t]) + 1, sent[t], spc[t])
    BY <1>2, <1>7, <2>1 DEF StreamRead, Reading
  <2>3. Len(got[t]) + 1 = Len(sent[t]) + 1 /\ spc[t] \notin Streaming
    BY <2>1, <2>2 DEF InPlace
  <2>4. Len(got[t]) = Len(sent[t])
    BY <1>7, <2>3
  <2>5. StreamUnread(t)' /\ StreamRead(t)'
    BY <2>1 DEF StreamUnread, StreamRead, Reading
  <2>6. GotSent(t)'
    BY <1>2, <1>4, <2>1, <2>3, <2>4
    DEF GotSent, Reading, HasRead, OfferStates, HandlerStates, OfferFrame
  <2>7. DiskOfTransfer(t)'
    BY <1>2, <2>1 DEF DiskOfTransfer, HasRead
  <2> QED BY <2>5, <2>6, <2>7 DEF IData
<1>28. CASE NodeReceivesBlock(t)
  <2> DEFINE block == up[t][1].block
             more == Append(got[t], block)
  <2>1. /\ rpc[t] = "receiving" /\ rpc'[t] \in {"receiving", "discarding"}
        /\ up[t] # <<>> /\ up'[t] = Tail(up[t]) /\ up[t][1].type = "Data"
        /\ got'[t] = more /\ t \notin inflight /\ t \in inflight'
        /\ UNCHANGED <<offer, fd, data, senderEnd, nodeEnd, stopped>>
    BY <1>3, <1>28 DEF NodeReceivesBlock, NodeReads, HandlerGoes, NodeTypeOK, QuicTypeOK
  <2>2. InPlace(up[t][1], Len(got[t]) + 1, sent[t], spc[t])
    BY <1>2, <1>7, <2>1 DEF StreamRead, Reading
  <2>3. Len(got[t]) + 1 <= Len(sent[t]) /\ block = sent[t][Len(got[t]) + 1]
    BY <2>1, <2>2 DEF InPlace, Fin
  <2>4. Len(got[t]) \in Nat /\ Len(sent[t]) \in Nat /\ Len(up[t]) \in Nat
    BY <1>7
  <2>5. block \in Blocks
    BY <1>7, <2>3, <2>4
  <2>6. /\ Len(more) = Len(got[t]) + 1 /\ more[Len(got[t]) + 1] = block
        /\ \A j \in 1 .. Len(got[t]) : more[j] = got[t][j]
        /\ more # <<>>
    <3> HIDE DEF block
    <3> QED BY <1>7, <2>5
  <2> HIDE DEF block, more
  <2>7. StreamUnread(t)'
    BY <2>1 DEF StreamUnread
  <2>8. StreamRead(t)'
    <3>1. \A i \in 2 .. Len(up[t]) : InPlace(up[t][i], Len(got[t]) + i, sent[t], spc[t])
      BY <1>2, <2>1 DEF StreamRead, Reading
    <3>2. \A i \in 1 .. Len(Tail(up[t])) : InPlace(Tail(up[t])[i], Len(got[t]) + 1 + i, sent[t], spc[t])
      <4>1. Len(got[t]) \in Int
        BY <2>4
      <4> QED BY <1>7, <2>1, <3>1, <4>1, StreamShrinks
    <3>3. spc[t] \in {"deciding", "sending"} /\ Connected(t) => Len(got[t]) + Len(up[t]) = Len(sent[t])
      BY <1>2, <2>1 DEF StreamRead, Reading
    <3>4. Len(Tail(up[t])) = Len(up[t]) - 1
      BY <1>7, <2>1
    <3>5. spc[t] \in {"deciding", "sending"} /\ Connected(t) => Len(more) + Len(Tail(up[t])) = Len(sent[t])
      <4> DEFINE g == Len(got[t])
                 u == Len(up[t])
                 n == Len(sent[t])
      <4>1. g \in Nat /\ u \in Nat /\ n \in Nat
        BY <2>4
      <4>2. ASSUME g + u = n PROVE (g + 1) + (u - 1) = n
        <5> HIDE DEF g, u, n
        <5> QED BY <4>1, <4>2
      <4> QED BY <2>6, <3>3, <3>4, <4>2
    <3>6. \A i \in 1 .. Len(up'[t]) : InPlace(up'[t][i], Len(got'[t]) + i, sent[t], spc[t])
      BY <2>1, <2>6, <3>2
    <3> QED BY <1>4, <2>1, <3>5, <3>6 DEF StreamRead, Connected
  <2>9. GotSent(t)'
    <3>1. Len(got'[t]) <= Len(sent[t])
      BY <2>1, <2>3, <2>6
    <3>2. \A j \in 1 .. Len(got'[t]) : got'[t][j] = sent[t][j]
      <4> SUFFICES ASSUME NEW j \in 1 .. Len(more) PROVE more[j] = sent[t][j]
        BY <2>1
      <4>1. j \in 1 .. Len(got[t]) \/ j = Len(got[t]) + 1
        BY <2>4, <2>6
      <4>2. \A i \in 1 .. Len(got[t]) : got[t][i] = sent[t][i]
        BY <1>2 DEF GotSent
      <4> QED BY <2>3, <2>6, <4>1, <4>2
    <3>3. sent[t] # <<>>
      BY <2>3, <2>4
    <3> QED
      BY <1>2, <1>4, <2>1, <3>1, <3>2, <3>3
      DEF GotSent, Reading, HasRead, OfferStates, HandlerStates, OfferFrame
  <2>10. DiskOfTransfer(t)'
    <3>1. fd[t] = t /\ Len(data[t]) = Len(got[t]) /\ \A j \in 1 .. Len(data[t]) : data[t][j] = got[t][j]
      BY <1>2, <2>1 DEF DiskOfTransfer
    <3>2. Len(data[t]) = Len(more) - 1
      BY <2>4, <2>6, <3>1
    <3>3. \A j \in 1 .. Len(data[t]) : data[t][j] = more[j]
      BY <2>6, <3>1
    <3> QED BY <2>1, <2>6, <3>1, <3>2, <3>3 DEF DiskOfTransfer
  <2> QED BY <2>7, <2>8, <2>9, <2>10 DEF IData
<1> QED
  BY <1>10, <1>11, <1>12, <1>13, <1>14, <1>15, <1>16, <1>17, <1>18, <1>19, <1>20, <1>21, <1>22, <1>23,
     <1>24, <1>25, <1>26, <1>27, <1>28
  DEF HandlerStep

\* Data: every step of a task.
LEMMA HandlerData ==
  ASSUME ITypeOK, IRepliesAll, IDataAll, IDirectory, DistinctPartPaths, NEW t \in Transfers,
         HandlerStep(t), UNCHANGED senderVars
  PROVE  IDataAll'
<1> SUFFICES ASSUME NEW s \in Transfers PROVE IData(s)'
  BY DEF IDataAll
<1>1. IData(s)
  BY DEF IDataAll
<1>2. CASE s # t
  BY <1>1, <1>2, HandlerOthers, DataKept
<1>3. CASE s = t
  BY <1>3, HandlerOwn
<1> QED BY <1>2, <1>3

---------------------------------------------------------------------------
\* Data: the prompt and the user's line.
LEMMA TerminalData ==
  ASSUME ITypeOK, IRepliesAll, IDataAll, NEW t \in Transfers,
         NodeLocksStdin(t) \/ UserStep(t), UNCHANGED senderVars
  PROVE  IDataAll'
<1> SUFFICES ASSUME NEW s \in Transfers PROVE IData(s)'
  BY DEF IDataAll
<1>1. IData(s) /\ IData(t)
  BY DEF IDataAll
<1>2. QuicTypeOK /\ NodeTypeOK
  BY DEF ITypeOK, TypeOK
<1>3. UNCHANGED <<spc, offered, sent>>
  BY DEF senderVars
<1>4. UNCHANGED <<offer, got, fd, data, inflight, up, stopped, senderEnd>>
  BY DEF NodeLocksStdin, UserStep, UserAnswers, UserAnswersGarbage, diskVars, quicVars
<1>5. CASE s # t \/ NodeLocksStdin(t)
  <2>1. rpc'[s] = rpc[s] /\ nodeEnd'[s] = nodeEnd[s]
    BY <1>2, <1>5
    DEF QuicTypeOK, NodeTypeOK, NodeLocksStdin, UserStep, UserAnswers, UserAnswersGarbage, HandlerGoes,
        NodeCloses, quicVars
  <2> QED BY <1>1, <1>3, <1>4, <2>1, DataKept
<1>6. CASE s = t /\ UserStep(t)
  <2>1. /\ rpc[t] = "prompting" /\ rpc'[t] \in {"accepting", "rejecting", "failed"}
        /\ nodeEnd'[t] \in {nodeEnd[t], "closed"}
    BY <1>2, <1>6
    DEF QuicTypeOK, NodeTypeOK, UserStep, UserAnswers, AfterAnswer, UserAnswersGarbage, HandlerGoes,
        NodeCloses, quicVars
  <2>2. nodeEnd[t] # "none" /\ t \notin inflight
    BY <1>1, <2>1 DEF IData, GotSent, DiskOfTransfer
  <2> QED
    BY <1>1, <1>2, <1>3, <1>4, <1>6, <2>1, <2>2, MovesOn
    DEF QuicTypeOK, Ends, HasRead, Reading, OfferStates, HandlerStates
<1> QED BY <1>5, <1>6

\* The write in flight puts the last block received behind the others.
LEMMA DiskData ==
  ASSUME ITypeOK, IDataAll, NEW t \in Transfers, DiskWrites(t), UNCHANGED senderVars
  PROVE  IDataAll'
<1> SUFFICES ASSUME NEW s \in Transfers PROVE IData(s)'
  BY DEF IDataAll
<1>1. IData(s) /\ IData(t)
  BY DEF IDataAll
<1>2. NodeTypeOK
  BY DEF ITypeOK, TypeOK
<1>3. UNCHANGED <<spc, offered, sent, rpc, offer, got, fd, up, stopped, senderEnd, nodeEnd>>
  BY DEF senderVars, DiskWrites, quicVars
<1>4. fd[t] = t /\ t \in inflight /\ t \notin inflight' /\ got[t] # <<>>
  BY <1>1 DEF IData, DiskOfTransfer, DiskWrites
<1>5. CASE s # t
  <2>1. data'[s] = data[s] /\ (s \in inflight' <=> s \in inflight)
    BY <1>2, <1>4, <1>5 DEF DiskWrites, NodeTypeOK
  <2> QED BY <1>1, <1>3, <2>1, DataKept
<1>6. CASE s = t
  <2>1. StreamUnread(t)' /\ StreamRead(t)' /\ GotSent(t)'
    BY <1>1, <1>3, ZenonT(60) DEF IData, StreamUnread, StreamRead, GotSent, OfferFrame, Connected
  <2>2. DiskOfTransfer(t)'
    <3>1. CASE rpc[t] \in {"receiving"} \union HasRead
      <4>1. got[t] \in Seq(Blocks) /\ data[t] \in Seq(Blocks \union {Hole})
        BY <1>2 DEF NodeTypeOK, Files
      <4>2. Len(data[t]) = Len(got[t]) - 1 /\ \A j \in 1 .. Len(data[t]) : data[t][j] = got[t][j]
        BY <1>1, <1>4, <3>1 DEF IData, DiskOfTransfer
      <4> DEFINE file == [i \in 1 .. Len(got[t]) |->
                            IF i = Len(got[t]) THEN got[t][i]
                            ELSE IF i <= Len(data[t]) THEN data[t][i] ELSE Hole]
      <4>3. (IF Len(data[t]) > Len(got[t]) THEN Len(data[t]) ELSE Len(got[t])) = Len(got[t])
        BY <4>1, <4>2
      <4>4. data'[t] = file
        BY <1>2, <1>4, <4>3 DEF DiskWrites, Total, NodeTypeOK
      <4>5. \A i \in 1 .. Len(got[t]) : file[i] = got[t][i]
        <5> TAKE i \in 1 .. Len(got[t])
        <5>1. i = Len(got[t]) \/ i \in 1 .. Len(data[t])
          BY <4>1, <4>2
        <5>2. CASE i = Len(got[t])
          BY <5>2
        <5>3. CASE i # Len(got[t]) /\ i \in 1 .. Len(data[t])
          BY <4>1, <4>2, <5>3
        <5> QED BY <5>1, <5>2, <5>3
      <4>6. Len(file) = Len(got[t])
        <5>1. Len(got[t]) \in Nat
          BY <4>1
        <5>2. \A i \in 1 .. Len(got[t]) : file[i] \in Blocks
          <6> HIDE DEF file
          <6>1. \A i \in 1 .. Len(got[t]) : got[t][i] \in Blocks
            BY <4>1
          <6> QED BY <4>5, <6>1
        <5>3. file \in [1 .. Len(got[t]) -> Blocks]
          BY <5>2
        <5> HIDE DEF file
        <5> QED BY <5>1, <5>3, FunctionIsSequence
      <4> HIDE DEF file
      <4> QED
        BY <1>1, <1>3, <1>4, <4>4, <4>5, <4>6 DEF IData, DiskOfTransfer
    <3>2. CASE rpc[t] \notin {"receiving"} \union HasRead
      BY <1>1, <1>3, <1>4, <3>2 DEF IData, DiskOfTransfer
    <3> QED BY <3>1, <3>2
  <2> QED BY <1>6, <2>1, <2>2 DEF IData
<1> QED BY <1>5, <1>6

\* Data: losing a connection ends what can still be queued.
LEMMA ConnectionData ==
  ASSUME ITypeOK, IDataAll, NEW t \in Transfers,
         SenderNotices(t) \/ NodeNotices(t) \/ NetworkCut(t),
         UNCHANGED senderVars, UNCHANGED nodeVars
  PROVE  IDataAll'
<1> SUFFICES ASSUME NEW s \in Transfers PROVE IData(s)'
  BY DEF IDataAll
<1>1. IData(s)
  BY DEF IDataAll
<1>2. UNCHANGED <<spc, offered, sent, rpc, offer, got, fd, data, inflight, up, stopped>>
  BY DEF senderVars, nodeVars, SenderNotices, NodeNotices, NetworkCut, SenderWaitsTooLong, NodeWaitsTooLong,
         SenderLearnsClose, NodeLearnsClose, SenderIdlesOut, NodeIdlesOut
<1>3. /\ senderEnd'[s] # senderEnd[s] => senderEnd[s] = "open" /\ senderEnd'[s] = "closed"
      /\ nodeEnd'[s] # nodeEnd[s] => nodeEnd[s] = "open" /\ nodeEnd'[s] = "closed"
  BY DEF ITypeOK, TypeOK, QuicTypeOK, SenderNotices, NodeNotices, NetworkCut, SenderWaitsTooLong,
         NodeWaitsTooLong, SenderLearnsClose, NodeLearnsClose, SenderIdlesOut, NodeIdlesOut, SenderCloses, NodeCloses
<1>4. Connected(s)' => Connected(s)
  BY <1>3 DEF Connected
<1>5. StreamUnread(s)' /\ StreamRead(s)'
  BY <1>1, <1>2, <1>4 DEF IData, StreamUnread, StreamRead, OfferFrame
<1>6. GotSent(s)'
  BY <1>1, <1>2, <1>3 DEF IData, GotSent, OfferFrame
<1>7. DiskOfTransfer(s)'
  BY <1>1, <1>2 DEF IData, DiskOfTransfer
<1> QED BY <1>5, <1>6, <1>7 DEF IData

\* Data: a disk that fails under the node.
LEMMA NodeFaultData ==
  ASSUME ITypeOK, IRepliesAll, IDataAll, NEW t \in Transfers, NodeFault(t), UNCHANGED senderVars
  PROVE  IDataAll'
<1> SUFFICES ASSUME NEW s \in Transfers PROVE IData(s)'
  BY DEF IDataAll
<1>1. IData(s) /\ IData(t) /\ RepliesInOrder(t)
  BY DEF IDataAll, IRepliesAll, IReplies
<1>2. QuicTypeOK /\ NodeTypeOK
  BY DEF ITypeOK, TypeOK
<1>3. UNCHANGED <<spc, offered, sent>>
  BY DEF senderVars
<1>4. UNCHANGED <<offer, got, fd, data, senderEnd, nodeEnd>>
  BY DEF NodeFault, NodeCannotCreate, NodeWriteFails, NodeLeavesPart, diskVars
<1>5. CASE s # t
  <2>1. /\ UNCHANGED <<rpc[s], up[s], stopped[s]>>
        /\ s \in inflight' <=> s \in inflight
    BY <1>2, <1>5
    DEF QuicTypeOK, NodeTypeOK, NodeFault, NodeCannotCreate, NodeWriteFails, NodeLeavesPart, diskVars,
        HandlerGoes, NodeReads
  <2> QED BY <1>1, <1>3, <1>4, <2>1, DataKept
<1>6. CASE s = t
  <2>1. /\ rpc[t] \in {"checking", "creating", "receiving", "flushing", "discarding", "renaming"}
        /\ rpc'[t] \in {"failing", "discarding"}
        /\ t \in inflight' => t \in inflight
    BY <1>2
    DEF NodeTypeOK, NodeFault, NodeCannotCreate, NodeWriteFails, NodeLeavesPart, diskVars, HandlerGoes
  <2>2. nodeEnd[t] # "none" /\ spc[t] \notin BeforeOffer
    BY <1>1, <2>1 DEF IData, GotSent, RepliesInOrder
  <2> QED
    BY <1>1, <1>2, <1>3, <1>4, <1>6, <2>1, <2>2, MovesOn
    DEF HasRead, Reading, OfferStates, HandlerStates
<1> QED BY <1>5, <1>6

\* Data: a crash loses the write in flight, and only of files not yet renamed.
LEMMA CrashData ==
  ASSUME ITypeOK, IDataAll, NodeCrashes, UNCHANGED senderVars
  PROVE  IDataAll'
<1> SUFFICES ASSUME NEW s \in Transfers PROVE IData(s)'
  BY DEF IDataAll
<1>1. IData(s)
  BY DEF IDataAll
<1>2. UNCHANGED <<spc, offered, sent, offer, got, fd, data, up, stopped, senderEnd>> /\ inflight' = {}
  BY DEF senderVars, NodeCrashes
<1>3. /\ rpc'[s] \in {rpc[s], "crashed"}
      /\ rpc'[s] = rpc[s] => rpc[s] \in HandlerEnded \/ rpc[s] = "none"
      /\ nodeEnd'[s] = IF nodeEnd[s] = "open" THEN "closed" ELSE nodeEnd[s]
      /\ rpc'[s] # "none" => nodeEnd[s] # "none"
  BY <1>1 DEF NodeCrashes, IData, GotSent, ITypeOK, TypeOK, NodeTypeOK, HandlerEnded, HandlerStates
<1>4. rpc[s] = "done" => s \notin inflight
  BY <1>1 DEF IData, DiskOfTransfer
<1> QED
  BY <1>1, <1>2, <1>3, <1>4, MovesOn
  DEF HandlerEnded, HasRead, Reading, OfferStates, HandlerStates

---------------------------------------------------------------------------
\* No step of a sender touches the directory or a published file.
LEMMA SenderDirectory ==
  ASSUME ITypeOK, IDirectory, NEW t \in Transfers,
         SenderStep(t) \/ SenderFault(t), UNCHANGED nodeVars
  PROVE  IDirectory'
<1>1. UNCHANGED <<part, out, data, saved, inflight>>
  BY DEF nodeVars
<1>2. ASSUME NEW s \in Transfers, Published(s) PROVE Published(s)'
  <2>1. spc[s] \notin Streaming
    BY <1>2 DEF Published
  <2>2. offered'[s] = offered[s] /\ sent'[s] = sent[s] /\ spc'[s] \notin Streaming
    BY <2>1
    DEF ITypeOK, TypeOK, SenderTypeOK, SenderStates, SenderEnded, SenderOnline, Streaming, SenderStep,
        SenderFault, SenderStats, SenderConnects, SenderOffers, SenderTakesDecision, SenderSendsBlock,
        SenderFinishes, SenderReadsVerification, AfterVerification, SenderReadFails, SenderWriteFails,
        SenderExits, SenderUnreachable, SenderIOFails, SenderKilled, LocalFileEdited, SenderGoes, SenderAborts
  <2> QED BY <1>1, <1>2, <2>2, PublishedKept DEF Published
<1> QED BY <1>1, <1>2, DirectoryKept

\* Only a rename publishes, and what it publishes is complete.
LEMMA HandlerDirectory ==
  ASSUME ITypeOK, IRepliesAll, IDataAll, IDirectory, DistinctPartPaths, NEW t \in Transfers,
         HandlerStep(t), UNCHANGED senderVars
  PROVE  IDirectory'
<1>1. NodeTypeOK /\ IData(t) /\ \A s \in Transfers : SavedStates(s)
  BY DEF ITypeOK, TypeOK, IDataAll, IRepliesAll, IReplies
<1>2. UNCHANGED <<spc, offered, sent>>
  BY DEF senderVars
<1>3. ASSUME NEW s \in Transfers, Published(s),
             data'[s] = data[s], s \in inflight' => s \in inflight, saved \subseteq saved'
      PROVE  Published(s)'
  BY <1>2, <1>3, PublishedKept DEF Published
<1>4. CASE NodeCreatesPart(t)
  <2>1. rpc[t] = "creating" /\ rpc[t] \in OfferStates
    BY <1>4 DEF NodeCreatesPart, OfferStates, HandlerStates
  <2>2. /\ PartPath(t) = <<FileName[t], TransferId[t]>>
        /\ PartPath(t) \in Paths /\ part[PartPath(t)] \in {None, t}
    BY <2>1, OwnPart
  <2>3. data' = [data EXCEPT ![t] = <<>>] /\ part' = [part EXCEPT ![PartPath(t)] = t]
        /\ UNCHANGED <<inflight, out, saved>>
    BY <1>4, <2>2 DEF NodeCreatesPart
  <2>4. t \notin saved
    BY <1>1, <2>1 DEF SavedStates
  <2>5. ASSUME NEW s \in Transfers, Published(s) PROVE Published(s)'
    <3>1. s # t
      BY <2>4, <2>5 DEF Published
    <3>2. data'[s] = data[s]
      BY <1>1, <2>3, <3>1 DEF NodeTypeOK
    <3> QED BY <1>3, <2>3, <2>5, <3>2
  <2>6. \A p \in Paths : part'[p] = IF p = PartPath(t) THEN t ELSE part[p]
    BY <1>1, <2>3 DEF NodeTypeOK
  <2>7. \A p \in Paths : part'[p] # None => p = <<FileName[part'[p]], TransferId[part'[p]]>>
    BY <2>2, <2>6 DEF IDirectory
  <2>8. ASSUME NEW n \in Names, NEW s \in Transfers, out'[n] = s
        PROVE  FileName[s] = n /\ Published(s)'
    BY <2>3, <2>5, <2>8 DEF IDirectory
  <2> QED BY <2>7, <2>8 DEF IDirectory, Published
<1>5. CASE NodeRenames(t)
  <2>1. rpc[t] = "renaming" /\ rpc[t] \in OfferStates
    BY <1>5 DEF NodeRenames, OfferStates, HandlerStates
  <2>2. /\ offer[t] = OfferFrame(t, offered[t])
        /\ PartPath(t) \in Paths /\ part[PartPath(t)] \in {None, t}
    BY <2>1, OwnPart
  <2>3. /\ out' = [out EXCEPT ![FileName[t]] = t]
        /\ part' = [part EXCEPT ![PartPath(t)] = None]
        /\ saved' = saved \union {t} /\ UNCHANGED <<inflight, data>>
    <3>1. part[PartPath(t)] = t
      BY <1>5, <2>2 DEF NodeRenames
    <3>2. offer[t].name = FileName[t]
      BY <2>2 DEF OfferFrame
    <3> QED BY <1>5, <3>1, <3>2 DEF NodeRenames
  <2>4. /\ t \notin inflight /\ Len(data[t]) = Len(got[t])
        /\ \A j \in 1 .. Len(data[t]) : data[t][j] = got[t][j]
    BY <1>1, <2>1 DEF IData, DiskOfTransfer, HasRead
  <2>5. /\ Len(got[t]) = Len(sent[t]) /\ Len(sent[t]) = offered[t]
        /\ \A j \in 1 .. Len(got[t]) : got[t][j] = sent[t][j]
        /\ spc[t] \notin Streaming
    BY <1>1, <2>1 DEF IData, GotSent, HasRead
  <2>6. Published(t)'
    BY <1>2, <2>3, <2>4, <2>5 DEF Published
  <2>7. ASSUME NEW s \in Transfers, Published(s) PROVE Published(s)'
    BY <1>3, <2>3, <2>7
  <2>8. \A p \in Paths : part'[p] # None => part'[p] = part[p]
    BY <1>1, <2>3 DEF NodeTypeOK
  <2>9. \A p \in Paths : part'[p] # None => p = <<FileName[part'[p]], TransferId[part'[p]]>>
    BY <2>8 DEF IDirectory
  <2>10. \A n \in Names : out'[n] = IF n = FileName[t] THEN t ELSE out[n]
    BY <1>1, <2>3 DEF NodeTypeOK
  <2>11. ASSUME NEW n \in Names, NEW s \in Transfers, out'[n] = s
         PROVE  FileName[s] = n /\ Published(s)'
    BY <2>6, <2>7, <2>10, <2>11 DEF IDirectory
  <2> QED BY <2>9, <2>11 DEF IDirectory, Published
<1>6. CASE ~NodeCreatesPart(t) /\ ~NodeRenames(t)
  <2>1. UNCHANGED <<out, data, saved>> /\ (part' = part \/ part' = AfterRemoval(t))
    BY <1>6
    DEF HandlerStep, NodeAccepts, NodeReadsOffer, NodeOfferFails, NodeSendsAccept, NodeSendsReject,
        NodeDecisionFails, NodeChecksDestination, NodeReceivesBlock, NodeReceivesFin, NodeFlushes,
        NodeReadFails, NodeTimesOut, NodeDiscards, NodeLostPart, NodeVerifies, NodeVerifyFails, NodeFails, diskVars
  <2>2. inflight' = inflight \/ (inflight' = inflight \union {t} /\ rpc[t] = "receiving")
    BY <1>6
    DEF HandlerStep, NodeAccepts, NodeReadsOffer, NodeOfferFails, NodeSendsAccept, NodeSendsReject,
        NodeDecisionFails, NodeChecksDestination, NodeReceivesBlock, NodeReceivesFin, NodeFlushes,
        NodeReadFails, NodeTimesOut, NodeDiscards, NodeLostPart, NodeVerifies, NodeVerifyFails, NodeFails, diskVars
  <2>3. rpc[t] = "receiving" => t \notin saved
    BY <1>1 DEF SavedStates
  <2>4. ASSUME NEW s \in Transfers, Published(s) PROVE Published(s)'
    BY <1>3, <2>1, <2>2, <2>3, <2>4 DEF Published
  <2>5. \A p \in Paths : part'[p] # None => part'[p] = part[p]
    BY <1>1, <2>1 DEF AfterRemoval, NodeTypeOK
  <2> QED BY <2>1, <2>4, <2>5, DirectoryKept
<1> QED BY <1>4, <1>5, <1>6

\* Everything else writes at most to a file that is not published.
LEMMA QuietDirectory ==
  ASSUME ITypeOK, IDataAll, IDirectory, UNCHANGED senderVars,
         \/ UNCHANGED nodeVars
         \/ NodeCrashes
         \/ \E t \in Transfers : NodeLocksStdin(t) \/ UserStep(t) \/ NodeFault(t) \/ DiskWrites(t)
  PROVE  IDirectory'
<1>1. UNCHANGED <<spc, offered, sent>>
  BY DEF senderVars
<1>2. UNCHANGED <<part, out, saved>> /\ inflight' \subseteq inflight
  BY DEF nodeVars, diskVars, NodeCrashes, NodeLocksStdin, UserStep, UserAnswers, UserAnswersGarbage,
         NodeFault, NodeCannotCreate, NodeWriteFails, NodeLeavesPart, DiskWrites, ITypeOK, TypeOK, NodeTypeOK
<1>3. ASSUME NEW s \in Transfers, Published(s) PROVE Published(s)'
  <2>1. s \notin inflight
    BY <1>3 DEF Published
  <2>2. ASSUME NEW t \in Transfers, DiskWrites(t) PROVE data'[s] = data[s]
    <3>1. fd[t] = t /\ t \in inflight
      BY <2>2 DEF IDataAll, IData, DiskOfTransfer, DiskWrites
    <3> QED BY <2>1, <2>2, <3>1 DEF DiskWrites, ITypeOK, TypeOK, NodeTypeOK
  <2>3. ASSUME ~\E t \in Transfers : DiskWrites(t) PROVE data' = data
    BY <2>3 DEF nodeVars, diskVars, NodeCrashes, NodeLocksStdin, UserStep, UserAnswers, UserAnswersGarbage,
                NodeFault, NodeCannotCreate, NodeWriteFails, NodeLeavesPart
  <2> QED BY <1>1, <1>2, <1>3, <2>1, <2>2, <2>3, PublishedKept DEF Published
<1> QED BY <1>2, <1>3, DirectoryKept

---------------------------------------------------------------------------
\* Data and directory: every step of the system.
LEMMA DataStep ==
  ASSUME DistinctPartPaths, ITypeOK, IRepliesAll, IDataAll, IDirectory, [Next]_vars
  PROVE  IDataAll' /\ IDirectory'
<1>1. ASSUME NEW t \in Transfers, SenderActs(t) PROVE IDataAll' /\ IDirectory'
  BY <1>1, SenderData, SenderDirectory DEF SenderActs
<1>2. ASSUME NEW t \in Transfers, HandlerActs(t) PROVE IDataAll' /\ IDirectory'
  BY <1>2, HandlerData, HandlerDirectory DEF HandlerActs
<1>3. ASSUME NEW t \in Transfers, LocksStdin(t) \/ UserActs(t) PROVE IDataAll' /\ IDirectory'
  BY <1>3, TerminalData, QuietDirectory DEF LocksStdin, UserActs
<1>4. ASSUME NEW t \in Transfers, DiskActs(t) PROVE IDataAll' /\ IDirectory'
  BY <1>4, DiskData, QuietDirectory DEF DiskActs
<1>5. ASSUME NEW t \in Transfers, ConnectionActs(t) PROVE IDataAll' /\ IDirectory'
  <2>1. UNCHANGED senderVars /\ UNCHANGED nodeVars
    BY <1>5 DEF ConnectionActs
  <2> QED BY <1>5, <2>1, ConnectionData, QuietDirectory DEF ConnectionActs
<1>6. ASSUME NEW t \in Transfers, FaultStrikes(t) PROVE IDataAll' /\ IDirectory'
  <2>1. CASE NetworkCut(t) /\ UNCHANGED senderVars /\ UNCHANGED nodeVars
    BY <2>1, ConnectionData, QuietDirectory
  <2>2. CASE SenderFault(t) /\ UNCHANGED nodeVars
    BY <2>2, SenderData, SenderDirectory
  <2>3. CASE NodeFault(t) /\ UNCHANGED senderVars
    BY <2>3, NodeFaultData, QuietDirectory
  <2> QED BY <1>6, <2>1, <2>2, <2>3 DEF FaultStrikes
<1>7. CASE Crash
  BY <1>7, CrashData, QuietDirectory DEF Crash
<1>8. CASE UNCHANGED vars
  <2>1. UNCHANGED senderVars /\ UNCHANGED nodeVars /\ UNCHANGED quicVars
    BY <1>8 DEF vars
  <2>2. ASSUME NEW s \in Transfers PROVE IData(s)'
    <3>1. IData(s)
      BY DEF IDataAll
    <3> QED BY <2>1, <3>1, DataKept DEF senderVars, nodeVars, quicVars
  <2> QED BY <2>1, <2>2, QuietDirectory DEF IDataAll
<1> QED
  BY <1>1, <1>2, <1>3, <1>4, <1>5, <1>6, <1>7, <1>8 DEF Next, Terminated

\* A file under its final name is what its sender read and sent, and as long as
\* it offered, whatever the faults, provided that no two transfers share a
\* temporary file.
THEOREM SavedIsIntact == DistinctPartPaths => (Spec => []SavedIntact)
<1>1. ITypeOK /\ IDirectory => SavedIntact
  <2> SUFFICES ASSUME ITypeOK, IDirectory, NEW n \in Names, NEW t \in Transfers, out[n] = t
               PROVE  FileName[t] = n /\ data[t] = sent[t] /\ Len(sent[t]) = offered[t]
    BY DEF SavedIntact
  <2>1. FileName[t] = n /\ Published(t)
    BY DEF IDirectory
  <2>2. data[t] \in Seq(Blocks \union {Hole}) /\ sent[t] \in Seq(Blocks \union {Hole})
    BY DEF ITypeOK, TypeOK, NodeTypeOK, SenderTypeOK, Files
  <2>3. Len(data[t]) = Len(sent[t]) /\ \A j \in 1 .. Len(data[t]) : data[t][j] = sent[t][j]
    BY <2>1 DEF Published
  <2>4. data[t] = sent[t]
    BY <2>2, <2>3, SequenceEquality
  <2> QED BY <2>1, <2>4 DEF Published
<1>2. ASSUME DistinctPartPaths PROVE Spec => []SavedIntact
  <2>1. IDataAll /\ IDirectory /\ [Next]_vars /\ ITypeOK /\ IRepliesAll => IDataAll' /\ IDirectory'
    BY <1>2, DataStep
  <2> QED BY <1>1, <2>1, DataInit, TypesInvariant, RepliesInvariant, PTL DEF Spec
<1> QED BY <1>2
=============================================================================
