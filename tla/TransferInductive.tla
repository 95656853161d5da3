------------------------- MODULE TransferInductive -------------------------
(***************************************************************************)
(* The inductive invariants behind the theorems of TransferProofs. Each is *)
(* a conjunction over the transfers of what relates the sender's position, *)
(* the task's position, the streams between them and the disk.             *)
(***************************************************************************)
EXTENDS Transfer

(***************************************************************************)
(* Types: once a task has read an offer, it is one.                        *)
(***************************************************************************)
OfferStates == HandlerStates \ {"none", "awaiting_offer", "failed", "crashed"}

OfferKnown == \A t \in Transfers : rpc[t] \in OfferStates => offer[t] \in Offers

ITypeOK == TypeOK /\ OfferKnown

---------------------------------------------------------------------------
(***************************************************************************)
(* Replies: what a frame from the node says is so, and it stays so until   *)
(* the frame is read. The first one answers the offer.                     *)
(***************************************************************************)
BeforeOffer   == {"start", "connecting", "offering"}
BeforePart    == {"none", "awaiting_offer", "prompting", "accepting", "rejecting",
                  "rejected", "checking", "creating"}
AcceptedOpen  == {"checking", "creating", "receiving", "flushing", "discarding",
                  "renaming", "verifying", "failing"}
AcceptedEnded == {"done", "failed", "crashed"}

Honest(t, frame) ==
  /\ frame.type = "Accept" => rpc[t] \in AcceptedOpen \union AcceptedEnded
  /\ frame.type = "Reject" => rpc[t] = "rejected" \/ (rpc[t] = "failed" /\ t \notin saved)
  /\ frame.type = "Verified" => rpc[t] = "done" /\ frame.hash = got[t]

SavedStates(t) ==
  /\ rpc[t] \in {"verifying", "done"} => t \in saved
  /\ t \in saved => rpc[t] \in {"verifying", "done", "failed", "crashed"}
  /\ rpc[t] \in BeforePart => fd[t] = None

RepliesInOrder(t) ==
  /\ \A i \in 1 .. Len(down[t]) : Honest(t, down[t][i])
  /\ spc[t] \in BeforeOffer => /\ rpc[t] \in {"none", "awaiting_offer", "failed", "crashed"}
                               /\ up[t] = <<>> /\ down[t] = <<>>
  /\ spc[t] = "deciding" /\ down[t] # <<>> /\ rpc[t] # "rejected"
       => down[t][1].type = "Accept"
  /\ spc[t] = "deciding" /\ Connected(t) /\ rpc[t] \in AcceptedOpen => down[t] # <<>>
  /\ spc[t] \in {"sending", "verifying"} => rpc[t] \in AcceptedOpen \union AcceptedEnded

VerdictTrue(t) ==
  /\ spc[t] = "verifying" => Len(sent[t]) = offered[t]
  /\ spc[t] \in {"complete", "exited"} =>
       rpc[t] = "done" /\ got[t] = sent[t] /\ Len(sent[t]) = offered[t]
  /\ spc[t] = "rejected" => rpc[t] = "rejected"
  /\ spc[t] = "refused" => rpc[t] = "failed" /\ t \notin saved

IReplies(t) == SavedStates(t) /\ RepliesInOrder(t) /\ VerdictTrue(t)

---------------------------------------------------------------------------
(***************************************************************************)
(* Data: the stream is the rest of what was sent, got is its beginning,    *)
(* and the inode of a transfer is got but for the write in flight.         *)
(***************************************************************************)
Streaming == {"start", "connecting", "offering", "deciding", "sending"}
Reading  == {"prompting", "accepting", "rejecting", "checking", "creating", "receiving"}
HasRead  == {"flushing", "renaming", "verifying", "done"}

\* The item is number j of a stream that carries file, counting its end, which
\* a sender reaches when it leaves the streaming states.
InPlace(item, j, file, state) ==
  \/ /\ item.type = "Data"
     /\ j <= Len(file)
     /\ item.block = file[j]
  \/ /\ item = Fin
     /\ j = Len(file) + 1
     /\ state \notin Streaming

\* Before a task reads the offer, and while it reads the data.
StreamUnread(t) ==
  rpc[t] \in {"none", "awaiting_offer"} =>
    /\ got[t] = <<>>
    /\ up[t] # <<>> => up[t][1] = OfferFrame(t, offered[t])
    /\ \A i \in 2 .. Len(up[t]) : InPlace(up[t][i], i - 1, sent[t], spc[t])
    /\ spc[t] \in {"deciding", "sending"} /\ Connected(t) => Len(up[t]) = Len(sent[t]) + 1

StreamRead(t) ==
  rpc[t] \in Reading =>
    /\ \A i \in 1 .. Len(up[t]) : InPlace(up[t][i], Len(got[t]) + i, sent[t], spc[t])
    /\ spc[t] \in {"deciding", "sending"} /\ Connected(t)
         => Len(got[t]) + Len(up[t]) = Len(sent[t])

GotSent(t) ==
  /\ Len(got[t]) <= Len(sent[t])
  /\ \A j \in 1 .. Len(got[t]) : got[t][j] = sent[t][j]
  /\ rpc[t] \in Reading \ {"receiving"} => got[t] = <<>>
  /\ rpc[t] \in HasRead => /\ Len(got[t]) = Len(sent[t])
                           /\ spc[t] \notin Streaming
  /\ rpc[t] \in {"renaming", "verifying", "done"} => Len(sent[t]) = offered[t]
  /\ spc[t] \in {"start", "connecting", "offering", "deciding"} => sent[t] = <<>>
  /\ rpc[t] \in OfferStates => spc[t] # "start" /\ offer[t] = OfferFrame(t, offered[t])
  /\ spc[t] \in {"start", "connecting"} => senderEnd[t] = "none" /\ nodeEnd[t] = "none"
  /\ rpc[t] # "none" => nodeEnd[t] # "none"
  /\ spc[t] \in BeforeOffer => ~stopped[t]

\* One file per transfer, with the write in flight still to come.
DiskOfTransfer(t) ==
  /\ fd[t] \in {None, t}
  /\ rpc[t] \in {"receiving"} \union HasRead => fd[t] = t
  /\ t \in inflight => rpc[t] \in {"receiving", "flushing", "discarding", "failing", "failed"}
  /\ t \in inflight => fd[t] = t /\ got[t] # <<>>
  /\ rpc[t] \in {"receiving"} \union HasRead =>
       /\ Len(data[t]) = IF t \in inflight THEN Len(got[t]) - 1 ELSE Len(got[t])
       /\ \A j \in 1 .. Len(data[t]) : data[t][j] = got[t][j]

Published(t) == /\ t \in saved
                /\ Len(data[t]) = Len(sent[t])
                /\ \A j \in 1 .. Len(data[t]) : data[t][j] = sent[t][j]
                /\ Len(sent[t]) = offered[t]
                /\ spc[t] \notin Streaming
                /\ t \notin inflight

IData(t) == StreamUnread(t) /\ StreamRead(t) /\ GotSent(t) /\ DiskOfTransfer(t)

IDirectory == /\ \A p \in Paths : part[p] # None => p = <<FileName[part[p]], TransferId[part[p]]>>
              /\ \A n \in Names : out[n] \in Transfers => FileName[out[n]] = n /\ Published(out[n])

IRepliesAll == \A t \in Transfers : IReplies(t)
IDataAll == \A t \in Transfers : IData(t)
=============================================================================
