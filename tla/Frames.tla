------------------------------- MODULE Frames -------------------------------
(***************************************************************************)
(* What one transfer puts on the wire: the offer, the two decisions and    *)
(* the verification, and on the sender's stream the raw file data (which   *)
(* tailsfer-send writes without framing) and the end of the stream.        *)
(*                                                                         *)
(* A transfer is one run of tailsfer-send; a retry is another transfer.    *)
(* File data is a sequence of blocks, so a size counts blocks. The BLAKE3  *)
(* hash of a file is the file itself: the models assume that two different *)
(* files never hash alike.                                                 *)
(***************************************************************************)
EXTENDS Integers, Sequences, FiniteSets

CONSTANTS
  Transfers,    \* the runs of tailsfer-send
  Blocks,       \* the values a block of file data can have
  Names,        \* file names
  Ids,          \* transfer IDs
  FileName,     \* FileName[t]: the name of the file that transfer t sends
  TransferId    \* TransferId[t]: what generate_transfer_id returned to t

ASSUME NamesAssumption == /\ FileName \in [Transfers -> Names]
                          /\ TransferId \in [Transfers -> Ids]

Files == Seq(Blocks)

\* TransferOffer::to_frame; the MIME type decides nothing and is left out.
OfferFrame(t, size) ==
  [type |-> "TransferOffer", id |-> TransferId[t], name |-> FileName[t], size |-> size]

Offers == [type : {"TransferOffer"}, id : Ids, name : Names, size : Nat]

\* TransferDecision::to_frame
DecisionFrame(decision, id) == [type |-> decision, id |-> id]

\* complete_frame: as verified_frame, with the type that nothing reads.
CompleteFrame(id, hash) == [type |-> "Complete", id |-> id, hash |-> hash]

\* verified_frame: the ID and the hash the receiver computed
VerifiedFrame(id, hash) == [type |-> "Verified", id |-> id, hash |-> hash]

Replies == [type : {"Accept", "Reject"}, id : Ids]
             \union [type : {"Verified"}, id : Ids, hash : Files]

Data(block) == [type |-> "Data", block |-> block]
Fin         == [type |-> "Fin"]

Items == Offers \union [type : {"Data"}, block : Blocks] \union {Fin}
=============================================================================
