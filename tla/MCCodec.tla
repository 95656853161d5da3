------------------------------- MODULE MCCodec -------------------------------
(***************************************************************************)
(* Streams for Codec: those that the two programs write, cut anywhere, and *)
(* those of a peer that is built otherwise: offers with fields no          *)
(* TransferOffer has, and streams with one byte changed, one more or one   *)
(* less.                                                                   *)
(***************************************************************************)
EXTENDS Codec

NodeAwaits   == <<{"TransferOffer"}>>
SenderAwaits == <<{"Accept", "Reject"}, {"Verified", "Reject"}>>

Id   == [i \in 1 .. IdLen |-> i]
Hash == [i \in 1 .. HashLen |-> 100 - i]
FileSize == <<0, 0, 0, 0, 0, 1, 0, 7>>

Letter == 97

Offer(name, mime) ==
  [type |-> "TransferOffer", id |-> Id, name |-> name, size |-> FileSize, mime |-> mime]

Accept   == [type |-> "Accept", id |-> Id]
Reject   == [type |-> "Reject", id |-> Id]
Verified == [type |-> "Verified", id |-> Id, hash |-> Hash]
Complete == [type |-> "Complete", id |-> Id, hash |-> Hash]

\* The file that follows an offer; the second one looks like a header.
FilesSent == {<<>>, <<3, 0, 0, 0, 6, 1>>}

Names == {name \in SeqOf({Letter, Dot}, MaxName) : ValidName(name)}
Mimes == {<<Letter>>, <<Letter, Slash>>}

Written(awaits, frames, file) ==
  [awaits |-> awaits, written |-> frames, bytes |-> EncodeAll(frames) \o file]

OfferStreams ==
  {Written(NodeAwaits, <<Offer(name, mime)>>, file) : name \in Names, mime \in Mimes, file \in FilesSent}

ReplyStreams ==
  {Written(SenderAwaits, frames, <<>>) : frames \in {<<Accept, Verified>>, <<Accept, Reject>>, <<Reject>>}}
    \union {Written(<<{"Complete"}>>, <<Complete>>, <<>>)}

---------------------------------------------------------------------------
Foreign(awaits, bytes) == [awaits |-> awaits, written |-> <<>>, bytes |-> bytes]

OddNames == SeqOf({Letter, Dot, Slash, Backslash, Nul, 200}, MaxName)
              \union {<<Letter, Letter, Letter, Letter>>}
OddMimes == Mimes \union {<<>>, <<Nul>>, <<200>>, <<Letter, Letter, Letter>>}

OddOffers == {Foreign(NodeAwaits, EncodeAll(<<Offer(name, mime)>>)) : name \in OddNames, mime \in OddMimes}

OneByteOff(bytes, i) ==
  {[bytes EXCEPT ![i] = b] : b \in {0, 1, 2, 3, Slash, bytes[i] + 1, bytes[i] - 1} \ {-1}}
    \union {SubSeq(bytes, 1, i - 1) \o SubSeq(bytes, i + 1, Len(bytes)),
            SubSeq(bytes, 1, i) \o <<0>> \o SubSeq(bytes, i + 1, Len(bytes))}

Base == {s \in OfferStreams : s.written[1].name \in {<<Letter>>, <<Letter, Dot, Letter>>}} \union ReplyStreams

OddBytes == UNION {{Foreign(s.awaits, b) : b \in UNION {OneByteOff(s.bytes, i) : i \in DOMAIN s.bytes}} : s \in Base}

AllStreams == OfferStreams \union ReplyStreams \union OddOffers \union OddBytes
=============================================================================
