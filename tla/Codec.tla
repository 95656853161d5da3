-------------------------------- MODULE Codec --------------------------------
(***************************************************************************)
(* The bytes of the frames (src/src/transport/protocol.rs) and of what     *)
(* they carry (src/src/transfer/offer.rs, decision.rs), and the end of a   *)
(* stream that reads them: read_offer of tailsfer-node, read_frame of      *)
(* tailsfer-send. What follows an offer on the stream is the raw file, so  *)
(* a reader that takes a byte too few or too many corrupts it.             *)
(*                                                                         *)
(* A byte is a number below 256. A file size stays the eight bytes that    *)
(* carry it, for nothing here looks into it. UTF-8 is ASCII: a byte above  *)
(* 127 stands for whatever from_utf8 refuses.                              *)
(***************************************************************************)
EXTENDS Integers, Sequences, SequencesExt

CONSTANTS
  MaxFrame,     \* MAX_FRAME_SIZE
  MaxName,      \* MAX_FILE_NAME_LEN
  MaxMime,      \* MAX_MIME_TYPE_LEN
  Streams       \* what can be on a stream: the frames its reader waits for,
                \*   one after the other, those written, and all the bytes

IdLen     == 16
HashLen   == 32
SizeLen   == 8
HeaderLen == 5

\* What two bytes can count.
Word == 65536

\* The largest offer and the verification fit in a frame, and the lengths in
\* their fields of two and four bytes.
ASSUME LimitsAssumption ==
  /\ MaxName \in Nat \ {0} /\ MaxMime \in Nat \ {0} /\ MaxFrame \in Nat
  /\ MaxName < Word /\ MaxMime < Word /\ MaxFrame \div Word < Word
  /\ IdLen + 2 + MaxName + SizeLen + 2 + MaxMime <= MaxFrame
  /\ IdLen + HashLen <= MaxFrame

Byte  == 0 .. 255
Bytes == Seq(Byte)

Nul == 0
Dot == 46
Slash == 47
Backslash == 92

---------------------------------------------------------------------------
(***************************************************************************)
(* Numbers, high byte first, and names. No limit exceeds the width of the  *)
(* field that its lengths are written to.                                  *)
(***************************************************************************)
BigEndian16(n) == <<n \div 256, n % 256>>
BigEndian32(n) == BigEndian16(n \div Word) \o BigEndian16(n % Word)

Number16(bytes) == 256 * bytes[1] + bytes[2]
Number32(bytes) == Word * Number16(bytes) + Number16(<<bytes[3], bytes[4]>>)

Slice(bytes, offset, length) == SubSeq(bytes, offset + 1, offset + length)

Has(bytes, byte) == \E i \in DOMAIN bytes : bytes[i] = byte

Utf8(bytes) == \A i \in DOMAIN bytes : bytes[i] < 128

\* Not empty, not too long, and a name that a directory can have.
PlainName(name) == /\ Len(name) \in 1 .. MaxName
                   /\ ~Has(name, Nul)
                   /\ name \notin {<<Dot>>, <<Dot, Dot>>}

\* As ValidName, had the path separators been forgotten.
ValidNameAnyPath(name) == PlainName(name)

\* validate_file_name
ValidName(name) == PlainName(name) /\ ~Has(name, Slash) /\ ~Has(name, Backslash)

\* validate_mime_type
ValidMime(mime) == Len(mime) \in 1 .. MaxMime /\ ~Has(mime, Nul)

\* Path::file_name: the last component, unless it is "..". Empty components
\* and "." do not count.
Components(path) ==
  {c \in (DOMAIN path) \X (DOMAIN path) :
     /\ c[1] <= c[2]
     /\ \A i \in c[1] .. c[2] : path[i] # Slash
     /\ c[1] = 1 \/ path[c[1] - 1] = Slash
     /\ c[2] = Len(path) \/ path[c[2] + 1] = Slash
     /\ SubSeq(path, c[1], c[2]) # <<Dot>>}

\* safe_filename of tailsfer-node; the empty sequence stands for its errors.
SafeFilename(name) ==
  LET last == CHOOSE c \in Components(name) : \A d \in Components(name) : d[1] <= c[1]
      filename == SubSeq(name, last[1], last[2])
  IN IF Components(name) = {} \/ filename = <<Dot, Dot>> \/ Has(filename, Nul)
     THEN <<>> ELSE filename

---------------------------------------------------------------------------
(***************************************************************************)
(* Payloads.                                                               *)
(***************************************************************************)
OfferPayload(offer) == offer.id
                         \o BigEndian16(Len(offer.name)) \o offer.name
                         \o offer.size
                         \o BigEndian16(Len(offer.mime)) \o offer.mime

\* The fields of an offer, where decode_payload finds them.
NameLen(payload) == Number16(Slice(payload, IdLen, 2))
MimeAt(payload)  == IdLen + 2 + NameLen(payload) + SizeLen
MimeLen(payload) == Number16(Slice(payload, MimeAt(payload), 2))
OfferEnd(payload) == MimeAt(payload) + 2 + MimeLen(payload)

OfferIn(payload) ==
  [type |-> "TransferOffer",
   id   |-> Slice(payload, 0, IdLen),
   name |-> Slice(payload, IdLen + 2, NameLen(payload)),
   size |-> Slice(payload, IdLen + 2 + NameLen(payload), SizeLen),
   mime |-> Slice(payload, MimeAt(payload) + 2, MimeLen(payload))]

\* No field is cut short, too long or not UTF-8.
FieldsDecode(payload) ==
  /\ Len(payload) >= IdLen + 2
  /\ NameLen(payload) <= MaxName
  /\ Len(payload) >= MimeAt(payload) + 2
  /\ MimeLen(payload) <= MaxMime
  /\ Len(payload) >= OfferEnd(payload)
  /\ Utf8(OfferIn(payload).name) /\ Utf8(OfferIn(payload).mime)

ValidOffer(offer) == ValidName(offer.name) /\ ValidMime(offer.mime)

\* As OfferDecodes, had the test for trailing bytes been forgotten.
OfferDecodesLoosely(payload) == FieldsDecode(payload) /\ ValidOffer(OfferIn(payload))

\* decode_payload: no byte is left over, and TransferOffer::new takes the rest.
OfferDecodes(payload) == /\ FieldsDecode(payload)
                         /\ Len(payload) = OfferEnd(payload)
                         /\ ValidOffer(OfferIn(payload))

\* The payloads of decisions are a transfer ID; of complete_frame and
\* verified_frame, an ID and a hash.
Payload(frame) == IF frame.type = "TransferOffer" THEN OfferPayload(frame)
                  ELSE IF frame.type \in {"Complete", "Verified"} THEN frame.id \o frame.hash
                  ELSE frame.id

\* What TransferOffer::from_frame, TransferDecision::from_frame,
\* parse_complete_frame and parse_verified_frame take.
PayloadDecodes(type, payload) ==
  IF type = "TransferOffer" THEN OfferDecodes(payload)
  ELSE IF type \in {"Complete", "Verified"} THEN Len(payload) = IdLen + HashLen
  ELSE Len(payload) = IdLen

Content(type, payload) ==
  IF type = "TransferOffer" THEN OfferIn(payload)
  ELSE IF type \in {"Complete", "Verified"}
       THEN [type |-> type, id |-> Slice(payload, 0, IdLen), hash |-> Slice(payload, IdLen, HashLen)]
  ELSE [type |-> type, id |-> payload]

---------------------------------------------------------------------------
(***************************************************************************)
(* Frames.                                                                 *)
(***************************************************************************)
\* FrameType: the code of a type is its place.
FrameTypes == <<"Hello", "Session", "TransferOffer", "Accept", "Reject",
                "Chunk", "Complete", "Cancel", "Verified">>

TypeCode(type) == CHOOSE code \in DOMAIN FrameTypes : FrameTypes[code] = type

\* Frame::encode
Encode(frame) == <<TypeCode(frame.type)>> \o BigEndian32(Len(Payload(frame))) \o Payload(frame)

EncodeAll(frames) == FlattenSeq([i \in 1 .. Len(frames) |-> Encode(frames[i])])

PayloadLen(header) == Number32(Slice(header, 1, 4))

\* As TooLarge, had the limit itself been refused.
TooLargeAtLimit(length) == length >= MaxFrame

\* The limit of Frame::decode, read_offer and read_frame.
TooLarge(length) == length > MaxFrame

\* Frame::decode takes all of the bytes or none.
FrameDecodes(bytes) == /\ bytes[1] \in DOMAIN FrameTypes
                       /\ ~TooLarge(PayloadLen(bytes))
                       /\ Len(bytes) = HeaderLen + PayloadLen(bytes)

---------------------------------------------------------------------------
(***************************************************************************)
(* What can be on a stream.                                                *)
(***************************************************************************)
Offers   == [type : {"TransferOffer"}, id : Bytes, name : Bytes, size : Bytes, mime : Bytes]
Hashes   == [type : {"Complete", "Verified"}, id : Bytes, hash : Bytes]
Answers  == [type : {"Accept", "Reject"}, id : Bytes]

\* The frames that TransferOffer::new and the types let a program build.
Buildable(frame) ==
  /\ frame \in Offers \union Hashes \union Answers
  /\ Len(frame.id) = IdLen
  /\ frame \in Offers => /\ Len(frame.size) = SizeLen
                         /\ ValidOffer(frame) /\ Utf8(frame.name) /\ Utf8(frame.mime)
  /\ frame \in Hashes => Len(frame.hash) = HashLen

\* A program writes such frames where its reader waits for them, and nothing
\* but a file behind the last one. Of the bytes of another peer nothing is known.
ProperStream(s) ==
  /\ s.bytes \in Bytes
  /\ s.awaits \in Seq(SUBSET {"TransferOffer", "Accept", "Reject", "Complete", "Verified"})
  /\ s.awaits # <<>>
  /\ s.written # <<>> =>
       /\ s.written \in Seq(Offers \union Hashes \union Answers)
       /\ IsPrefix(EncodeAll(s.written), s.bytes)
       /\ Len(s.written) <= Len(s.awaits)
       /\ \A i \in DOMAIN s.written : Buildable(s.written[i]) /\ s.written[i].type \in s.awaits[i]
       /\ Len(s.written) = Len(s.awaits) \/ s.written[Len(s.written)].type = "Reject"

ASSUME StreamsAssumption == \A s \in Streams : ProperStream(s)

---------------------------------------------------------------------------
(***************************************************************************)
(* The end that reads. read_exact waits for all the bytes it is asked for, *)
(* so how they arrive makes no difference, only where they stop.           *)
(***************************************************************************)
VARIABLES
  stream,       \* the stream that is read
  arrived,      \* how many of its bytes ever arrive
  wire,         \* those that are not read yet
  header,       \* the header of the frame whose payload is read next
  taken,        \* the frames read and decoded
  reading       \* "reading", then "finished" or "failed"

codecVars == <<stream, arrived, wire, header, taken, reading>>

CodecInit == /\ stream \in Streams
             /\ arrived \in 0 .. Len(stream.bytes)
             /\ stream.written = <<>> => arrived = Len(stream.bytes)
             /\ wire = SubSeq(stream.bytes, 1, arrived)
             /\ header = <<>>
             /\ taken = <<>>
             /\ reading = "reading"

Reads(length) == /\ Len(wire) >= length
                 /\ wire' = SubSeq(wire, length + 1, Len(wire))

\* The buffer for the payload is allocated only behind this.
ReadsHeader ==
  /\ reading = "reading" /\ header = <<>>
  /\ Reads(HeaderLen)
  /\ LET bytes == SubSeq(wire, 1, HeaderLen) IN
       \/ /\ ~TooLarge(PayloadLen(bytes))
          /\ header' = bytes
          /\ UNCHANGED reading
       \/ /\ TooLarge(PayloadLen(bytes))
          /\ reading' = "failed"
          /\ UNCHANGED header
  /\ UNCHANGED <<stream, arrived, taken>>

\* A decision that rejects is the last frame that tailsfer-send reads.
ReadsPayload ==
  /\ reading = "reading" /\ header # <<>>
  /\ Reads(PayloadLen(header))
  /\ LET payload == SubSeq(wire, 1, PayloadLen(header))
         type == FrameTypes[header[1]]
         decodes == /\ FrameDecodes(header \o payload)
                    /\ type \in stream.awaits[Len(taken) + 1]
                    /\ PayloadDecodes(type, payload) IN
       \/ /\ decodes
          /\ taken' = Append(taken, Content(type, payload))
          /\ header' = <<>>
          /\ reading' = IF type = "Reject" \/ Len(taken) + 1 = Len(stream.awaits)
                        THEN "finished" ELSE "reading"
       \/ /\ ~decodes
          /\ reading' = "failed"
          /\ UNCHANGED <<taken, header>>
  /\ UNCHANGED <<stream, arrived>>

\* The stream ends inside what read_exact waits for.
ReadingFails == /\ reading = "reading"
                /\ Len(wire) < IF header = <<>> THEN HeaderLen ELSE PayloadLen(header)
                /\ reading' = "failed"
                /\ UNCHANGED <<stream, arrived, wire, header, taken>>

CodecNext == ReadsHeader \/ ReadsPayload \/ ReadingFails

CodecSpec == CodecInit /\ [][CodecNext]_codecVars

---------------------------------------------------------------------------
CodecTypeOK == /\ taken \in Seq(Offers \union Hashes \union Answers)
               /\ arrived \in 0 .. Len(stream.bytes)
               /\ Len(header) \in {0, HeaderLen}
               /\ Len(taken) <= Len(stream.awaits)
               /\ reading \in {"reading", "finished", "failed"}

\* A reader stands exactly behind what it took, and what it took is what its
\* bytes say: written again, with what it has not read yet, it gives the bytes
\* that arrived. So the file behind an offer starts at its first byte, and no
\* two frames have the same bytes (Frame::decode, decode_payload, read_offer).
NothingMisread ==
  reading # "failed" => EncodeAll(taken) \o header \o wire = SubSeq(stream.bytes, 1, arrived)

\* A frame that arrives whole is never refused when the library could write
\* it, up to the limits on names, MIME types and frames: a reader that failed
\* did so for the bytes it lacks (encode and decode agree on every limit).
WholeFramesAreTaken ==
  reading = "failed" /\ stream.written # <<>> =>
    arrived < Len(EncodeAll(SubSeq(stream.written, 1, Len(taken) + 1)))

\* The name under which the node saves a file is the name in the offer: what
\* the validators let through, safe_filename does not change.
NameStaysItself ==
  \A i \in DOMAIN taken : taken[i].type = "TransferOffer" =>
                            SafeFilename(taken[i].name) = taken[i].name
=============================================================================
