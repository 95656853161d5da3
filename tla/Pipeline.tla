------------------------------ MODULE Pipeline ------------------------------
(***************************************************************************)
(* process_reader (src/src/transfer/pipeline.rs): a file is read in chunks *)
(* of whatever size each read gives, and every chunk becomes a record of   *)
(* four writes: length, compression, nonce and ciphertext. unpack_chunk is *)
(* its inverse on one record; a reader of records is not in the library.   *)
(*                                                                         *)
(* A file is a sequence of blocks. A compressed chunk is as long as the    *)
(* number of different blocks in it and one more; that is all of zstd that *)
(* matters here. A ciphertext names its key and its nonce, and no two      *)
(* random nonces are equal.                                                *)
(***************************************************************************)
EXTENDS Integers, Sequences, FiniteSets, SequencesExt

CONSTANTS
  FileBlocks,   \* the values that a block of a file can have
  Sources,      \* the files
  MaxChunk,     \* MAX_CHUNK_SIZE
  Keys          \* encryption keys

ASSUME ChunkAssumption == Sources \subseteq Seq(FileBlocks) /\ MaxChunk \in Nat \ {0}

VARIABLES
  source,       \* the file
  key,          \* the key
  ppc,          \* what process_reader does next
  chunk,        \* the part of the buffer that the last read filled
  output,       \* what was written, one element for each write_all
  position,     \* how much of the file was read
  total         \* the count that process_reader returns

pipelineVars == <<source, key, ppc, chunk, output, position, total>>

Writing == {"length", "compression", "nonce", "ciphertext"}

PipelineTypeOK == /\ source \in Sources
                  /\ key \in Keys
                  /\ ppc \in {"reading", "finished", "failed"} \union Writing
                  /\ Len(chunk) <= MaxChunk
                  /\ position \in 0 .. Len(source)
                  /\ total \in 0 .. position

PipelineInit == /\ source \in Sources
                /\ key \in Keys
                /\ ppc = "reading"
                /\ chunk = <<>>
                /\ output = <<>>
                /\ position = 0
                /\ total = 0

---------------------------------------------------------------------------
(***************************************************************************)
(* pack_chunk and unpack_chunk.                                            *)
(***************************************************************************)
Plain(blocks) == [form |-> "None", blocks |-> blocks]
Zstd(blocks)  == [form |-> "Zstd", blocks |-> blocks]

\* How long a payload is.
Size(payload) == IF payload.form = "None" THEN Len(payload.blocks)
                 ELSE 1 + Cardinality({payload.blocks[i] : i \in DOMAIN payload.blocks})

\* A chunk that does not get shorter stays as it is.
Packed(blocks) == IF Size(Zstd(blocks)) < Len(blocks) THEN Zstd(blocks) ELSE Plain(blocks)

\* As Compression, had the flag said what was tried, not what was kept.
CompressionTried(blocks) == "Zstd"

Compression(blocks) == Packed(blocks).form

encrypt(k, nonce, payload) == [key |-> k, nonce |-> nonce, payload |-> payload]

Failure == [form |-> "error"]

\* The ciphertext is authenticated: another key or nonce is an error.
decrypt(k, nonce, ciphertext) == IF ciphertext.key = k /\ ciphertext.nonce = nonce
                                 THEN ciphertext.payload ELSE Failure

\* What was not compressed is returned as it is; decode_all fails on it.
unpack_chunk(k, ciphertext, nonce, compression) ==
  LET payload == decrypt(k, nonce, ciphertext) IN
    IF payload = Failure \/ compression = "None" THEN payload
    ELSE IF payload.form = "Zstd" THEN Plain(payload.blocks) ELSE Failure

---------------------------------------------------------------------------
(***************************************************************************)
(* process_reader.                                                         *)
(***************************************************************************)
Nonce == 1 + Len(output) \div 4

Ciphertext == encrypt(key, Nonce, Packed(chunk))

\* A read gives anything from one block to a full buffer, and nothing at the end.
Read(n) == /\ ppc = "reading"
           /\ position + n <= Len(source)
           /\ chunk' = SubSeq(source, position + 1, position + n)
           /\ position' = position + n
           /\ ppc' = "length"
           /\ UNCHANGED <<source, key, output, total>>

ReadsEnd == /\ ppc = "reading"
            /\ position = Len(source)
            /\ ppc' = "finished"
            /\ UNCHANGED <<source, key, chunk, output, position, total>>

\* As Counted, had the buffer been counted in place of the part that was read.
CountedBuffer(blocks) == MaxChunk

Counted(blocks) == Len(blocks)

Write(this, value, next) == /\ ppc = this
                            /\ output' = Append(output, value)
                            /\ ppc' = next
                            /\ UNCHANGED <<source, key, chunk, position>>

WriteRecord == \/ /\ Write("length", Size(Packed(chunk)), "compression")
                  /\ UNCHANGED total
               \/ /\ Write("compression", Compression(chunk), "nonce")
                  /\ UNCHANGED total
               \/ /\ Write("nonce", Nonce, "ciphertext")
                  /\ UNCHANGED total
               \/ /\ Write("ciphertext", Ciphertext, "reading")
                  /\ total' = total + Counted(chunk)

\* A read or a write fails; what was written stays.
ProcessFails == /\ ppc \in {"reading"} \union Writing
                /\ ppc' = "failed"
                /\ UNCHANGED <<source, key, chunk, output, position, total>>

PipelineNext == \/ \E n \in 1 .. MaxChunk : Read(n)
                \/ ReadsEnd
                \/ WriteRecord
                \/ ProcessFails

PipelineSpec == PipelineInit /\ [][PipelineNext]_pipelineVars

---------------------------------------------------------------------------
\* What unpack_chunk makes of record r of the output.
Unpacked(r, k) == unpack_chunk(k, output[4 * r], output[4 * r - 1], output[4 * r - 2])

Records == Len(output) \div 4

\* The blocks of all the records.
Recovered == FlattenSeq([r \in 1 .. Records |-> Unpacked(r, key).blocks])

\* However the reads cut the file, and wherever the work stops, the records
\* written whole unpack, with the key and in order, to exactly the part of the
\* file that was counted; each announces its length; with another key none
\* unpacks. When process_reader returns, that part is the file.
RecordsCarryTheFile ==
  /\ \A r \in 1 .. Records :
       /\ Unpacked(r, key).form = "None"
       /\ \A k \in Keys \ {key} : Unpacked(r, k) = Failure
       /\ output[4 * r - 3] = Size(output[4 * r].payload)
  /\ Recovered = SubSeq(source, 1, total)
  /\ ppc = "finished" => total = Len(source) /\ Len(output) = 4 * Records
=============================================================================
