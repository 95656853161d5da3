--------------------------- MODULE LibraryProofs ---------------------------
(***************************************************************************)
(* The parts of the library: whatever runs together or is killed anywhere, *)
(* a device keeps its ID and its list of trusted devices; whatever a file  *)
(* is and however it is read, its records carry it; and what the proofs    *)
(* about the codec say of a reader. At the end all of it side by side.     *)
(***************************************************************************)
EXTENDS Library, CodecProofs

---------------------------------------------------------------------------
(***************************************************************************)
(* The device identity.                                                    *)
(***************************************************************************)
\* What a node has in memory when it means to use it.
Loaded == /\ served \subseteq Nodes
          /\ \A n \in Nodes :
               /\ npc[n] = "loading" => identity # Absent
               /\ npc[n] = "writing" => holds[n] = n
               /\ npc[n] \in {"binding", "serving"} => holds[n] \in Nodes

\* One node creates the identity, and until it is written nobody has one; from
\* then on everybody has that one.
OneCreator == /\ \A m, n \in Creating : m = n
              /\ \A n \in Nodes :
                   /\ npc[n] = "creating" => identity = Absent
                   /\ npc[n] = "writing" => identity = Short
                   /\ npc[n] \in {"binding", "serving"} => holds[n] = identity
              /\ served \subseteq {identity}

IIdentity == IdentityTypeOK /\ Loaded /\ (together \/ OneCreator)

LEMMA IdentityStarts == IdentityInit => IIdentity
  BY IdentityAssumption DEF IdentityInit, IIdentity, IdentityTypeOK, Loaded, OneCreator,
     Contents, NodeStates, Active, Creating

\* Every step keeps the invariant.
LEMMA IdentityStep == IIdentity /\ [IdentityNext]_identityVars => IIdentity'
<1> SUFFICES ASSUME IIdentity, [IdentityNext]_identityVars PROVE IIdentity'
  OBVIOUS
<1> USE IdentityAssumption DEF IIdentity
<1>1. CASE UNCHANGED identityVars
  BY <1>1 DEF identityVars, IdentityTypeOK, Loaded, OneCreator, Creating
<1>2. ASSUME NEW n \in Nodes, NodeStarts(n) PROVE IIdentity'
  <2>1. IdentityTypeOK'
    BY <1>2 DEF NodeStarts, NodeGoes, IdentityTypeOK, NodeStates, Active
  <2>2. Loaded'
    BY <1>2 DEF NodeStarts, NodeGoes, IdentityTypeOK, Loaded, Exists
  <2>3. (together \/ OneCreator)'
    BY <1>2 DEF NodeStarts, NodeGoes, IdentityTypeOK, OneCreator, Creating, Exists
  <2>4. QED  BY <2>1, <2>2, <2>3
<1>3. ASSUME NEW n \in Nodes, NodeLoads(n) PROVE IIdentity'
  <2>1. IdentityTypeOK'
    BY <1>3 DEF NodeLoads, NodeGoes, IdentityTypeOK, NodeStates, Active, Contents
  <2>2. Loaded'
    BY <1>3 DEF NodeLoads, NodeGoes, IdentityTypeOK, Loaded, Contents, Loadable
  <2>3. (together \/ OneCreator)'
    BY <1>3 DEF NodeLoads, NodeGoes, IdentityTypeOK, OneCreator, Creating
  <2>4. QED  BY <2>1, <2>2, <2>3
<1>4. ASSUME NEW n \in Nodes, NodeTruncates(n) PROVE IIdentity'
  <2>1. IdentityTypeOK'
    BY <1>4 DEF NodeTruncates, NodeGoes, generate, IdentityTypeOK, NodeStates, Active, Contents
  <2>2. Loaded'
    BY <1>4 DEF NodeTruncates, NodeGoes, generate, IdentityTypeOK, Loaded
  <2>3. (together \/ OneCreator)'
    BY <1>4 DEF NodeTruncates, NodeGoes, IdentityTypeOK, Loaded, OneCreator, Creating
  <2>4. QED  BY <2>1, <2>2, <2>3
<1>5. ASSUME NEW n \in Nodes, NodeWrites(n) PROVE IIdentity'
  <2>1. IdentityTypeOK'
    BY <1>5 DEF NodeWrites, NodeGoes, IdentityTypeOK, NodeStates, Active
  <2>2. Loaded'
    BY <1>5 DEF NodeWrites, NodeGoes, IdentityTypeOK, Loaded
  <2>3. (together \/ OneCreator)'
    BY <1>5 DEF NodeWrites, NodeGoes, IdentityTypeOK, Loaded, OneCreator, Creating
  <2>4. QED  BY <2>1, <2>2, <2>3
<1>6. ASSUME NEW n \in Nodes, NodeCannotSave(n) \/ NodeKilled(n) PROVE IIdentity'
  <2>1. IdentityTypeOK'
    BY <1>6 DEF NodeCannotSave, NodeKilled, NodeGoes, IdentityTypeOK, NodeStates
  <2>2. Loaded'
    BY <1>6 DEF NodeCannotSave, NodeKilled, NodeGoes, IdentityTypeOK, Loaded
  <2>3. (together \/ OneCreator)'
    BY <1>6 DEF NodeCannotSave, NodeKilled, NodeGoes, IdentityTypeOK, OneCreator, Creating
  <2>4. QED  BY <2>1, <2>2, <2>3
<1>7. ASSUME NEW n \in Nodes, NodeBinds(n) PROVE IIdentity'
  <2>1. IdentityTypeOK'
    BY <1>7 DEF NodeBinds, NodeGoes, IdentityTypeOK, NodeStates, Active
  <2>2. Loaded'
    BY <1>7 DEF NodeBinds, NodeGoes, IdentityTypeOK, Loaded
  <2>3. (together \/ OneCreator)'
    BY <1>7 DEF NodeBinds, NodeGoes, IdentityTypeOK, OneCreator, Creating
  <2>4. QED  BY <2>1, <2>2, <2>3
<1>8. QED
  BY <1>1, <1>2, <1>3, <1>4, <1>5, <1>6, <1>7 DEF IdentityNext

\* A device keeps its ID for good, unless two nodes are first started at once
\* (load_or_create, save, load, and their use in main).
THEOREM IdentityIsKept == IdentitySpec => []DeviceIdKept
<1>1. IIdentity => DeviceIdKept
  BY DEF IIdentity, Loaded, OneCreator, DeviceIdKept
<1>2. QED
  BY <1>1, IdentityStarts, IdentityStep, PTL DEF IdentitySpec

---------------------------------------------------------------------------
(***************************************************************************)
(* The list of trusted devices.                                            *)
(***************************************************************************)
\* The file, where it can be read.
FileAsDecided == /\ listFile = NoFile => decided = {}
                 /\ listFile.kind = "whole" => listFile.devices = decided

\* One program edits, and its store follows what was decided.
OneEditor == /\ \A e, f \in Editing : e = f
             /\ \A e \in Editors :
                  /\ epc[e] = "editing" => store[e] = decided
                  /\ epc[e] \in {"saving", "writing"} =>
                       store[e] = Changed(decided, change[e])

\* A program that did not load has an empty store; one that tests the file
\* found it; one that saves made a change.
Progress == \A e \in Editors :
              /\ epc[e] = "off" => store[e] = {}
              /\ epc[e] = "testing" => listFile # NoFile
              /\ epc[e] \in {"saving", "writing"} => change[e] \in Changes

ITrust == TrustTypeOK /\ Progress /\ (crossed \/ (FileAsDecided /\ OneEditor))

LEMMA ListKinds == /\ NoFile.kind = "none" /\ Torn.kind = "torn" /\ NoFile # Torn
                   /\ \A s : Whole(s).kind = "whole" /\ Whole(s).devices = s
                                /\ Whole(s) # NoFile
                   /\ \A l \in Lists : l.kind = "whole" \/ l = NoFile \/ l = Torn
                   /\ \A l \in Lists : l.devices \subseteq Trustable
                   /\ \A s \in SUBSET Trustable : Whole(s) \in Lists
                   /\ Torn \in Lists /\ NoFile \in Lists
<1>1. NoFile.kind = "none" /\ Torn.kind = "torn" /\ NoFile # Torn
  BY DEF NoFile, Torn
<1>2. \A s : Whole(s).kind = "whole" /\ Whole(s).devices = s
  BY DEF Whole
<1>3. \A s : Whole(s) # NoFile
  BY <1>1, <1>2
<1>4. ASSUME NEW l \in Lists
      PROVE (l.kind = "whole" \/ l = NoFile \/ l = Torn) /\ l.devices \subseteq Trustable
  BY DEF Lists, NoFile, Torn
<1>5. \A s \in SUBSET Trustable : Whole(s) \in Lists
  BY DEF Lists, Whole
<1>6. Torn \in Lists /\ NoFile \in Lists
  BY DEF Lists
<1>7. QED  BY <1>1, <1>2, <1>3, <1>4, <1>5, <1>6

LEMMA ChangedIsSubset ==
  \A devices \in SUBSET Trustable, edit \in Changes : Changed(devices, edit) \in SUBSET Trustable
  BY DEF Changed, Changes

LEMMA TrustStarts == TrustInit => ITrust
<1> SUFFICES ASSUME TrustInit PROVE ITrust
  OBVIOUS
<1>1. TrustTypeOK
  BY ListKinds DEF TrustInit, TrustTypeOK, EditorStates
<1>2. Progress /\ FileAsDecided /\ OneEditor
  BY ListKinds DEF TrustInit, Progress, FileAsDecided, OneEditor, Editing
<1>3. QED  BY <1>1, <1>2 DEF ITrust

\* Every step keeps the invariant.
LEMMA TrustStep == ITrust /\ [TrustNext]_trustVars => ITrust'
<1> SUFFICES ASSUME ITrust, [TrustNext]_trustVars PROVE ITrust'
  OBVIOUS
<1> USE ListKinds DEF ITrust
<1>1. CASE UNCHANGED trustVars
  BY <1>1 DEF trustVars, TrustTypeOK, Progress, FileAsDecided, OneEditor, Editing
<1>2. ASSUME NEW e \in Editors, EditorStarts(e) PROVE ITrust'
  <2>1. TrustTypeOK'
    BY <1>2 DEF EditorStarts, EditorGoes, TrustTypeOK, EditorStates
  <2>2. Progress'
    BY <1>2 DEF EditorStarts, EditorGoes, TrustTypeOK, Progress
  <2>3. (crossed \/ (FileAsDecided /\ OneEditor))'
    BY <1>2, ZenonT(60) DEF EditorStarts, EditorGoes, TrustTypeOK, Progress, FileAsDecided, OneEditor, Editing
  <2>4. QED  BY <2>1, <2>2, <2>3
<1>3. ASSUME NEW e \in Editors, EditorLoads(e) PROVE ITrust'
  <2>1. TrustTypeOK'
    BY <1>3 DEF EditorLoads, EditorGoes, AfterTornList, TrustTypeOK, EditorStates
  <2>2. Progress'
    BY <1>3 DEF EditorLoads, EditorGoes, AfterTornList, TrustTypeOK, Progress
  <2>3. (crossed \/ (FileAsDecided /\ OneEditor))'
    BY <1>3 DEF EditorLoads, EditorGoes, AfterTornList, TrustTypeOK, Progress, FileAsDecided,
       OneEditor, Editing
  <2>4. QED  BY <2>1, <2>2, <2>3
<1>4. ASSUME NEW e \in Editors, EditorChanges(e) PROVE ITrust'
  <2> PICK edit \in Changes : /\ store' = [store EXCEPT ![e] = Changed(@, edit)]
                              /\ change' = [change EXCEPT ![e] = edit]
    BY <1>4 DEF EditorChanges
  <2>1. TrustTypeOK'
    BY <1>4, ChangedIsSubset DEF EditorChanges, EditorGoes, TrustTypeOK, EditorStates
  <2>2. Progress'
    BY <1>4 DEF EditorChanges, EditorGoes, TrustTypeOK, Progress
  <2>3. (crossed \/ (FileAsDecided /\ OneEditor))'
    BY <1>4 DEF EditorChanges, EditorGoes, TrustTypeOK, FileAsDecided, OneEditor, Editing
  <2>4. QED  BY <2>1, <2>2, <2>3
<1>5. ASSUME NEW e \in Editors, EditorTruncates(e) PROVE ITrust'
  <2>1. TrustTypeOK'
    BY <1>5 DEF EditorTruncates, EditorGoes, TrustTypeOK, EditorStates
  <2>2. Progress'
    BY <1>5 DEF EditorTruncates, EditorGoes, TrustTypeOK, Progress
  <2>3. (crossed \/ (FileAsDecided /\ OneEditor))'
    BY <1>5 DEF EditorTruncates, EditorGoes, TrustTypeOK, FileAsDecided, OneEditor, Editing
  <2>4. QED  BY <2>1, <2>2, <2>3
<1>6. ASSUME NEW e \in Editors, EditorWrites(e) PROVE ITrust'
  <2>1. TrustTypeOK'
    BY <1>6, ChangedIsSubset DEF EditorWrites, EditorGoes, TrustTypeOK, Progress, EditorStates
  <2>2. Progress'
    BY <1>6 DEF EditorWrites, EditorGoes, TrustTypeOK, Progress
  <2>3. (crossed \/ (FileAsDecided /\ OneEditor))'
    BY <1>6 DEF EditorWrites, EditorGoes, TrustTypeOK, FileAsDecided, OneEditor, Editing
  <2>4. QED  BY <2>1, <2>2, <2>3
<1>7. ASSUME NEW e \in Editors, EditorEnds(e) PROVE ITrust'
  BY <1>7 DEF EditorEnds, EditorGoes, TrustTypeOK, EditorStates, Progress, FileAsDecided,
     OneEditor, Editing
<1>8. QED
  BY <1>1, <1>2, <1>3, <1>4, <1>5, <1>6, <1>7 DEF TrustNext

\* A list that can be read names exactly the devices whose last saved change
\* was add, unless two programs edited it at once (load_trusted_devices,
\* save_trusted_devices).
THEOREM ListIsAsDecided == TrustSpec => []TrustAsDecided
<1>1. ITrust => TrustAsDecided
  BY DEF ITrust, FileAsDecided, TrustAsDecided
<1>2. QED
  BY <1>1, TrustStarts, TrustStep, PTL DEF TrustSpec

---------------------------------------------------------------------------
(***************************************************************************)
(* The chunk pipeline.                                                     *)
(***************************************************************************)
Payloads == [form : {"None", "Zstd"}, blocks : Seq(FileBlocks)]

\* What write_all is given.
Outputs == {Size(payload) : payload \in Payloads} \union {"None", "Zstd"} \union Nat
             \union [key : Keys, nonce : Nat, payload : Payloads]

\* How many of the four writes of a record were made.
Stage == CASE ppc = "compression" -> 1 [] ppc = "nonce" -> 2 [] ppc = "ciphertext" -> 3
           [] OTHER -> 0

\* What was read and not written yet.
ChunkAhead ==
  /\ ppc \in Writing => chunk = SubSeq(source, total + 1, position)
  /\ ppc \in {"reading", "finished"} => total = position
  /\ ppc = "finished" => position = Len(source)

\* The record that is being written.
RecordBegun ==
  /\ ppc # "failed" => Len(output) = 4 * Records + Stage
  /\ ppc \in {"compression", "nonce", "ciphertext"} =>
       output[4 * Records + 1] = Size(Packed(chunk))
  /\ ppc \in {"nonce", "ciphertext"} => output[4 * Records + 2] = Compression(chunk)
  /\ ppc = "ciphertext" => output[4 * Records + 3] = Nonce

PipelineInv ==
  /\ PipelineTypeOK
  /\ chunk \in Seq(FileBlocks) /\ output \in Seq(Outputs)
  /\ ChunkAhead /\ RecordBegun
  /\ \A r \in 1 .. Records : Unpacked(r, key).blocks \in Seq(FileBlocks)
  /\ RecordsCarryTheFile

LEMMA PackedType == \A blocks \in Seq(FileBlocks) :
                      Packed(blocks) \in Payloads /\ Compression(blocks) \in {"None", "Zstd"}
  BY DEF Packed, Zstd, Plain, Payloads, Compression

\* pack_chunk, then unpack_chunk, with the key and with another one.
LEMMA UnpackPacked ==
  ASSUME NEW k, NEW other, NEW nonce, NEW blocks
  PROVE  /\ unpack_chunk(k, encrypt(k, nonce, Packed(blocks)), nonce, Compression(blocks)) = Plain(blocks)
         /\ other # k =>
              unpack_chunk(other, encrypt(k, nonce, Packed(blocks)), nonce, Compression(blocks)) = Failure
<1> DEFINE payload == Packed(blocks)
           ciphertext == encrypt(k, nonce, payload)
<1>1. payload = Zstd(blocks) \/ payload = Plain(blocks)
  BY DEF Packed
<1>2. Compression(blocks) = payload.form
  BY DEF Compression
<1> HIDE DEF payload
<1>3. payload # Failure
  BY <1>1 DEF Failure, Zstd, Plain
<1>4. decrypt(k, nonce, ciphertext) = payload /\ (other # k => decrypt(other, nonce, ciphertext) = Failure)
  BY DEF decrypt, encrypt
<1> HIDE DEF ciphertext
<1>5. unpack_chunk(k, ciphertext, nonce, payload.form) = Plain(blocks)
  <2>1. CASE payload = Plain(blocks)
    <3>1. payload.form = "None"
      BY <2>1 DEF Plain
    <3> QED  BY <1>4, <2>1, <3>1 DEF unpack_chunk
  <2>2. CASE payload = Zstd(blocks)
    <3>1. payload.form = "Zstd" /\ payload.blocks = blocks
      BY <2>2 DEF Zstd
    <3> QED  BY <1>3, <1>4, <3>1 DEF unpack_chunk
  <2> QED  BY <1>1, <2>1, <2>2
<1>6. other # k => unpack_chunk(other, ciphertext, nonce, payload.form) = Failure
  BY <1>4 DEF unpack_chunk
<1> QED  BY <1>2, <1>5, <1>6 DEF payload, ciphertext

LEMMA PipelineInvInit == PipelineInit => PipelineInv
<1> SUFFICES ASSUME PipelineInit PROVE PipelineInv
  OBVIOUS
<1> USE ChunkAssumption DEF PipelineInit
<1>1. source \in Seq(FileBlocks) /\ Len(source) \in Nat
  OBVIOUS
<1>2. output = <<>> /\ Len(output) = 0 /\ Records = 0
  BY DEF Records
<1>3. PipelineTypeOK
  BY <1>1 DEF PipelineTypeOK, Writing
<1>4. ChunkAhead
  BY DEF ChunkAhead, Writing
<1>5. RecordBegun
  BY <1>2 DEF RecordBegun, Stage
<1>6. RecordsCarryTheFile
  <2>1. Recovered = <<>>
    <3>1. [r \in 1 .. Records |-> Unpacked(r, key).blocks] = <<>>
      BY <1>2
    <3> QED  BY <3>1, FlattenEmpty, Zenon DEF Recovered
  <2>2. SubSeq(source, 1, total) = <<>>
    BY <1>1
  <2> QED  BY <1>2, <2>1, <2>2 DEF RecordsCarryTheFile
<1> QED  BY <1>2, <1>3, <1>4, <1>5, <1>6 DEF PipelineInv

\* A write leaves the records that are whole as they are.
LEMMA RecordsStay ==
  ASSUME output \in Seq(Outputs), NEW value \in Outputs, output' = Append(output, value), key' = key
  PROVE  /\ Records \in Nat /\ 4 * Records <= Len(output) /\ Len(output) < 4 * Records + 4
         /\ output' \in Seq(Outputs) /\ Len(output') = Len(output) + 1
         /\ output'[Len(output) + 1] = value
         /\ \A i \in 1 .. Len(output) : output'[i] = output[i]
         /\ Records' = (Len(output) + 1) \div 4
         /\ \A r \in 1 .. Records : /\ output'[4 * r] = output[4 * r]
                                    /\ output'[4 * r - 3] = output[4 * r - 3]
                                    /\ \A k : Unpacked(r, k)' = Unpacked(r, k)
<1>1. /\ Len(output) \in Nat /\ output' \in Seq(Outputs) /\ Len(output') = Len(output) + 1
      /\ output'[Len(output) + 1] = value
      /\ \A i \in 1 .. Len(output) : output'[i] = output[i]
  OBVIOUS
<1>2. Records \in Nat /\ 4 * Records <= Len(output) /\ Len(output) < 4 * Records + 4
  BY <1>1 DEF Records
<1>3. Records' = (Len(output) + 1) \div 4
  BY <1>1 DEF Records
<1> HIDE DEF Records
<1>4. ASSUME NEW r \in 1 .. Records
      PROVE  /\ output'[4 * r] = output[4 * r] /\ output'[4 * r - 1] = output[4 * r - 1]
             /\ output'[4 * r - 2] = output[4 * r - 2] /\ output'[4 * r - 3] = output[4 * r - 3]
  <2>1. /\ 4 * r \in 1 .. Len(output) /\ 4 * r - 1 \in 1 .. Len(output)
        /\ 4 * r - 2 \in 1 .. Len(output) /\ 4 * r - 3 \in 1 .. Len(output)
    BY <1>1, <1>2, SMTT(30)
  <2> QED  BY <1>1, <2>1
<1>5. ASSUME NEW r \in 1 .. Records, NEW k PROVE Unpacked(r, k)' = Unpacked(r, k)
  BY <1>4 DEF Unpacked
<1> QED  BY <1>1, <1>2, <1>3, <1>4, <1>5

\* A write inside a record.
LEMMA PartOfRecord ==
  ASSUME PipelineInv, NEW value \in Outputs, output' = Append(output, value),
         UNCHANGED <<source, key, chunk, position, total>>,
         Len(output) < 4 * Records + 3, ppc' \in {"compression", "nonce", "ciphertext"}
  PROVE  /\ Records' = Records /\ Nonce' = Nonce
         /\ RecordsCarryTheFile'
         /\ \A r \in 1 .. Records' : Unpacked(r, key)'.blocks \in Seq(FileBlocks)
<1>1. output \in Seq(Outputs) /\ Len(output) \in Nat
  BY DEF PipelineInv
<1>2. /\ Records \in Nat /\ 4 * Records <= Len(output)
      /\ Records' = (Len(output) + 1) \div 4
      /\ \A r \in 1 .. Records : /\ output'[4 * r] = output[4 * r]
                                 /\ output'[4 * r - 3] = output[4 * r - 3]
                                 /\ \A k : Unpacked(r, k)' = Unpacked(r, k)
  BY <1>1, RecordsStay
<1>3. Records' = Records
  BY <1>1, <1>2
<1>4. Nonce' = Nonce
  BY <1>3 DEF Nonce, Records
<1>5. Recovered' = Recovered
  <2>1. \A r \in 1 .. Records : Unpacked(r, key)' = Unpacked(r, key)
    BY <1>2
  <2>2. [r \in 1 .. Records' |-> Unpacked(r, key)'.blocks] = [r \in 1 .. Records |-> Unpacked(r, key).blocks]
    BY <1>3, <2>1
  <2> QED  BY <2>2, Zenon DEF Recovered
<1>6. RecordsCarryTheFile'
  BY <1>2, <1>3, <1>5, SMTT(30) DEF PipelineInv, RecordsCarryTheFile
<1>7. \A r \in 1 .. Records' : Unpacked(r, key)'.blocks \in Seq(FileBlocks)
  BY <1>2, <1>3 DEF PipelineInv
<1> QED  BY <1>3, <1>4, <1>6, <1>7

LEMMA WritesKeep == PipelineInv /\ WriteRecord => PipelineInv'
<1> SUFFICES ASSUME PipelineInv, WriteRecord PROVE PipelineInv'
  OBVIOUS
<1>1. /\ PipelineTypeOK /\ chunk \in Seq(FileBlocks) /\ output \in Seq(Outputs) /\ Len(output) \in Nat
      /\ source \in Seq(FileBlocks) /\ Len(source) \in Nat
      /\ ChunkAhead /\ RecordBegun
  BY ChunkAssumption DEF PipelineInv, PipelineTypeOK
<1>2. /\ UNCHANGED <<source, key, chunk, position>> /\ ppc \in Writing
  BY DEF WriteRecord, Write, Writing
<1>3. Packed(chunk) \in Payloads /\ Compression(chunk) \in {"None", "Zstd"}
  BY <1>1, PackedType
<1>4. Records \in Nat /\ Len(output) = 4 * Records + Stage /\ Nonce = Records + 1
  <2>1. Len(output) = 4 * Records + Stage
    BY <1>1, <1>2 DEF RecordBegun, Writing
  <2> QED  BY <1>1, <2>1 DEF Records, Nonce
<1>5. /\ chunk = SubSeq(source, total + 1, position) /\ total \in Nat /\ position \in Nat
      /\ total <= position /\ position <= Len(source)
  BY <1>1, <1>2 DEF ChunkAhead, PipelineTypeOK
<1>6. CASE ppc = "length" /\ output' = Append(output, Size(Packed(chunk))) /\ ppc' = "compression" /\ total' = total
  <2>1. Size(Packed(chunk)) \in Outputs /\ Stage = 0
    BY <1>3, <1>6 DEF Outputs, Stage
  <2>2. /\ Records' = Records /\ RecordsCarryTheFile'
        /\ \A r \in 1 .. Records' : Unpacked(r, key)'.blocks \in Seq(FileBlocks)
    BY <1>2, <1>4, <1>6, <2>1, PartOfRecord
  <2>3. /\ output' \in Seq(Outputs) /\ Len(output') = Len(output) + 1
        /\ output'[Len(output) + 1] = Size(Packed(chunk))
    BY <1>1, <2>1, <1>6
  <2>4. Stage' = 1
    BY <1>6 DEF Stage
  <2>5. RecordBegun'
    BY <1>2, <1>4, <1>6, <2>1, <2>2, <2>3, <2>4 DEF RecordBegun
  <2>6. ChunkAhead' /\ PipelineTypeOK'
    BY <1>1, <1>2, <1>6 DEF ChunkAhead, PipelineTypeOK, Writing
  <2> QED  BY <1>1, <1>2, <2>2, <2>3, <2>5, <2>6 DEF PipelineInv
<1>7. CASE ppc = "compression" /\ output' = Append(output, Compression(chunk)) /\ ppc' = "nonce" /\ total' = total
  <2>1. Compression(chunk) \in Outputs /\ Stage = 1
    BY <1>3, <1>7 DEF Outputs, Stage
  <2>2. /\ Records' = Records /\ RecordsCarryTheFile'
        /\ \A r \in 1 .. Records' : Unpacked(r, key)'.blocks \in Seq(FileBlocks)
    BY <1>2, <1>4, <1>7, <2>1, PartOfRecord
  <2>3. /\ output' \in Seq(Outputs) /\ Len(output') = Len(output) + 1
        /\ output'[Len(output) + 1] = Compression(chunk)
        /\ output'[4 * Records + 1] = output[4 * Records + 1]
    <3>1. 4 * Records + 1 \in 1 .. Len(output)
      BY <1>4, <2>1
    <3> QED  BY <1>1, <1>2, <1>7, <2>1, <3>1, RecordsStay
  <2>4. Stage' = 2
    BY <1>7 DEF Stage
  <2>5. RecordBegun'
    BY <1>1, <1>2, <1>4, <1>7, <2>1, <2>2, <2>3, <2>4 DEF RecordBegun
  <2>6. ChunkAhead' /\ PipelineTypeOK'
    BY <1>1, <1>2, <1>7 DEF ChunkAhead, PipelineTypeOK, Writing
  <2> QED  BY <1>1, <1>2, <2>2, <2>3, <2>5, <2>6 DEF PipelineInv
<1>8. CASE ppc = "nonce" /\ output' = Append(output, Nonce) /\ ppc' = "ciphertext" /\ total' = total
  <2>1. Nonce \in Outputs /\ Stage = 2
    BY <1>4, <1>8 DEF Outputs, Stage
  <2>2. /\ Records' = Records /\ RecordsCarryTheFile' /\ Nonce' = Nonce
        /\ \A r \in 1 .. Records' : Unpacked(r, key)'.blocks \in Seq(FileBlocks)
    BY <1>2, <1>4, <1>8, <2>1, PartOfRecord
  <2>3. /\ output' \in Seq(Outputs) /\ Len(output') = Len(output) + 1
        /\ output'[Len(output) + 1] = Nonce
        /\ output'[4 * Records + 1] = output[4 * Records + 1]
        /\ output'[4 * Records + 2] = output[4 * Records + 2]
    <3>1. 4 * Records + 1 \in 1 .. Len(output) /\ 4 * Records + 2 \in 1 .. Len(output)
      BY <1>4, <2>1
    <3> QED  BY <1>1, <1>2, <1>8, <2>1, <3>1, RecordsStay
  <2>4. Stage' = 3
    BY <1>8 DEF Stage
  <2>5. RecordBegun'
    BY <1>1, <1>2, <1>4, <1>8, <2>1, <2>2, <2>3, <2>4 DEF RecordBegun
  <2>6. ChunkAhead' /\ PipelineTypeOK'
    BY <1>1, <1>2, <1>8 DEF ChunkAhead, PipelineTypeOK, Writing
  <2> QED  BY <1>1, <1>2, <2>2, <2>3, <2>5, <2>6 DEF PipelineInv
<1>9. CASE /\ ppc = "ciphertext" /\ output' = Append(output, Ciphertext) /\ ppc' = "reading"
           /\ total' = total + Counted(chunk)
  <2>0. PICK last \in Nat : last = Records + 1
    BY <1>4
  <2>1. Ciphertext \in Outputs /\ Stage = 3
    BY <1>1, <1>3, <1>4, <1>9 DEF Outputs, Stage, Ciphertext, encrypt, PipelineTypeOK
  <2>2. /\ output' \in Seq(Outputs) /\ Len(output') = 4 * Records + 4
        /\ output'[4 * Records + 4] = Ciphertext
        /\ output'[4 * Records + 1] = Size(Packed(chunk))
        /\ output'[4 * Records + 2] = Compression(chunk)
        /\ output'[4 * Records + 3] = Nonce
    <3>1. /\ 4 * Records + 1 \in 1 .. Len(output) /\ 4 * Records + 2 \in 1 .. Len(output)
          /\ 4 * Records + 3 \in 1 .. Len(output) /\ Len(output) + 1 = 4 * Records + 4
      BY <1>4, <2>1
    <3>2. /\ output' \in Seq(Outputs) /\ Len(output') = Len(output) + 1
          /\ output'[Len(output) + 1] = Ciphertext
          /\ \A i \in 1 .. Len(output) : output'[i] = output[i]
      BY <1>1, <1>2, <1>9, <2>1, RecordsStay
    <3> QED  BY <1>1, <1>9, <3>1, <3>2 DEF RecordBegun
  <2>3. /\ Records' = last
        /\ \A r \in 1 .. Records : /\ output'[4 * r] = output[4 * r]
                                   /\ output'[4 * r - 3] = output[4 * r - 3]
                                   /\ \A k : Unpacked(r, k)' = Unpacked(r, k)
    <3>1. /\ Records' = (Len(output) + 1) \div 4
          /\ \A r \in 1 .. Records : /\ output'[4 * r] = output[4 * r]
                                     /\ output'[4 * r - 3] = output[4 * r - 3]
                                     /\ \A k : Unpacked(r, k)' = Unpacked(r, k)
      BY <1>1, <1>2, <1>9, <2>1, RecordsStay
    <3>2. Len(output) + 1 = 4 * last
      BY <1>4, <2>0, <2>1
    <3>3. (4 * last) \div 4 = last
      OBVIOUS
    <3> QED  BY <3>1, <3>2, <3>3
  <2>4. /\ 4 * last = 4 * Records + 4 /\ 4 * last - 1 = 4 * Records + 3
        /\ 4 * last - 2 = 4 * Records + 2 /\ 4 * last - 3 = 4 * Records + 1
    BY <1>4, <2>0
  <2>5. \A k : Unpacked(last, k)' = unpack_chunk(k, encrypt(key, Nonce, Packed(chunk)), Nonce, Compression(chunk))
    BY <2>2, <2>4 DEF Unpacked, Ciphertext
  <2>6. Unpacked(last, key)' = Plain(chunk) /\ \A k \in Keys \ {key} : Unpacked(last, k)' = Failure
    BY <1>2, <2>5, UnpackPacked
  <2>7. /\ Unpacked(last, key)'.form = "None" /\ Unpacked(last, key)'.blocks = chunk
        /\ output'[4 * last - 3] = Size(output'[4 * last].payload)
    BY <2>2, <2>4, <2>6 DEF Plain, Ciphertext, encrypt
  <2>8. \A r \in 1 .. Records' : Unpacked(r, key)'.blocks \in Seq(FileBlocks)
    <3>1. \A r \in 1 .. Records : Unpacked(r, key)'.blocks \in Seq(FileBlocks)
      BY <1>2, <2>3 DEF PipelineInv
    <3>2. \A r \in 1 .. Records' : r \in 1 .. Records \/ r = last
      BY <1>4, <2>0, <2>3
    <3> QED  BY <1>1, <2>7, <3>1, <3>2
  <2>9. total' = position
    <3>1. Len(chunk) = position - total
      BY <1>1, <1>5
    <3> QED  BY <1>5, <1>9, <3>1 DEF Counted
  <2>10. Recovered' = Recovered \o chunk
    <3> DEFINE old == [r \in 1 .. Records |-> Unpacked(r, key).blocks]
               new == [r \in 1 .. Records' |-> Unpacked(r, key)'.blocks]
    <3>1. old \in Seq(Seq(FileBlocks)) /\ Len(old) = Records
      BY <1>4 DEF PipelineInv
    <3>2. new = Append(old, chunk)
      <4>1. \A r \in 1 .. Records : Unpacked(r, key)'.blocks = old[r]
        BY <1>2, <2>3
      <4>2. new \in [1 .. Records + 1 -> Seq(FileBlocks)] /\ new[Records + 1] = chunk
        BY <1>4, <2>0, <2>3, <2>7, <2>8, SMTT(30)
      <4>3. \A r \in 1 .. Records : new[r] = old[r]
        BY <1>4, <2>0, <2>3, <4>1
      <4> HIDE DEF old, new
      <4>4. new \in Seq(Seq(FileBlocks)) /\ Len(new) = Records + 1
        BY <1>4, <4>2
      <4>5. /\ Append(old, chunk) \in Seq(Seq(FileBlocks)) /\ Len(Append(old, chunk)) = Records + 1
            /\ \A r \in 1 .. Records : Append(old, chunk)[r] = old[r]
            /\ Append(old, chunk)[Records + 1] = chunk
        BY <1>1, <1>4, <3>1
      <4> DEFINE appended == Append(old, chunk)
      <4> HIDE DEF appended
      <4>6. /\ appended \in Seq(Seq(FileBlocks)) /\ Len(appended) = Records + 1
            /\ \A r \in 1 .. Records : appended[r] = old[r]
            /\ appended[Records + 1] = chunk
        BY <4>5 DEF appended
      <4>7. new = appended
        BY <1>4, <4>2, <4>3, <4>4, <4>6
      <4> QED  BY <4>7 DEF appended
    <3>3. FlattenSeq(Append(old, chunk)) = FlattenSeq(old) \o chunk
      <4> HIDE DEF old
      <4> QED  BY <1>1, <3>1, FlattenAppend, Zenon
    <3>4. Recovered' = FlattenSeq(new)
      BY <1>2, Zenon DEF Recovered
    <3> HIDE DEF new
    <3> QED  BY <3>2, <3>3, <3>4, Zenon DEF Recovered, old
  <2>11. Recovered' = SubSeq(source, 1, total')
    <3>1. Recovered = SubSeq(source, 1, total)
      BY DEF PipelineInv, RecordsCarryTheFile
    <3>2. SubSeq(source, 1, total) \o SubSeq(source, total + 1, position) = SubSeq(source, 1, position)
      BY <1>1, <1>5
    <3> QED  BY <1>5, <2>9, <2>10, <3>1, <3>2, Zenon
  <2>12. RecordsCarryTheFile'
    <3>1. \A r \in 1 .. Records' : /\ Unpacked(r, key)'.form = "None"
                                   /\ \A k \in Keys \ {key} : Unpacked(r, k)' = Failure
                                   /\ output'[4 * r - 3] = Size(output'[4 * r].payload)
      <4>1. \A r \in 1 .. Records : /\ Unpacked(r, key)'.form = "None"
                                    /\ \A k \in Keys \ {key} : Unpacked(r, k)' = Failure
                                    /\ output'[4 * r - 3] = Size(output'[4 * r].payload)
        BY <1>2, <2>3 DEF PipelineInv, RecordsCarryTheFile
      <4>2. \A r \in 1 .. Records' : r \in 1 .. Records \/ r = last
        BY <1>4, <2>0, <2>3
      <4> QED  BY <2>6, <2>7, <4>1, <4>2
    <3> QED  BY <1>2, <1>9, <2>11, <3>1 DEF RecordsCarryTheFile
  <2>13. RecordBegun'
    <3>1. Stage' = 0
      BY <1>9 DEF Stage
    <3> QED  BY <1>4, <1>9, <2>0, <2>2, <2>3, <3>1 DEF RecordBegun
  <2>14. ChunkAhead' /\ PipelineTypeOK'
    BY <1>1, <1>2, <1>5, <1>9, <2>9 DEF ChunkAhead, PipelineTypeOK, Writing
  <2> QED  BY <1>1, <1>2, <2>2, <2>8, <2>12, <2>13, <2>14 DEF PipelineInv
<1> QED  BY <1>6, <1>7, <1>8, <1>9 DEF WriteRecord, Write

\* Steps that write nothing.
LEMMA NothingWritten ==
  ASSUME PipelineInv, UNCHANGED <<source, key, output, total>>
  PROVE  /\ Records' = Records /\ Nonce' = Nonce /\ Recovered' = Recovered
         /\ \A r \in 1 .. Records' : Unpacked(r, key)'.blocks \in Seq(FileBlocks)
         /\ ((ppc' = "finished" => total = Len(source) /\ Len(output) = 4 * Records) => RecordsCarryTheFile')
<1>1. Records' = Records /\ Nonce' = Nonce
  BY DEF Records, Nonce
<1>2. \A r, k : Unpacked(r, k)' = Unpacked(r, k)
  BY DEF Unpacked
<1>3. Recovered' = Recovered
  BY <1>1 DEF Recovered, Unpacked
<1>4. \A r \in 1 .. Records' : Unpacked(r, key)'.blocks \in Seq(FileBlocks)
  BY <1>1, <1>2 DEF PipelineInv
<1>5. (ppc' = "finished" => total = Len(source) /\ Len(output) = 4 * Records) => RecordsCarryTheFile'
  BY <1>1, <1>2, <1>3 DEF PipelineInv, RecordsCarryTheFile
<1> QED  BY <1>1, <1>3, <1>4, <1>5

LEMMA PipelineInvNext == PipelineInv /\ [PipelineNext]_pipelineVars => PipelineInv'
<1> SUFFICES ASSUME PipelineInv, [PipelineNext]_pipelineVars PROVE PipelineInv'
  OBVIOUS
<1>1. /\ PipelineTypeOK /\ chunk \in Seq(FileBlocks) /\ output \in Seq(Outputs)
      /\ source \in Seq(FileBlocks) /\ Len(source) \in Nat
      /\ ChunkAhead /\ RecordBegun
      /\ RecordsCarryTheFile
      /\ position \in 0 .. Len(source) /\ total \in 0 .. position /\ position \in Nat /\ total \in Nat
  BY ChunkAssumption DEF PipelineInv, PipelineTypeOK
<1>2. ASSUME NEW n \in 1 .. MaxChunk, Read(n) PROVE PipelineInv'
  <2>1. /\ ppc = "reading" /\ position + n <= Len(source)
        /\ chunk' = SubSeq(source, position + 1, position + n)
        /\ position' = position + n /\ ppc' = "length"
        /\ UNCHANGED <<source, key, output, total>>
    BY <1>2 DEF Read
  <2>2. n \in Nat /\ n <= MaxChunk
    BY ChunkAssumption
  <2>3. /\ Records' = Records
        /\ \A r \in 1 .. Records' : Unpacked(r, key)'.blocks \in Seq(FileBlocks)
        /\ RecordsCarryTheFile'
    BY <2>1, NothingWritten
  <2>4. chunk' \in Seq(FileBlocks) /\ Len(chunk') = n
    BY <1>1, <2>1, <2>2
  <2>5. ChunkAhead'
    BY <1>1, <2>1 DEF ChunkAhead, Writing
  <2>6. RecordBegun'
    <3>1. Stage = 0 /\ Stage' = 0
      BY <2>1 DEF Stage
    <3> QED  BY <1>1, <2>1, <2>3, <3>1 DEF RecordBegun
  <2>7. PipelineTypeOK'
    BY <1>1, <2>1, <2>2, <2>4 DEF PipelineTypeOK, Writing
  <2> QED  BY <1>1, <2>1, <2>3, <2>4, <2>5, <2>6, <2>7 DEF PipelineInv
<1>3. ASSUME ReadsEnd PROVE PipelineInv'
  <2>1. /\ ppc = "reading" /\ position = Len(source) /\ ppc' = "finished"
        /\ UNCHANGED <<source, key, chunk, output, position, total>>
    BY <1>3 DEF ReadsEnd
  <2>2. Stage = 0 /\ Stage' = 0
    BY <2>1 DEF Stage
  <2>3. total = Len(source) /\ Len(output) = 4 * Records
    <3>1. Records \in Int
      BY <1>1 DEF Records
    <3> QED  BY <1>1, <2>1, <2>2, <3>1 DEF ChunkAhead, RecordBegun
  <2>4. /\ Records' = Records
        /\ \A r \in 1 .. Records' : Unpacked(r, key)'.blocks \in Seq(FileBlocks)
        /\ RecordsCarryTheFile'
    BY <2>1, <2>3, NothingWritten
  <2>5. ChunkAhead' /\ PipelineTypeOK'
    BY <1>1, <2>1, <2>3 DEF ChunkAhead, PipelineTypeOK, Writing
  <2>6. RecordBegun'
    BY <1>1, <2>1, <2>2, <2>4 DEF RecordBegun
  <2> QED  BY <1>1, <2>1, <2>4, <2>5, <2>6 DEF PipelineInv
<1>4. ASSUME ProcessFails PROVE PipelineInv'
  <2>1. ppc' = "failed" /\ UNCHANGED <<source, key, chunk, output, position, total>>
    BY <1>4 DEF ProcessFails
  <2>2. /\ \A r \in 1 .. Records' : Unpacked(r, key)'.blocks \in Seq(FileBlocks)
        /\ RecordsCarryTheFile'
    BY <2>1, NothingWritten
  <2>3. ChunkAhead' /\ PipelineTypeOK' /\ RecordBegun'
    BY <1>1, <2>1 DEF ChunkAhead, PipelineTypeOK, RecordBegun, Writing
  <2> QED  BY <1>1, <2>1, <2>2, <2>3 DEF PipelineInv
<1>5. CASE UNCHANGED pipelineVars
  <2>1. UNCHANGED <<source, key, output, total, ppc, chunk, position>>
    BY <1>5 DEF pipelineVars
  <2>2. /\ Records' = Records /\ Nonce' = Nonce
        /\ \A r \in 1 .. Records' : Unpacked(r, key)'.blocks \in Seq(FileBlocks)
        /\ RecordsCarryTheFile'
    <3>1. ppc' = "finished" => total = Len(source) /\ Len(output) = 4 * Records
      BY <1>1, <2>1 DEF RecordsCarryTheFile
    <3> QED  BY <2>1, <3>1, NothingWritten
  <2>3. ChunkAhead' /\ PipelineTypeOK'
    BY <1>1, <2>1 DEF ChunkAhead, PipelineTypeOK
  <2>4. RecordBegun'
    <3>1. Stage' = Stage
      BY <2>1 DEF Stage
    <3> QED  BY <1>1, <2>1, <2>2, <3>1 DEF RecordBegun
  <2> QED  BY <1>1, <2>1, <2>2, <2>3, <2>4 DEF PipelineInv
<1> QED  BY <1>2, <1>3, <1>4, <1>5, WritesKeep DEF PipelineNext

\* Whatever the file is, however the reads cut it, and wherever the work stops:
\* the records that were written whole unpack, with the key and in order, to
\* the part of the file that was counted (process_reader, pack_chunk,
\* unpack_chunk).
THEOREM RecordsCarry == PipelineSpec => []RecordsCarryTheFile
<1>1. PipelineInv => RecordsCarryTheFile
  BY DEF PipelineInv
<1> QED  BY <1>1, PipelineInvInit, PipelineInvNext, PTL DEF PipelineSpec

---------------------------------------------------------------------------
(***************************************************************************)
(* Side by side.                                                           *)
(***************************************************************************)
LEMMA CodecIdleKeeps == CodecIdle => CodecInv
<1> SUFFICES ASSUME CodecIdle PROVE CodecInv
  OBVIOUS
<1>1. /\ stream.awaits = <<{"TransferOffer"}>> /\ stream.written = <<>> /\ stream.bytes = <<>>
      /\ arrived = 0 /\ wire = <<>> /\ header = <<>> /\ taken = <<>> /\ reading = "finished"
  BY DEF CodecIdle, NoStream
<1>2. <<>> \in Bytes /\ SubSeq(<<>>, 1, 0) = <<>> /\ Len(<<>>) = 0
  BY NoBytes
<1>3. ProperStream(stream)
  <2>1. /\ <<{"TransferOffer"}>> # <<>>
        /\ <<{"TransferOffer"}>> \in Seq(SUBSET {"TransferOffer", "Accept", "Reject", "Complete", "Verified"})
    OBVIOUS
  <2> QED  BY <1>1, <1>2, <2>1 DEF ProperStream
<1>4. Len(stream.awaits) = 1 /\ Len(taken) = 0 /\ taken \in Seq(Buildables)
  BY <1>1
<1>5. NothingMisread
  <2>1. EncodeAll(taken) \o header \o wire = <<>>
    BY <1>1, <1>2, EncodeNone, NoBytes, Zenon
  <2> QED  BY <1>1, <1>2, <2>1, Zenon DEF NothingMisread
<1> QED  BY <1>1, <1>2, <1>3, <1>4, <1>5 DEF CodecInv

LibraryInv == subject \in Subjects /\ IIdentity /\ ITrust /\ PipelineInv /\ CodecInv

LEMMA LibraryInvInit == Init => LibraryInv
<1> SUFFICES ASSUME Init PROVE LibraryInv
  OBVIOUS
<1>1. subject \in Subjects /\ IdentityInit /\ TrustInit /\ PipelineInit /\ (CodecInit \/ CodecIdle)
  BY DEF Init
<1> QED
  BY <1>1, IdentityStarts, TrustStarts, PipelineInvInit, CodecInvInit, CodecIdleKeeps DEF LibraryInv

LEMMA LibraryInvNext == LibraryInv /\ [Next]_vars => LibraryInv'
<1> SUFFICES ASSUME LibraryInv, [Next]_vars PROVE LibraryInv'
  OBVIOUS
<1>1. /\ subject' = subject
      /\ [IdentityNext]_identityVars /\ [TrustNext]_trustVars
      /\ [PipelineNext]_pipelineVars /\ [CodecNext]_codecVars
  BY DEF Next, vars
<1> QED  BY <1>1, IdentityStep, TrustStep, PipelineInvNext, CodecInvNext DEF LibraryInv

LEMMA LibraryHolds == Spec => []LibraryInv
  BY LibraryInvInit, LibraryInvNext, PTL DEF Spec

\* Every part keeps its types, whichever of them runs.
THEOREM LibraryTyped == Spec => []TypeOK
<1>1. LibraryInv => TypeOK
  BY CodecInvImplies DEF LibraryInv, TypeOK, IIdentity, ITrust, PipelineInv
<1> QED  BY <1>1, LibraryHolds, PTL

\* What was proved of each part holds of the parts side by side: the
\* composition adds no behaviour to any of them.
THEOREM LibraryIsSafe ==
  Spec => [](/\ DeviceIdKept /\ TrustAsDecided /\ RecordsCarryTheFile
             /\ NothingMisread /\ WholeFramesAreTaken /\ NameStaysItself)
<1>1. IIdentity => DeviceIdKept
  BY DEF IIdentity, Loaded, OneCreator, DeviceIdKept
<1>2. ITrust => TrustAsDecided
  BY DEF ITrust, FileAsDecided, TrustAsDecided
<1>3. PipelineInv => RecordsCarryTheFile
  BY DEF PipelineInv
<1>4. LibraryInv => /\ DeviceIdKept /\ TrustAsDecided /\ RecordsCarryTheFile
                    /\ NothingMisread /\ WholeFramesAreTaken /\ NameStaysItself
  BY <1>1, <1>2, <1>3, CodecInvImplies DEF LibraryInv
<1> QED  BY <1>4, LibraryHolds, PTL
=============================================================================
