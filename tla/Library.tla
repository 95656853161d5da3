------------------------------ MODULE Library ------------------------------
(***************************************************************************)
(* The parts of the library that share no state with each other nor with a *)
(* transfer, side by side: the codec, the chunk pipeline, and the two      *)
(* files in the home directory. A behaviour is one of a single part, named *)
(* by subject, so that their states add up and do not multiply.            *)
(***************************************************************************)
EXTENDS Identity, TrustedDevices, Pipeline, Codec

VARIABLE subject

vars == <<subject, identityVars, trustVars, pipelineVars, codecVars>>

Subjects == {"codec", "pipeline", "identity", "trust"}

\* Nothing to read.
NoStream == [awaits |-> <<{"TransferOffer"}>>, written |-> <<>>, bytes |-> <<>>]

CodecIdle == /\ stream = NoStream /\ arrived = 0 /\ wire = <<>>
             /\ header = <<>> /\ taken = <<>> /\ reading = "finished"

\* Only the part that moves starts with every input.
Init == /\ subject \in Subjects
        /\ IdentityInit /\ TrustInit
        /\ PipelineInit
        /\ subject # "pipeline" => source = <<>> /\ key = CHOOSE k \in Keys : TRUE
        /\ IF subject = "codec" THEN CodecInit ELSE CodecIdle

Next == \/ /\ subject = "codec" /\ CodecNext
           /\ UNCHANGED <<subject, identityVars, trustVars, pipelineVars>>
        \/ /\ subject = "pipeline" /\ PipelineNext
           /\ UNCHANGED <<subject, identityVars, trustVars, codecVars>>
        \/ /\ subject = "identity" /\ IdentityNext
           /\ UNCHANGED <<subject, trustVars, pipelineVars, codecVars>>
        \/ /\ subject = "trust" /\ TrustNext
           /\ UNCHANGED <<subject, identityVars, pipelineVars, codecVars>>

Spec == Init /\ [][Next]_vars

TypeOK == /\ subject \in Subjects
          /\ IdentityTypeOK /\ TrustTypeOK /\ PipelineTypeOK /\ CodecTypeOK
=============================================================================
