------------------------------ MODULE Identity ------------------------------
(***************************************************************************)
(* The device identity (src/src/identity/mod.rs) as tailsfer-node loads or *)
(* creates it when it starts, before it binds its UDP port. The file       *)
(* ~/.tailsfer/identity is written in place: fs::write truncates it and    *)
(* then writes the device ID and the key. Any number of nodes may be       *)
(* started, one behind the other or at once; each may be killed anywhere.  *)
(*                                                                         *)
(* A node is one run of tailsfer-node, and an identity is named after the  *)
(* node that generated it: two calls of generate never agree.              *)
(***************************************************************************)
EXTENDS FiniteSets, Integers

CONSTANTS
  Nodes,        \* the runs of tailsfer-node
  Absent,       \* there is no file, there is no identity
  Short         \* the file is empty, or shorter than an identity

ASSUME IdentityAssumption == Absent \notin Nodes /\ Short \notin Nodes /\ Absent # Short

VARIABLES
  identity,     \* the content of the identity file
  npc,          \* npc[n]: where main() of node n stands
  holds,        \* holds[n]: the identity it has in memory
  \* History:
  served,       \* the identities with which a node came up
  together      \* two nodes were creating the identity at the same time

identityVars == <<identity, npc, holds, served, together>>

Active == {"loading", "creating", "writing", "binding", "serving"}
NodeStates == {"off", "ended"} \union Active

Contents == Nodes \union {Absent, Short}

IdentityTypeOK == /\ identity \in Contents
                  /\ npc \in [Nodes -> NodeStates]
                  /\ holds \in [Nodes -> Contents]
                  /\ served \subseteq Contents
                  /\ together \in BOOLEAN

IdentityInit == /\ identity = Absent
                /\ npc = [n \in Nodes |-> "off"]
                /\ holds = [n \in Nodes |-> Absent]
                /\ served = {}
                /\ together = FALSE

NodeGoes(n, state) == npc' = [npc EXCEPT ![n] = state]

Creating == {n \in Nodes : npc[n] \in {"creating", "writing"}}

---------------------------------------------------------------------------
Exists == identity # Absent

\* load_or_create tests for the file; what it found may be old when it acts.
NodeStarts(n) == /\ npc[n] = "off"
                 /\ NodeGoes(n, IF Exists THEN "loading" ELSE "creating")
                 /\ together' = (together \/ (~Exists /\ Creating # {}))
                 /\ UNCHANGED <<identity, holds, served>>

\* As Loadable, had the length of the file not been compared.
LoadableUnchecked == TRUE

Loadable == identity # Short

NodeLoads(n) == /\ npc[n] = "loading"
                /\ \/ /\ Loadable
                      /\ holds' = [holds EXCEPT ![n] = identity]
                      /\ NodeGoes(n, "binding")
                   \/ /\ ~Loadable
                      /\ NodeGoes(n, "ended")
                      /\ UNCHANGED holds
                /\ UNCHANGED <<identity, served, together>>

\* Random bytes: no other node has them.
generate(n) == n

\* generate, create_dir_all, and the open of fs::write, which truncates.
NodeTruncates(n) == /\ npc[n] = "creating"
                    /\ holds' = [holds EXCEPT ![n] = generate(n)]
                    /\ identity' = Short
                    /\ NodeGoes(n, "writing")
                    /\ UNCHANGED <<served, together>>

\* One write of 48 bytes, from the start of the file.
NodeWrites(n) == /\ npc[n] = "writing"
                 /\ identity' = holds[n]
                 /\ NodeGoes(n, "binding")
                 /\ UNCHANGED <<holds, served, together>>

\* The directory cannot be made, the file not be opened, or the disk is full.
NodeCannotSave(n) == /\ npc[n] \in {"creating", "writing"}
                     /\ NodeGoes(n, "ended")
                     /\ UNCHANGED <<identity, holds, served, together>>

\* Endpoint::server fails while another node has the port.
PortTaken == \E n \in Nodes : npc[n] = "serving"

NodeBinds(n) == /\ npc[n] = "binding"
                /\ \/ /\ ~PortTaken
                      /\ NodeGoes(n, "serving")
                      /\ served' = served \union {holds[n]}
                   \/ /\ PortTaken
                      /\ NodeGoes(n, "ended")
                      /\ UNCHANGED served
                /\ UNCHANGED <<identity, holds, together>>

NodeKilled(n) == /\ npc[n] \in Active
                 /\ NodeGoes(n, "ended")
                 /\ UNCHANGED <<identity, holds, served, together>>

IdentityNext == \E n \in Nodes : \/ NodeStarts(n)
                                 \/ NodeLoads(n)
                                 \/ NodeTruncates(n)
                                 \/ NodeWrites(n)
                                 \/ NodeCannotSave(n)
                                 \/ NodeBinds(n)
                                 \/ NodeKilled(n)

IdentitySpec == IdentityInit /\ [][IdentityNext]_identityVars

---------------------------------------------------------------------------
\* A device keeps its ID for good: every node that ever came up, came up with
\* the one identity that is in the file, whole, whichever of them were killed
\* or failed to write and where. Only two nodes that are first started at once
\* can break it, and even they never come up with a part of an identity
\* (load_or_create, save, load, and their use in main).
DeviceIdKept == /\ served \subseteq Nodes
                /\ together \/ served \subseteq {identity}
=============================================================================
