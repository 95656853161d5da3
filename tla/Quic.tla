-------------------------------- MODULE Quic --------------------------------
(***************************************************************************)
(* The quinn connection of each transfer, as both programs use it: one     *)
(* bidirectional stream, reliable and in order in each direction.          *)
(* quinn is not in the repository; this is what its callers rely on.       *)
(*                                                                         *)
(* Each end is open or closed on its own. Closing an end (Connection::     *)
(* close, dropping the connection, a process that dies, a timer) tells the *)
(* other end only later, and what was in flight when an end closes may or  *)
(* may not be read: close does not wait for stream data. So an end that is *)
(* closed may still read what is queued for it, and may also fail to.      *)
(***************************************************************************)
EXTENDS Frames

CONSTANTS
  FaultKinds,   \* which faults the environment injects
  MaxFaults     \* how many of them in one behaviour (a bound for TLC)

ASSUME FaultsAssumption == /\ FaultKinds \subseteq {"net", "disk", "kill", "crash", "edit"}
                           /\ MaxFaults \in Nat

VARIABLES
  up,           \* up[t]: what the sender wrote and the node has not read
  down,         \* down[t]: what the node wrote and the sender has not read
  senderEnd,    \* senderEnd[t], nodeEnd[t]: "none" before the connection,
  nodeEnd,      \*   then "open", then "closed"
  stopped,      \* stopped[t]: the node dropped its RecvStream (STOP_SENDING)
  faults        \* how many faults were injected

quicVars == <<up, down, senderEnd, nodeEnd, stopped, faults>>

Ends == {"none", "open", "closed"}

QuicTypeOK == /\ up \in [Transfers -> Seq(Items)]
              /\ down \in [Transfers -> Seq(Replies)]
              /\ senderEnd \in [Transfers -> Ends]
              /\ nodeEnd \in [Transfers -> Ends]
              /\ stopped \in [Transfers -> BOOLEAN]
              /\ faults \in 0 .. MaxFaults

QuicInit == /\ up = [t \in Transfers |-> <<>>]
            /\ down = [t \in Transfers |-> <<>>]
            /\ senderEnd = [t \in Transfers |-> "none"]
            /\ nodeEnd = [t \in Transfers |-> "none"]
            /\ stopped = [t \in Transfers |-> FALSE]
            /\ faults = 0

(***************************************************************************)
(* Stream operations. Data written while either end is closed is lost.     *)
(***************************************************************************)
Connected(t) == senderEnd[t] = "open" /\ nodeEnd[t] = "open"

SenderWrites(t, item) ==
  up' = [up EXCEPT ![t] = IF Connected(t) THEN Append(@, item) ELSE @]

NodeWrites(t, frame) ==
  down' = [down EXCEPT ![t] = IF Connected(t) THEN Append(@, frame) ELSE @]

SenderReads(t) == /\ down[t] # <<>>
                  /\ down' = [down EXCEPT ![t] = Tail(@)]

NodeReads(t) == /\ up[t] # <<>>
                /\ up' = [up EXCEPT ![t] = Tail(@)]

SenderCloses(t) == senderEnd' = [senderEnd EXCEPT ![t] = "closed"]
NodeCloses(t)   == nodeEnd' = [nodeEnd EXCEPT ![t] = "closed"]

(***************************************************************************)
(* An end learns that the other one is gone, from a CONNECTION_CLOSE or,   *)
(* when none arrives, from its idle timer.                                 *)
(***************************************************************************)
SenderLearnsClose(t) == /\ senderEnd[t] = "open"
                        /\ nodeEnd[t] = "closed"
                        /\ SenderCloses(t)
                        /\ UNCHANGED <<up, down, nodeEnd, stopped, faults>>

NodeLearnsClose(t) == /\ nodeEnd[t] = "open"
                      /\ senderEnd[t] = "closed"
                      /\ NodeCloses(t)
                      /\ UNCHANGED <<up, down, senderEnd, stopped, faults>>

\* One end gives the connection up while the other still has it: nothing was
\* heard for quinn's idle timeout (neither program sends keep-alives).
SenderIdlesOut(t) == /\ senderEnd[t] = "open"
                     /\ SenderCloses(t)
                     /\ UNCHANGED <<up, down, nodeEnd, stopped>>

NodeIdlesOut(t) == /\ nodeEnd[t] = "open"
                   /\ NodeCloses(t)
                   /\ UNCHANGED <<up, down, senderEnd, stopped>>

Fault(kind) == /\ kind \in FaultKinds
               /\ faults < MaxFaults
               /\ faults' = faults + 1

\* The path between the two machines is cut for longer than the idle timeout.
NetworkCut(t) == /\ Fault("net")
                 /\ SenderIdlesOut(t) \/ NodeIdlesOut(t)
=============================================================================
