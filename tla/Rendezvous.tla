----------------------------- MODULE Rendezvous -----------------------------
(***************************************************************************)
(* The rendezvous server (src/crates/tailsfer-rendezvous/src/main.rs) and  *)
(* the calls of RendezvousClient (src/src/rendezvous/client.rs) on it. A   *)
(* call is one TCP connection with one line each way, and one task at the  *)
(* server. The tasks and the cleanup task share the registry behind a      *)
(* read-write lock.                                                        *)
(*                                                                         *)
(* Time is the age of a registration, in steps of which TTL make one       *)
(* REGISTRATION_TTL; older than that all ages are alike. The cleanup runs  *)
(* again and again, at any time: its interval is left out.                 *)
(***************************************************************************)
EXTENDS Integers, FiniteSets

CONSTANTS
  Calls,        \* the calls of RendezvousClient's methods
  Callers,      \* the programs that make them
  Caller,       \* Caller[c]: the one that makes call c
  Devices,      \* the callers that register themselves, named by device ID
  ValidIds,     \* those whose ID valid_device_id takes
  Endpoints,    \* the addresses a device can have
  TTL,          \* REGISTRATION_TTL
  None,         \* no registration, no endpoint, no answer
  MaxFaults     \* a bound for TLC: broken connections and server restarts

ASSUME CallersAssumption == /\ Caller \in [Calls -> Callers]
                            /\ Devices \subseteq Callers
                            /\ ValidIds \subseteq Devices
ASSUME TTLAssumption == TTL \in Nat \ {0}
ASSUME MaxFaultsAssumption == MaxFaults \in Nat

Ages == 0 .. TTL

Registrations == [endpoint : Endpoints, age : Ages]
Registries    == [Devices -> Registrations \union {None}]

Requests == [op : {"REGISTER"}, device : Devices, endpoint : Endpoints]
              \union [op : {"HEARTBEAT", "LOOKUP"}, device : Devices, endpoint : {None}]

\* The lines of the server, and what the client's methods make of them.
Answers == [type : {"registered", "heartbeat", "not-registered", "invalid-device-id", "NOT_FOUND"},
            endpoint : {None}]
             \union [type : {"FOUND"}, endpoint : Endpoints]
ASSUME NoneAssumption == None \notin Endpoints \union Registrations \union Requests \union Answers

Results == {"ok", "error", "some", "none"}
CallStates == {"idle", "waiting"} \union Results
Turns == {"before", "holds", "replaced"}
TaskStates == {"none", "locking", "answering", "done"}

Answer(type) == [type |-> type, endpoint |-> None]
Found(endpoint) == [type |-> "FOUND", endpoint |-> endpoint]

VARIABLES
  registry,     \* registry[d]: the registration of device d
  call,         \* call[c]: "idle", "waiting", or what the method returned
  request,      \* request[c]: the line that c sent
  task,         \* task[c]: where handle_connection stands
  answer,       \* answer[c]: the line it writes, until the call returns
  broken,       \* the calls whose connection is lost
  silent,       \* those of them of which neither end is told
  faults,       \* how many faults there were
  \* History: what the client may rely on.
  begun,        \* begun[c]: the age of the call
  lease,        \* lease[d]: the age of d's last call that was answered OK
  acked,        \* acked[d]: the call of d's last acknowledged registration
  turn,         \* turn[c]: whether c's registration was carried out, and replaced
  seen          \* seen[c]: what was true of c's device while c waits

serverVars  == <<registry, task, answer>>
clientVars  == <<call, request>>
faultVars   == <<broken, silent, faults>>
historyVars == <<begun, lease, acked, turn>>
vars == <<serverVars, clientVars, faultVars, historyVars, seen>>

TypeOK == /\ registry \in Registries
          /\ call \in [Calls -> CallStates]
          /\ request \in [Calls -> Requests \union {None}]
          /\ task \in [Calls -> TaskStates]
          /\ answer \in [Calls -> Answers \union {None}]
          /\ broken \subseteq Calls
          /\ silent \subseteq broken
          /\ faults \in 0 .. MaxFaults
          /\ begun \in [Calls -> Ages]
          /\ lease \in [Devices -> Ages]
          /\ acked \in [Devices -> Calls \union {None}]
          /\ turn \in [Calls -> Turns]
          /\ seen \in [Calls -> SUBSET (Endpoints \union {None})]

Init == /\ registry = [d \in Devices |-> None]
        /\ call = [c \in Calls |-> "idle"]
        /\ request = [c \in Calls |-> None]
        /\ task = [c \in Calls |-> "none"]
        /\ answer = [c \in Calls |-> None]
        /\ broken = {}
        /\ silent = {}
        /\ faults = 0
        /\ begun = [c \in Calls |-> TTL]
        /\ lease = [d \in Devices |-> TTL]
        /\ acked = [d \in Devices |-> None]
        /\ turn = [c \in Calls |-> "before"]
        /\ seen = [c \in Calls |-> {}]

---------------------------------------------------------------------------
(***************************************************************************)
(* Operations on registrations.                                            *)
(***************************************************************************)
Fresh(registration) == registration # None /\ registration.age < TTL

\* The endpoint of a device that a lookup may return.
Visible(registrations, d) ==
  IF Fresh(registrations[d]) THEN registrations[d].endpoint ELSE None

\* As Registered, with a last_seen that was never set.
RegisteredUnseen(old, endpoint) == [endpoint |-> endpoint, age |-> TTL + 1]

\* HashMap::insert replaces the registration.
Registered(old, endpoint) == [endpoint |-> endpoint, age |-> 0]

\* As Refreshed, had last_seen not been updated.
RefreshForgotten(registration) == registration

Refreshed(registration) == [registration EXCEPT !.age = 0]

\* As LookupAnswer, had the age been left to the cleanup.
LookupAnyAge(registration) ==
  IF registration # None THEN Found(registration.endpoint) ELSE Answer("NOT_FOUND")

LookupAnswer(registration) ==
  IF Fresh(registration) THEN Found(registration.endpoint) ELSE Answer("NOT_FOUND")

Older(age) == IF age < TTL THEN age + 1 ELSE age

---------------------------------------------------------------------------
(***************************************************************************)
(* The client: connect, send a line, wait for a line. A program makes one  *)
(* call at a time; a device registers and refreshes only itself.           *)
(***************************************************************************)
MayRequest(c) == {r \in Requests : r.op = "LOOKUP" \/ r.device = Caller[c]}

ClientCalls(c) ==
  /\ call[c] = "idle"
  /\ \A b \in Calls : Caller[b] = Caller[c] => call[b] # "waiting"
  /\ call' = [call EXCEPT ![c] = "waiting"]
  /\ request' \in {[request EXCEPT ![c] = r] : r \in MayRequest(c)}
  /\ begun' = [begun EXCEPT ![c] = IF request'[c].op = "LOOKUP" THEN TTL ELSE 0]
  /\ UNCHANGED <<serverVars, faultVars, lease, acked, turn>>

\* What register, heartbeat and lookup return.
ResultOf(line) == IF line.type \in {"registered", "heartbeat"} THEN "ok"
                  ELSE IF line.type = "FOUND" THEN "some"
                  ELSE IF line.type = "NOT_FOUND" THEN "none"
                  ELSE "error"

Returns(c, value) == /\ call' = [call EXCEPT ![c] = value]
                     /\ answer' = [answer EXCEPT ![c] = None]
                     /\ begun' = [begun EXCEPT ![c] = TTL]

\* An answer is there when the task is done with the connection intact.
ClientReturns(c) ==
  /\ call[c] = "waiting"
  /\ task[c] = "done"
  /\ answer[c] # None
  /\ Returns(c, ResultOf(answer[c]))
  /\ LET d == request[c].device IN
       /\ lease' = IF answer[c].type \in {"registered", "heartbeat"}
                   THEN [lease EXCEPT ![d] = begun[c]] ELSE lease
       /\ acked' = IF answer[c].type = "registered"
                   THEN [acked EXCEPT ![d] = c] ELSE acked
  /\ UNCHANGED <<registry, task, request, faultVars, turn>>

\* connect, write or read fails, or the connection ends with no line read. The
\* task at the server is not stopped by it. There is no timeout: that a call on
\* a silent connection fails is up to TCP, and may never happen.
ClientFails(c) == /\ call[c] = "waiting"
                  /\ c \in broken
                  /\ Returns(c, "error")
                  /\ UNCHANGED <<registry, task, request, faultVars, lease, acked, turn>>

---------------------------------------------------------------------------
(***************************************************************************)
(* The server. The guard of REGISTER is dropped before the answer is       *)
(* written, those of HEARTBEAT and LOOKUP after it.                        *)
(***************************************************************************)
Holding(op) == {c \in Calls : task[c] = "answering" /\ request[c].op = op}

WriteLockFree == Holding("HEARTBEAT") = {} /\ Holding("LOOKUP") = {}
ReadLockFree  == Holding("HEARTBEAT") = {}

TaskGoes(c, state) == task' = [task EXCEPT ![c] = state]

\* A REGISTER with an ID that is not valid needs no lock.
TaskReads(c) ==
  /\ call[c] # "idle"
  /\ task[c] = "none"
  /\ \/ /\ request[c].op = "REGISTER"
        /\ request[c].device \notin ValidIds
        /\ TaskGoes(c, "answering")
        /\ answer' = [answer EXCEPT ![c] = Answer("invalid-device-id")]
     \/ /\ request[c].op = "REGISTER" => request[c].device \in ValidIds
        /\ TaskGoes(c, "locking")
        /\ UNCHANGED answer
  /\ UNCHANGED <<registry, clientVars, faultVars, historyVars>>

\* The line did not arrive before the connection was lost.
TaskReadFails(c) == /\ call[c] # "idle"
                    /\ task[c] = "none"
                    /\ c \in broken
                    /\ TaskGoes(c, "done")
                    /\ UNCHANGED <<registry, answer, clientVars, faultVars, historyVars>>

\* Every call has one turn, which ends that of the call before it.
Turned(c) == [b \in Calls |->
                IF b = c THEN IF turn[c] = "before" THEN "holds" ELSE turn[c]
                ELSE IF turn[b] = "holds" /\ request[b].device = request[c].device THEN "replaced"
                ELSE turn[b]]

TaskRegisters(c) ==
  /\ task[c] = "locking"
  /\ request[c].op = "REGISTER"
  /\ WriteLockFree
  /\ registry' = [registry EXCEPT ![request[c].device] = Registered(@, request[c].endpoint)]
  /\ answer' = [answer EXCEPT ![c] = Answer("registered")]
  /\ TaskGoes(c, "answering")
  /\ turn' = Turned(c)
  /\ UNCHANGED <<clientVars, faultVars, begun, lease, acked>>

\* As Missing, had the task gone on to the next line without an answer.
MissingSilent(c) == TaskGoes(c, "done") /\ UNCHANGED answer

Missing(c) == TaskGoes(c, "answering") /\ answer' = [answer EXCEPT ![c] = Answer("not-registered")]

\* A heartbeat refreshes what is there, however old.
TaskHeartbeats(c) ==
  /\ task[c] = "locking"
  /\ request[c].op = "HEARTBEAT"
  /\ WriteLockFree
  /\ LET d == request[c].device IN
       \/ /\ registry[d] # None
          /\ registry' = [registry EXCEPT ![d] = Refreshed(@)]
          /\ answer' = [answer EXCEPT ![c] = Answer("heartbeat")]
          /\ TaskGoes(c, "answering")
       \/ /\ registry[d] = None
          /\ Missing(c)
          /\ UNCHANGED registry
  /\ UNCHANGED <<clientVars, faultVars, historyVars>>

TaskLooksUp(c) ==
  /\ task[c] = "locking"
  /\ request[c].op = "LOOKUP"
  /\ ReadLockFree
  /\ answer' = [answer EXCEPT ![c] = LookupAnswer(registry[request[c].device])]
  /\ TaskGoes(c, "answering")
  /\ UNCHANGED <<registry, clientVars, faultVars, historyVars>>

\* As TaskAnswers, had a request been tried again whose answer was not written.
TaskAnswersRetry(c) ==
  /\ task[c] = "answering"
  /\ answer' = [answer EXCEPT ![c] = IF c \in broken THEN None ELSE @]
  /\ TaskGoes(c, IF c \in broken THEN "locking" ELSE "done")
  /\ UNCHANGED <<registry, clientVars, faultVars, historyVars>>

\* The answer is written, or lost with the connection. The next read finds the
\* end of the client's stream.
TaskAnswers(c) ==
  /\ task[c] = "answering"
  /\ answer' = [answer EXCEPT ![c] = IF c \in broken THEN None ELSE @]
  /\ TaskGoes(c, "done")
  /\ UNCHANGED <<registry, clientVars, faultVars, historyVars>>

TaskStep(c) == \/ TaskReads(c)
               \/ TaskReadFails(c)
               \/ TaskRegisters(c)
               \/ TaskHeartbeats(c)
               \/ TaskLooksUp(c)
               \/ TaskAnswers(c)

\* As Purged, had retain been given the condition the other way round.
PurgedFresh == [d \in Devices |-> IF Fresh(registry[d]) THEN None ELSE registry[d]]

Purged == [d \in Devices |-> IF Fresh(registry[d]) THEN registry[d] ELSE None]

Cleanup == /\ WriteLockFree
           /\ registry' = Purged
           /\ UNCHANGED <<task, answer, clientVars, faultVars, historyVars>>

---------------------------------------------------------------------------
(***************************************************************************)
(* Time and faults.                                                        *)
(***************************************************************************)
Tick == /\ registry' = [d \in Devices |->
                          IF registry[d] = None THEN None
                          ELSE [registry[d] EXCEPT !.age = Older(@)]]
        /\ begun' = [c \in Calls |-> Older(begun[c])]
        /\ lease' = [d \in Devices |-> Older(lease[d])]
        /\ UNCHANGED <<task, answer, clientVars, faultVars, acked, turn>>

Fault == faults < MaxFaults /\ faults' = faults + 1

\* Refused, reset or closed, which both ends notice, or gone without a word:
\* then a read at either end may wait for ever.
ConnectionBreaks(c) == /\ Fault
                       /\ call[c] = "waiting"
                       /\ c \notin broken
                       /\ broken' = broken \union {c}
                       /\ silent' \in {silent, silent \union {c}}
                       /\ UNCHANGED <<serverVars, clientVars, historyVars>>

\* The registry is in memory only: after a restart no call counts any more.
ServerRestarts ==
  /\ Fault
  /\ registry' = [d \in Devices |-> None]
  /\ task' = [c \in Calls |-> IF call[c] = "idle" THEN task[c] ELSE "done"]
  /\ broken' = broken \union {c \in Calls : call[c] = "waiting"}
  /\ begun' = [c \in Calls |-> TTL]
  /\ lease' = [d \in Devices |-> TTL]
  /\ answer' = [c \in Calls |-> IF task[c] = "done" THEN answer[c] ELSE None]
  /\ UNCHANGED <<clientVars, silent, acked, turn>>

---------------------------------------------------------------------------
\* What is true of the device while a call is on, in every state of the call.
Observe ==
  seen' = [c \in Calls |->
             IF call'[c] = "waiting"
             THEN seen[c] \union {Visible(registry', request'[c].device)}
             ELSE {}]

Acts == \/ \E c \in Calls : \/ ClientCalls(c)
                            \/ ClientReturns(c)
                            \/ ClientFails(c)
                            \/ TaskStep(c)
                            \/ ConnectionBreaks(c)
        \/ Cleanup
        \/ Tick
        \/ ServerRestarts

Next == Acts /\ Observe

Spec == Init /\ [][Next]_vars

\* The client reads what arrives, the runtime runs the tasks and the lock is
\* handed on; the interval of the cleanup comes round. Nobody has to call, and
\* nobody who reads from a silent connection has to hear of it.
FairSpec == /\ Spec
            /\ \A c \in Calls :
                 /\ WF_vars(c \notin silent /\ (ClientReturns(c) \/ ClientFails(c)) /\ Observe)
                 /\ WF_vars((c \in silent => task[c] # "none") /\ TaskStep(c) /\ Observe)
            /\ WF_vars(Cleanup /\ Observe)

---------------------------------------------------------------------------
Returned(c, value) == call[c] = "waiting" /\ call'[c] = value

\* A lookup returns what was so at some moment between its call and its
\* return: a registration of less than TTL, or that there was none.
LookupTrue ==
  [][\A c \in Calls :
       /\ Returned(c, "some") => answer[c].endpoint \in seen[c] \ {None}
       /\ Returned(c, "none") => None \in seen[c]]_vars

\* A device that was answered OK is found for at least TTL after it asked,
\* unless the server is restarted (HEARTBEAT, REGISTER, the cleanup).
LeaseHolds == \A d \in Devices : lease[d] < TTL => Visible(registry, d) # None

\* What the registry holds for a device was put there by the one turn of one
\* call: the last one carried out, and of the acknowledged ones the last to be
\* acknowledged. A call that was replaced does not come back, however its
\* answer fared. A call that failed may still have its turn behind later ones,
\* and replace them: neither side tells the server to drop it
\* (handle_connection: REGISTER and the write of its answer).
RegistrationHolds ==
  \A d \in Devices : registry[d] # None =>
    \E c \in Calls : /\ turn[c] = "holds"
                     /\ request[c].op = "REGISTER" /\ request[c].device = d
                     /\ request[c].endpoint = registry[d].endpoint
                     /\ call[c] = "ok" => acked[d] = c

\* The directory that the registry stands for, and what a call did to it.
Entries == [d \in Devices |-> IF registry[d] = None THEN None ELSE registry[d].endpoint]
FreshDevices == {d \in Devices : Fresh(registry[d])}
Effects == [c \in Calls |->
              IF task[c] \in {"none", "locking"} THEN [result |-> "pending", endpoint |-> None]
              ELSE IF answer[c] = None THEN [result |-> "lost", endpoint |-> None]
              ELSE [result |-> ResultOf(answer[c]), endpoint |-> answer[c].endpoint]]

Abstract == INSTANCE Directory WITH entry <- Entries, fresh <- FreshDevices, effect <- Effects

\* Every call takes effect on the directory at one moment after it was made and
\* at most once, and returns what it did or found then, whatever connections
\* break and whoever else calls (handle_connection, RendezvousClient).
ServesAsDirectory == Abstract!Spec

Expired(d) == registry[d] # None /\ ~Fresh(registry[d])

\* A registration that has expired is found again only after a new REGISTER.
ExpiredStaysExpired ==
  [][\A d \in Devices : Expired(d) /\ Visible(registry', d) # None =>
       \E c \in Calls : /\ task[c] = "locking" /\ task'[c] = "answering"
                        /\ request[c].op = "REGISTER" /\ request[c].device = d]_vars

\* Every call returns, unless its connection is lost without a word: an answer
\* is written for every request, the lock comes free, and a connection that is
\* refused, reset or closed ends the call with an error.
CallsEnd == \A c \in Calls : (call[c] = "waiting") ~> (call[c] # "waiting" \/ c \in silent)

\* An expired registration is removed, or its device made a call.
StalePurged == \A d \in Devices : Expired(d) ~> ~Expired(d)
=============================================================================
