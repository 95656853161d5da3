-------------------------- MODULE RendezvousProofs --------------------------
(***************************************************************************)
(* What a client may rely on, for every value of the constants: types, the *)
(* lease of an answered call, the truth of a lookup, the order of          *)
(* registrations, and that the whole is a directory.                       *)
(***************************************************************************)
EXTENDS Rendezvous, TLAPS

\* A call has a request, and a task only then; a call that waits is the only
\* one of its program, and a device registers only itself.
ICalls == /\ \A c \in Calls :
               /\ call[c] = "idle" => task[c] = "none" /\ answer[c] = None
               /\ call[c] # "idle" => request[c] # None /\ request[c] \in MayRequest(c)
               /\ call[c] = "ok" => task[c] = "done"
               /\ call[c] # "waiting" => begun[c] = TTL
               /\ task[c] \in {"none", "locking"} => answer[c] = None
          /\ \A b, c \in Calls :
               Caller[b] = Caller[c] /\ call[b] = "waiting" /\ call[c] = "waiting" => b = c

IType == TypeOK /\ ICalls

\* The same without seen, which every step changes in the same way (Observe).
BaseOK == /\ ICalls
          /\ registry \in Registries
          /\ call \in [Calls -> CallStates]
          /\ request \in [Calls -> Requests \union {None}]
          /\ task \in [Calls -> TaskStates]
          /\ answer \in [Calls -> Answers \union {None}]
          /\ broken \subseteq Calls
          /\ silent \subseteq broken
          /\ faults \in 0 .. MaxFaults
          /\ begun \in [Calls -> Ages]
          /\ lease \in [Devices -> Ages]
          /\ acked \in [Devices -> Calls \union {None}]
          /\ turn \in [Calls -> Turns]

\* The registration of d was made or refreshed no longer ago than this.
Kept(d, age) == registry[d] # None /\ registry[d].age <= age

\* The lease is there from the moment that the answer is.
ILease == /\ \A c \in Calls :
               /\ answer[c] # None
               /\ answer[c].type \in {"registered", "heartbeat"}
               /\ begun[c] < TTL
               => Kept(request[c].device, begun[c])
          /\ \A d \in Devices : lease[d] < TTL => Kept(d, lease[d])

\* What a lookup's answer says was so while its call waits.
ILookup == \A c \in Calls :
             call[c] = "waiting" /\ answer[c] # None =>
               /\ answer[c].type = "FOUND" => answer[c].endpoint \in seen[c] \ {None}
               /\ answer[c].type = "NOT_FOUND" => None \in seen[c]

\* Call c registers this endpoint for d.
Registers(c, d, endpoint) ==
  request[c].op = "REGISTER" /\ request[c].device = d /\ request[c].endpoint = endpoint

\* The registry holds this endpoint for d.
Holds(d, endpoint) == registry[d] # None /\ registry[d].endpoint = endpoint

\* Call c registers the device of call b, and its turn has come.
Turn(b, c) == turn[c] # "before" /\ request[c].device = request[b].device

\* What is in the registry is from the call whose turn it is. A call has its
\* turn once, as it passes the lock. When a device waits for a call whose turn
\* has come, no call that it has an answer to holds its place any more: so the
\* one that is acknowledged next is the last.
IOrder ==
  /\ \A d \in Devices, e \in Endpoints :
       Holds(d, e) => \E c \in Calls : turn[c] = "holds" /\ Registers(c, d, e)
  /\ \A c \in Calls : /\ task[c] \in {"none", "locking"} => turn[c] = "before"
                      /\ turn[c] # "before" => request[c].op = "REGISTER"
                      /\ call[c] = "ok" /\ turn[c] = "holds" => acked[request[c].device] = c
  /\ \A c \in Calls : answer[c] # None =>
       /\ answer[c].type = "heartbeat" => turn[c] = "before"
       /\ answer[c].type = "registered" => turn[c] # "before"
  /\ \A b, c \in Calls :
       call[b] = "ok" /\ turn[b] = "holds" /\ call[c] = "waiting" => ~Turn(b, c)

---------------------------------------------------------------------------
(***************************************************************************)
(* Types.                                                                  *)
(***************************************************************************)
\* What the operations on registrations yield.
LEMMA Values ==
  /\ \A registration \in Registrations :
       /\ Refreshed(registration) \in Registrations
       /\ Refreshed(registration).age = 0
       /\ Refreshed(registration).endpoint = registration.endpoint
  /\ \A old \in Registrations \union {None}, endpoint \in Endpoints :
       /\ Registered(old, endpoint) \in Registrations
       /\ Registered(old, endpoint).age = 0
       /\ Registered(old, endpoint).endpoint = endpoint
  /\ \A type \in {"registered", "heartbeat", "not-registered", "invalid-device-id", "NOT_FOUND"} :
       Answer(type) \in Answers /\ Answer(type).type = type
  /\ \A registration \in Registrations \union {None} :
       LookupAnswer(registration) \in Answers
  /\ \A age \in Ages : Older(age) \in Ages /\ age <= Older(age)
  /\ \A line : ResultOf(line) \in Results
<1>1. 0 \in Ages
  BY TTLAssumption DEF Ages
<1>2. \A type \in {"registered", "heartbeat", "not-registered", "invalid-device-id", "NOT_FOUND"} :
        Answer(type) \in Answers /\ Answer(type).type = type
  BY DEF Answer, Answers
<1>3. \A registration \in Registrations \union {None} : LookupAnswer(registration) \in Answers
  BY <1>2 DEF LookupAnswer, Found, Fresh, Answers, Registrations
<1>4. \A age \in Ages : Older(age) \in Ages /\ age <= Older(age)
  BY TTLAssumption DEF Ages, Older
<1> QED BY <1>1, <1>2, <1>3, <1>4 DEF Registered, Refreshed, Registrations, ResultOf, Results

\* Types hold at the start.
LEMMA TypeInit == Init => IType
  BY TTLAssumption, MaxFaultsAssumption
  DEF Init, IType, TypeOK, ICalls, Registries, CallStates, TaskStates, Ages, Turns

\* What is seen is an endpoint, or that there is none.
LEMMA SeenType ==
  ASSUME IType, Observe, registry' \in Registries, request' \in [Calls -> Requests \union {None}],
         \A c \in Calls : call'[c] = "waiting" => request'[c] # None
  PROVE  seen' \in [Calls -> SUBSET (Endpoints \union {None})]
<1>1. \A d \in Devices : Visible(registry', d) \in Endpoints \union {None}
  BY DEF Visible, Fresh, Registries, Registrations
<1>2. \A c \in Calls : call'[c] = "waiting" => request'[c].device \in Devices
  BY DEF Requests
<1> QED BY <1>1, <1>2 DEF Observe, IType, TypeOK

\* Types: every step of a client.
LEMMA CallTypes ==
  ASSUME IType, NEW c \in Calls, ClientCalls(c) \/ ClientReturns(c) \/ ClientFails(c)
  PROVE  BaseOK'
<1> TTL \in Ages /\ 0 \in Ages
  BY TTLAssumption DEF Ages
<1> USE DEF IType, TypeOK, BaseOK, faultVars
<1>1. CASE ClientCalls(c)
  <2>1. PICK r \in MayRequest(c) : request' = [request EXCEPT ![c] = r]
    BY <1>1 DEF ClientCalls
  <2>2. r \in Requests /\ r # None
    BY <2>1, NoneAssumption DEF MayRequest
  <2>3. ICalls'
    BY <1>1, <2>1, <2>2 DEF ClientCalls, ICalls, serverVars, MayRequest
  <2> QED BY <1>1, <2>1, <2>2, <2>3 DEF ClientCalls, serverVars, CallStates
<1>2. CASE ClientReturns(c)
  <2>1. request[c] \in Requests
    BY <1>2 DEF ClientReturns, ICalls, MayRequest
  <2>2. ResultOf(answer[c]) \in Results
    BY Values
  <2>3. ICalls'
    BY <1>2, <2>2 DEF ClientReturns, Returns, ICalls, Results, MayRequest
  <2>4. acked' \in [Devices -> Calls \union {None}]
    BY <1>2, <2>1 DEF ClientReturns, Requests
  <2> QED BY <1>2, <2>1, <2>2, <2>3, <2>4 DEF ClientReturns, Returns, CallStates
<1>3. CASE ClientFails(c)
  <2>1. ICalls'
    BY <1>3 DEF ClientFails, Returns, ICalls, MayRequest
  <2> QED BY <1>3, <2>1 DEF ClientFails, Returns, CallStates, Results
<1> QED BY <1>1, <1>2, <1>3

\* Types: every step of a task.
LEMMA TaskTypes ==
  ASSUME IType, NEW c \in Calls, TaskStep(c)
  PROVE  BaseOK'
<1> USE DEF IType, TypeOK, BaseOK, TaskGoes, TaskStates, clientVars, historyVars, faultVars
<1>1. request[c] \in Requests /\ call[c] # "idle" /\ call[c] # "ok"
  BY DEF TaskStep, TaskReads, TaskReadFails, TaskRegisters, TaskHeartbeats, Missing, TaskLooksUp, TaskAnswers,
         ICalls, MayRequest
<1>2. request[c].device \in Devices
  BY <1>1 DEF Requests
<1>3. CASE TaskReads(c)
  <2>1. answer' \in [Calls -> Answers \union {None}]
    BY <1>3, Values DEF TaskReads
  <2>2. task' \in [Calls -> TaskStates]
    BY <1>3 DEF TaskReads
  <2>3. ICalls'
    BY <1>3, <1>1 DEF TaskReads, ICalls, MayRequest
  <2> QED BY <1>3, <2>1, <2>2, <2>3 DEF TaskReads
<1>4. CASE TaskReadFails(c)
  BY <1>4, <1>1 DEF TaskReadFails, ICalls, MayRequest
<1>5. CASE TaskRegisters(c)
  <2>1. request[c].endpoint \in Endpoints
    BY <1>5, <1>1 DEF TaskRegisters, Requests
  <2>2. registry' \in Registries
    BY <1>5, <1>2, <2>1, Values DEF TaskRegisters, Registries
  <2>3. answer' \in [Calls -> Answers \union {None}]
    BY <1>5, Values DEF TaskRegisters
  <2>4. ICalls'
    BY <1>5, <1>1 DEF TaskRegisters, ICalls, MayRequest
  <2>5. turn' \in [Calls -> Turns]
    BY <1>5 DEF TaskRegisters, Turned, Turns
  <2> QED BY <1>5, <2>2, <2>3, <2>4, <2>5 DEF TaskRegisters
<1>6. CASE TaskHeartbeats(c)
  <2>1. registry' \in Registries
    BY <1>6, <1>2, Values DEF TaskHeartbeats, Missing, Registries
  <2>2. answer' \in [Calls -> Answers \union {None}]
    BY <1>6, Values DEF TaskHeartbeats, Missing
  <2>3. task' = [task EXCEPT ![c] = "answering"]
    BY <1>6 DEF TaskHeartbeats, Missing
  <2>4. ICalls'
    BY <1>6, <1>1, <2>3 DEF TaskHeartbeats, Missing, ICalls, MayRequest
  <2> QED BY <1>6, <2>1, <2>2, <2>3, <2>4 DEF TaskHeartbeats, Missing
<1>7. CASE TaskLooksUp(c)
  <2>1. answer' \in [Calls -> Answers \union {None}]
    BY <1>7, <1>2, Values DEF TaskLooksUp, Registries
  <2>2. ICalls'
    BY <1>7, <1>1 DEF TaskLooksUp, ICalls, MayRequest
  <2> QED BY <1>7, <2>1, <2>2 DEF TaskLooksUp
<1>8. CASE TaskAnswers(c)
  BY <1>8, <1>1 DEF TaskAnswers, ICalls, MayRequest
<1> QED BY <1>3, <1>4, <1>5, <1>6, <1>7, <1>8 DEF TaskStep

\* Types: the cleanup, time and faults.
LEMMA OtherTypes ==
  ASSUME IType, \/ Cleanup
                \/ Tick
                \/ ServerRestarts
                \/ \E c \in Calls : ConnectionBreaks(c)
  PROVE  BaseOK'
<1> TTL \in Ages /\ 0 \in Ages
  BY TTLAssumption DEF Ages
<1> USE DEF IType, TypeOK, BaseOK, clientVars, historyVars, faultVars, serverVars
<1>1. CASE Cleanup
  BY <1>1 DEF Cleanup, Purged, Registries, ICalls, MayRequest
<1>2. CASE Tick
  <2>1. registry' \in Registries
    BY <1>2, Values DEF Tick, Registries, Registrations
  <2>2. begun' \in [Calls -> Ages] /\ lease' \in [Devices -> Ages]
    BY <1>2, Values DEF Tick
  <2>3. \A c \in Calls : begun[c] = TTL => begun'[c] = TTL
    BY <1>2, TTLAssumption DEF Tick, Older
  <2>4. ICalls'
    BY <1>2, <2>3 DEF Tick, ICalls, MayRequest
  <2> QED BY <1>2, <2>1, <2>2, <2>4 DEF Tick
<1>3. CASE ServerRestarts
  <2>1. ICalls'
    BY <1>3 DEF ServerRestarts, ICalls, MayRequest
  <2> QED BY <1>3, <2>1, MaxFaultsAssumption DEF ServerRestarts, Fault, Registries, TaskStates
<1>4. ASSUME NEW c \in Calls, ConnectionBreaks(c)
      PROVE  BaseOK'
  BY <1>4, MaxFaultsAssumption DEF ConnectionBreaks, Fault, ICalls, MayRequest
<1> QED BY <1>1, <1>2, <1>3, <1>4

\* Types: every step.
LEMMA TypeStep == IType /\ [Next]_vars => IType'
<1> SUFFICES ASSUME IType, [Next]_vars PROVE IType'
  OBVIOUS
<1>1. CASE Next
  <2>1. BaseOK'
    BY <1>1, CallTypes, TaskTypes, OtherTypes DEF Next, Acts
  <2>2. seen' \in [Calls -> SUBSET (Endpoints \union {None})]
    BY <1>1, <2>1, SeenType DEF BaseOK, ICalls, Next
  <2> QED BY <2>1, <2>2 DEF BaseOK, IType, TypeOK
<1>2. CASE UNCHANGED vars
  BY <1>2 DEF vars, serverVars, clientVars, historyVars, faultVars, IType, TypeOK, ICalls, MayRequest
<1> QED BY <1>1, <1>2

LEMMA AlwaysTyped == Spec => []IType
  BY TypeInit, TypeStep, PTL DEF Spec

\* Every variable keeps its type, and calls and tasks go together.
THEOREM TypeCorrect == Spec => []TypeOK
<1>1. Spec => []IType
  BY AlwaysTyped
<1>2. IType => TypeOK
  BY DEF IType
<1> QED BY <1>1, <1>2, PTL

---------------------------------------------------------------------------
(***************************************************************************)
(* The lease.                                                              *)
(***************************************************************************)
\* A registration that is kept stays so when it is made anew, or grows older
\* with its lease.
LEMMA KeptStays ==
  ASSUME IType, BaseOK', NEW d \in Devices, NEW age \in Ages, Kept(d, age), age < TTL
  PROVE  /\ registry'[d] # None /\ registry'[d].age = 0 => Kept(d, age)'
         /\ registry'[d] = registry[d] => Kept(d, age)'
         /\ Purged[d] = registry[d]
         /\ Tick => registry'[d] # None /\ registry'[d].age <= Older(age)
<1> DEFINE kept == registry[d]
<1>1. kept \in Registrations /\ kept.age \in Ages /\ kept.age <= age
  BY DEF Kept, IType, TypeOK, Registries, Registrations
<1>2. Fresh(kept)
  BY <1>1, TTLAssumption DEF Fresh, Kept, Ages
<1>3. ASSUME Tick
      PROVE  registry'[d] # None /\ registry'[d].age <= Older(age)
  <2>1. registry'[d] = [kept EXCEPT !.age = Older(@)]
    BY <1>3 DEF Tick, Kept
  <2>2. Older(kept.age) <= Older(age)
    BY <1>1, TTLAssumption DEF Older, Ages
  <2>3. registry'[d] \in Registrations /\ registry'[d].age = Older(kept.age)
    BY <1>1, <2>1, Values DEF Registrations
  <2> QED BY <2>2, <2>3, NoneAssumption
<1> QED BY <1>1, <1>2, <1>3, TTLAssumption DEF Kept, Purged, Ages

\* What a task does to the registry and the answers.
LEMMA TaskTouches ==
  ASSUME IType, NEW c \in Calls, TaskStep(c)
  PROVE  /\ request[c].device \in Devices
         /\ UNCHANGED <<call, request, begun, lease>>
         /\ \A b \in Calls \ {c} : answer'[b] = answer[b]
         /\ \A d \in Devices : registry[d] # None =>
              registry'[d] = registry[d] \/ (registry'[d] # None /\ registry'[d].age = 0)
         /\ \/ answer'[c] = answer[c]
            \/ answer'[c] = None
            \/ answer'[c].type \notin {"registered", "heartbeat"}
            \/ registry'[request[c].device] # None /\ registry'[request[c].device].age = 0
<1> USE DEF IType, TypeOK, TaskGoes, clientVars, historyVars, faultVars
<1>1. request[c] \in Requests /\ request[c].device \in Devices
  BY DEF TaskStep, TaskReads, TaskReadFails, TaskRegisters, TaskHeartbeats, Missing, TaskLooksUp, TaskAnswers,
         ICalls, MayRequest, Requests
<1>2. CASE TaskReads(c)
  BY <1>1, <1>2, Values DEF TaskReads
<1>3. CASE TaskReadFails(c)
  BY <1>1, <1>3 DEF TaskReadFails
<1>4. CASE TaskRegisters(c)
  <2>1. registry' = [registry EXCEPT ![request[c].device] = Registered(@, request[c].endpoint)]
    BY <1>4 DEF TaskRegisters
  <2>2. request[c].endpoint \in Endpoints
    BY <1>1, <1>4 DEF TaskRegisters, Requests
  <2>3. registry'[request[c].device] \in Registrations /\ registry'[request[c].device].age = 0
    BY <1>1, <2>1, <2>2, Values DEF Registries
  <2> QED BY <1>1, <1>4, <2>1, <2>3, NoneAssumption DEF TaskRegisters, Registries
<1>5. CASE TaskHeartbeats(c)
  <2>1. CASE registry[request[c].device] # None
    <3>1. registry' = [registry EXCEPT ![request[c].device] = Refreshed(@)]
      BY <1>5, <2>1 DEF TaskHeartbeats, Missing
    <3>2. registry'[request[c].device] \in Registrations /\ registry'[request[c].device].age = 0
      BY <1>1, <2>1, <3>1, Values DEF Registries
    <3> QED BY <1>1, <1>5, <3>1, <3>2, NoneAssumption DEF TaskHeartbeats, Missing, Registries
  <2>2. CASE registry[request[c].device] = None
    BY <1>1, <1>5, <2>2, Values DEF TaskHeartbeats, Missing
  <2> QED BY <2>1, <2>2
<1>6. CASE TaskLooksUp(c)
  BY <1>1, <1>6 DEF TaskLooksUp, LookupAnswer, Answer, Found
<1>7. CASE TaskAnswers(c)
  BY <1>1, <1>7 DEF TaskAnswers
<1> QED BY <1>2, <1>3, <1>4, <1>5, <1>6, <1>7 DEF TaskStep

\* Every step keeps what a registration was kept for.
LEMMA LeaseStep == IType /\ IType' /\ ILease /\ [Next]_vars => ILease'
<1> SUFFICES ASSUME IType, IType', ILease, [Next]_vars PROVE ILease'
  OBVIOUS
<1> USE DEF IType
<1>0. /\ \A c \in Calls : request[c] # None => request[c] \in Requests /\ request[c].device \in Devices
      /\ BaseOK'
  BY DEF TypeOK, Requests, BaseOK
<1>1. CASE UNCHANGED vars
  BY <1>1 DEF vars, serverVars, clientVars, historyVars, faultVars, ILease, Kept
<1>2. ASSUME NEW c \in Calls, ClientCalls(c)
      PROVE  ILease'
  BY <1>2 DEF ClientCalls, serverVars, ILease, Kept, ICalls, TypeOK
<1>3. ASSUME NEW c \in Calls, ClientReturns(c)
      PROVE  ILease'
  BY <1>3, <1>0 DEF ClientReturns, Returns, ILease, Kept, ICalls, TypeOK
<1>4. ASSUME NEW c \in Calls, ClientFails(c)
      PROVE  ILease'
  BY <1>4 DEF ClientFails, Returns, ILease, Kept, ICalls, TypeOK
<1>5. ASSUME NEW c \in Calls, TaskStep(c)
      PROVE  ILease'
  <2>1. \A d \in Devices : registry[d] # None =>
          registry'[d] = registry[d] \/ (registry'[d] # None /\ registry'[d].age = 0)
    BY <1>5, TaskTouches
  <2>2. UNCHANGED <<request, begun, lease>> /\ \A b \in Calls \ {c} : answer'[b] = answer[b]
    BY <1>5, TaskTouches
  <2>3. \A d \in Devices, age \in Ages : Kept(d, age) /\ age < TTL => Kept(d, age)'
    BY <2>1, <1>0, KeptStays DEF Kept
  <2>4. \/ answer'[c] = answer[c]
        \/ answer'[c] = None
        \/ answer'[c].type \notin {"registered", "heartbeat"}
        \/ registry'[request[c].device] # None /\ registry'[request[c].device].age = 0
    BY <1>5, TaskTouches
  <2>5. begun[c] \in Ages /\ \A d \in Devices : lease[d] \in Ages
    BY DEF TypeOK
  <2>6. answer'[c] # None => request[c].device \in Devices
    BY <1>5, TaskTouches
  <2>7. \A b \in Calls : answer[b] # None => request[b].device \in Devices /\ begun[b] \in Ages
    BY <1>0 DEF ICalls, TypeOK
  <2>8. ASSUME NEW b \in Calls, answer'[b] # None, answer'[b].type \in {"registered", "heartbeat"},
               begun[b] < TTL
        PROVE  Kept(request[b].device, begun[b])'
    <3>1. CASE answer'[b] = answer[b]
      BY <3>1, <2>2, <2>3, <2>7, <2>8 DEF ILease, Kept
    <3>2. CASE answer'[b] # answer[b]
      BY <3>2, <2>2, <2>4, <2>5, <2>8 DEF Kept, Ages
    <3> QED BY <3>1, <3>2
  <2>9. \A d \in Devices : lease[d] < TTL => Kept(d, lease[d])'
    BY <2>2, <2>3, <2>5 DEF ILease, Kept
  <2> QED BY <2>2, <2>8, <2>9 DEF ILease, Kept
<1>6. CASE Cleanup
  <2>1. \A d \in Devices, age \in Ages : Kept(d, age) /\ age < TTL => Kept(d, age)'
    BY <1>0, <1>6, KeptStays DEF Cleanup
  <2> QED BY <1>0, <1>6, <2>1 DEF Cleanup, clientVars, historyVars, faultVars, ILease, Kept, ICalls, TypeOK
<1>7. CASE Tick
  <2>1. \A d \in Devices, age \in Ages :
          Kept(d, age) /\ age < TTL => registry'[d] # None /\ registry'[d].age <= Older(age)
    BY <1>0, <1>7, KeptStays
  <2>2. \A age \in Ages : Older(age) < TTL => age < TTL
    BY TTLAssumption DEF Ages, Older
  <2>3. \A c \in Calls : answer[c] # None => request[c].device \in Devices
    BY <1>0 DEF ICalls
  <2>4. /\ UNCHANGED <<answer, request>>
        /\ \A c \in Calls : begun'[c] = Older(begun[c]) /\ begun[c] \in Ages
        /\ \A d \in Devices : lease'[d] = Older(lease[d]) /\ lease[d] \in Ages
    BY <1>7 DEF Tick, clientVars, TypeOK
  <2> QED BY <2>1, <2>2, <2>3, <2>4 DEF ILease, Kept
<1>8. CASE ServerRestarts
  BY <1>8, TTLAssumption DEF ServerRestarts, ILease, TypeOK, Ages
<1>9. ASSUME NEW c \in Calls, ConnectionBreaks(c)
      PROVE  ILease'
  BY <1>9 DEF ConnectionBreaks, serverVars, clientVars, historyVars, faultVars, ILease, Kept
<1> QED BY <1>1, <1>2, <1>3, <1>4, <1>5, <1>6, <1>7, <1>8, <1>9 DEF Next, Acts

\* A device that was answered OK is visible until a TTL after it asked,
\* whatever the other calls, the cleanup and the connections do.
THEOREM LeaseIsKept == Spec => []LeaseHolds
<1>1. Init => ILease
  BY TTLAssumption DEF Init, ILease
<1>2. IType /\ ILease => LeaseHolds
  <2> SUFFICES ASSUME IType, ILease, NEW d \in Devices, lease[d] < TTL
               PROVE  Visible(registry, d) # None
    BY DEF LeaseHolds
  <2>1. registry[d] \in Registrations /\ registry[d] # None /\ registry[d].age <= lease[d]
    BY DEF IType, TypeOK, ILease, Kept, Registries
  <2>2. registry[d].age < TTL /\ registry[d].endpoint \in Endpoints
    BY <2>1, TTLAssumption DEF IType, TypeOK, Ages, Registrations
  <2> QED BY <2>1, <2>2, NoneAssumption DEF Visible, Fresh
<1> QED BY <1>1, <1>2, AlwaysTyped, LeaseStep, PTL DEF Spec

---------------------------------------------------------------------------
(***************************************************************************)
(* Lookups.                                                                *)
(***************************************************************************)
\* The answer of a lookup is what the registry shows as it is computed.
LEMMA AnswerShows ==
  ASSUME IType, NEW d \in Devices
  PROVE  LET line == LookupAnswer(registry[d]) IN
           /\ line.type = "FOUND" => line.endpoint = Visible(registry, d) /\ line.endpoint # None
           /\ line.type = "NOT_FOUND" => Visible(registry, d) = None
<1>1. CASE Fresh(registry[d])
  <2>1. registry[d].endpoint \in Endpoints
    BY <1>1 DEF Fresh, IType, TypeOK, Registries, Registrations
  <2> QED BY <1>1, <2>1, NoneAssumption DEF LookupAnswer, Found, Visible
<1>2. CASE ~Fresh(registry[d])
  BY <1>2 DEF LookupAnswer, Answer, Visible
<1> QED BY <1>1, <1>2

\* Answers stay true: what is seen stays seen while the call waits.
LEMMA LookupStep == IType /\ IType' /\ ILookup /\ [Next]_vars => ILookup'
<1> SUFFICES ASSUME IType, IType', ILookup, [Next]_vars PROVE ILookup'
  OBVIOUS
<1> USE DEF IType
<1>1. CASE UNCHANGED vars
  BY <1>1 DEF vars, serverVars, clientVars, ILookup
<1>2. CASE Next
  <2> SUFFICES ASSUME NEW c \in Calls, call'[c] = "waiting", answer'[c] # None
               PROVE  /\ answer'[c].type = "FOUND" => answer'[c].endpoint \in seen'[c] \ {None}
                      /\ answer'[c].type = "NOT_FOUND" => None \in seen'[c]
    BY DEF ILookup
  <2>1. seen'[c] = seen[c] \union {Visible(registry', request'[c].device)}
    BY <1>2 DEF Next, Observe
  <2>2. CASE call[c] = "waiting" /\ answer'[c] = answer[c]
    BY <2>1, <2>2 DEF ILookup
  <2>3. ASSUME TaskStep(c)
        PROVE  \/ call[c] = "waiting" /\ answer'[c] = answer[c]
               \/ answer'[c].type \notin {"FOUND", "NOT_FOUND"}
               \/ TaskLooksUp(c)
    BY <2>3 DEF TaskStep, TaskReads, TaskReadFails, TaskRegisters, TaskHeartbeats, Missing, TaskAnswers,
                clientVars, Answer, TypeOK
  <2>4. CASE TaskLooksUp(c)
    <3>1. request[c].device \in Devices
      BY <2>4, TaskTouches DEF TaskStep
    <3>2. answer'[c] = LookupAnswer(registry[request[c].device])
      BY <2>4 DEF TaskLooksUp, TypeOK
    <3>3. UNCHANGED <<registry, request>>
      BY <2>4 DEF TaskLooksUp, clientVars
    <3> QED BY <2>1, <3>1, <3>2, <3>3, AnswerShows
  <2>5. \/ call[c] = "waiting" /\ answer'[c] = answer[c]
        \/ TaskStep(c)
    <3>1. ASSUME NEW b \in Calls, TaskStep(b), b # c
          PROVE  call[c] = "waiting" /\ answer'[c] = answer[c]
      BY <3>1, TaskTouches
    <3>2. ASSUME NEW b \in Calls, ClientCalls(b)
          PROVE  call[c] = "waiting" /\ answer'[c] = answer[c]
      BY <3>2 DEF ClientCalls, serverVars, TypeOK, ICalls
    <3>3. ASSUME NEW b \in Calls, ClientReturns(b) \/ ClientFails(b)
          PROVE  call[c] = "waiting" /\ answer'[c] = answer[c]
      BY <3>3, Values DEF ClientReturns, ClientFails, Returns, TypeOK, Results
    <3>4. ASSUME Cleanup \/ Tick \/ \E b \in Calls : ConnectionBreaks(b)
          PROVE  call[c] = "waiting" /\ answer'[c] = answer[c]
      BY <3>4 DEF Cleanup, Tick, ConnectionBreaks, clientVars, serverVars
    <3>5. ASSUME ServerRestarts
          PROVE  call[c] = "waiting" /\ answer'[c] = answer[c]
      BY <3>5 DEF ServerRestarts, clientVars
    <3> QED BY <1>2, <3>1, <3>2, <3>3, <3>4, <3>5 DEF Next, Acts
  <2> QED BY <2>2, <2>3, <2>4, <2>5
<1> QED BY <1>1, <1>2

\* A lookup returns what was so at some moment while it ran: an endpoint whose
\* registration had not expired, or that there was none.
THEOREM LookupIsTrue == Spec => LookupTrue
<1> DEFINE Told == \A c \in Calls :
                     /\ Returned(c, "some") => answer[c].endpoint \in seen[c] \ {None}
                     /\ Returned(c, "none") => None \in seen[c]
<1>1. Init => ILookup
  BY DEF Init, ILookup
<1>2. IType /\ ILookup /\ [Next]_vars => [Told]_vars
  <2> SUFFICES ASSUME IType, ILookup, Next, NEW c \in Calls, call[c] = "waiting",
                      NEW value \in {"some", "none"}, call'[c] = value
               PROVE  /\ value = "some" => answer[c].endpoint \in seen[c] \ {None}
                      /\ value = "none" => None \in seen[c]
    BY DEF Returned
  <2>1. ClientReturns(c)
    BY TaskTouches DEF Next, Acts, ClientCalls, ClientReturns, ClientFails, Returns, Cleanup, Tick, ConnectionBreaks,
       ServerRestarts, clientVars, IType, TypeOK
  <2>2. answer[c] # None /\ ResultOf(answer[c]) = value
    BY <2>1 DEF ClientReturns, Returns, IType, TypeOK
  <2> QED BY <2>2 DEF ResultOf, ILookup
<1> QED BY <1>1, <1>2, AlwaysTyped, LookupStep, PTL DEF Spec, LookupTrue

---------------------------------------------------------------------------
(***************************************************************************)
(* The order of registrations.                                             *)
(***************************************************************************)
\* Steps that bring no endpoint into the registry, give no call its turn and
\* acknowledge none.
LEMMA QuietStep ==
  ASSUME IType, IOrder,
         acked' = acked, turn' = turn,
         \A d \in Devices, e \in Endpoints : Holds(d, e)' => Holds(d, e),
         \A c \in Calls : task[c] # "none" => request'[c] = request[c],
         \A c \in Calls : task'[c] \in {"none", "locking"} => task[c] \in {"none", "locking"},
         \A c \in Calls : call'[c] = "ok" /\ turn[c] # "before" => call[c] = "ok",
         \A c \in Calls : call'[c] = "waiting" /\ turn[c] # "before" => call[c] = "waiting",
         \A c \in Calls : answer'[c] # None =>
           \/ answer'[c] = answer[c]
           \/ answer'[c].type = "heartbeat" /\ turn[c] = "before"
           \/ answer'[c].type \notin {"registered", "heartbeat"}
  PROVE  IOrder'
<1>1. \A c \in Calls : turn[c] # "before" => request'[c] = request[c]
  BY DEF IOrder
<1>2. \A c \in Calls : \A d, e : turn[c] = "holds" /\ Registers(c, d, e) => Registers(c, d, e)'
  BY <1>1 DEF Registers
<1>3. \A d \in Devices, e \in Endpoints :
        Holds(d, e)' => \E c \in Calls : turn'[c] = "holds" /\ Registers(c, d, e)'
  BY <1>2 DEF IOrder
<1>4. \A c \in Calls : /\ task'[c] \in {"none", "locking"} => turn'[c] = "before"
                       /\ turn'[c] # "before" => request'[c].op = "REGISTER"
                       /\ call'[c] = "ok" /\ turn'[c] = "holds" => acked'[request'[c].device] = c
  BY <1>1 DEF IOrder
<1>5. \A c \in Calls : answer'[c] # None =>
        /\ answer'[c].type = "heartbeat" => turn'[c] = "before"
        /\ answer'[c].type = "registered" => turn'[c] # "before"
  BY DEF IOrder
<1>6. \A b, c \in Calls :
        call'[b] = "ok" /\ turn'[b] = "holds" /\ call'[c] = "waiting" => ~Turn(b, c)'
  BY <1>1 DEF IOrder, Turn
<1> QED BY <1>3, <1>4, <1>5, <1>6 DEF IOrder

\* A registration is carried out: its turn has come, and not before.
LEMMA RegisterStep ==
  ASSUME IType, IOrder, NEW c \in Calls, TaskRegisters(c)
  PROVE  IOrder'
<1> DEFINE device == request[c].device
           endpoint == request[c].endpoint
<1> USE DEF IType
<1>1. /\ device \in Devices /\ endpoint \in Endpoints /\ request[c].op = "REGISTER"
      /\ call[c] \notin {"idle", "ok"} /\ turn[c] = "before" /\ task[c] = "locking"
  BY DEF TaskRegisters, ICalls, MayRequest, Requests, IOrder
<1>2. /\ registry'[device].endpoint = endpoint
      /\ \A other \in Devices \ {device} : registry'[other] = registry[other]
  BY <1>1, Values, ZenonT(60) DEF TaskRegisters, TypeOK, Registries
<1>3. /\ UNCHANGED <<call, request, acked>>
      /\ answer'[c] = Answer("registered") /\ task'[c] = "answering"
      /\ \A b \in Calls \ {c} : answer'[b] = answer[b] /\ task'[b] = task[b]
  BY DEF TaskRegisters, TaskGoes, clientVars, TypeOK
<1>4. /\ turn'[c] = "holds"
      /\ \A b \in Calls \ {c} :
           turn'[b] = IF turn[b] = "holds" /\ request[b].device = device THEN "replaced" ELSE turn[b]
  BY <1>1 DEF TaskRegisters, Turned
<1>5. \A b \in Calls : \A d, e : Registers(b, d, e)' <=> Registers(b, d, e)
  BY <1>3 DEF Registers
<1>6. \A d \in Devices, e \in Endpoints :
        Holds(d, e)' => \E b \in Calls : turn'[b] = "holds" /\ Registers(b, d, e)'
  <2> SUFFICES ASSUME NEW d \in Devices, NEW e \in Endpoints, Holds(d, e)'
               PROVE  \E b \in Calls : turn'[b] = "holds" /\ Registers(b, d, e)
    BY <1>5
  <2>1. CASE d = device
    BY <1>1, <1>2, <1>4, <2>1 DEF Holds, Registers
  <2>2. CASE d # device
    <3>1. PICK b \in Calls : turn[b] = "holds" /\ Registers(b, d, e)
      BY <1>2, <2>2 DEF Holds, IOrder
    <3> QED BY <1>1, <1>4, <2>2, <3>1 DEF Registers
  <2> QED BY <2>1, <2>2
<1>7. \A b \in Calls : /\ task'[b] \in {"none", "locking"} => turn'[b] = "before"
                       /\ turn'[b] # "before" => request'[b].op = "REGISTER"
                       /\ call'[b] = "ok" /\ turn'[b] = "holds" => acked'[request'[b].device] = b
  BY <1>1, <1>3, <1>4 DEF IOrder
<1>8. \A b \in Calls : answer'[b] # None =>
        /\ answer'[b].type = "heartbeat" => turn'[b] = "before"
        /\ answer'[b].type = "registered" => turn'[b] # "before"
  <2>1. answer'[c].type = "registered"
    BY <1>3, Values
  <2> QED BY <1>3, <1>4, <2>1 DEF IOrder
<1>9. \A a, b \in Calls :
        call'[a] = "ok" /\ turn'[a] = "holds" /\ call'[b] = "waiting" => ~Turn(a, b)'
  BY <1>1, <1>3, <1>4 DEF IOrder, Turn
<1> QED BY <1>6, <1>7, <1>8, <1>9 DEF IOrder

\* A call returns: if its turn has come, it is the last one acknowledged.
LEMMA ReturnStep ==
  ASSUME IType, IOrder, NEW c \in Calls, ClientReturns(c)
  PROVE  IOrder'
<1> DEFINE device == request[c].device
<1> USE DEF IType
<1>1. /\ UNCHANGED <<registry, request, task, turn>>
      /\ call[c] = "waiting" /\ answer[c] # None /\ call'[c] = ResultOf(answer[c])
      /\ answer'[c] = None
      /\ \A b \in Calls \ {c} : call'[b] = call[b] /\ answer'[b] = answer[b]
  BY DEF ClientReturns, Returns, TypeOK
<1>2. CASE answer[c].type = "registered"
  <2>1. turn[c] # "before" /\ request[c].op = "REGISTER"
    BY <1>1, <1>2 DEF IOrder
  <2>2. device \in Devices /\ device = Caller[c]
    BY <1>1, <2>1 DEF ICalls, MayRequest, Requests
  <2>3. acked' = [acked EXCEPT ![device] = c]
    BY <1>2 DEF ClientReturns
  <2>4. call'[c] = "ok"
    BY <1>1, <1>2 DEF ResultOf
  <2>5. \A d \in Devices, e \in Endpoints :
          Holds(d, e)' => \E b \in Calls : turn'[b] = "holds" /\ Registers(b, d, e)'
    BY <1>1 DEF IOrder, Holds, Registers
  <2>6. ASSUME NEW b \in Calls, call'[b] = "ok", turn[b] = "holds"
        PROVE  acked'[request[b].device] = b
    <3>1. CASE b = c
      BY <2>2, <2>3, <3>1 DEF TypeOK
    <3>2. CASE b # c
      <4>1. call[b] = "ok" /\ acked[request[b].device] = b
        BY <1>1, <2>6, <3>2 DEF IOrder
      <4>2. request[b].device # device
        BY <1>1, <2>1, <2>6, <4>1 DEF IOrder, Turn
      <4>3. request[b].device \in Devices
        BY <4>1 DEF ICalls, MayRequest, Requests
      <4> QED BY <2>3, <4>1, <4>2, <4>3 DEF TypeOK
    <3> QED BY <3>1, <3>2
  <2>7. ASSUME NEW a \in Calls, NEW b \in Calls, call'[a] = "ok", turn[a] = "holds", call'[b] = "waiting"
        PROVE  ~Turn(a, b)
    <3>1. b # c /\ call[b] = "waiting"
      BY <1>1, <2>4, <2>7
    <3>2. CASE a # c
      BY <1>1, <2>7, <3>1, <3>2 DEF IOrder
    <3>3. CASE a = c
      <4>1. Caller[b] # Caller[c]
        BY <1>1, <3>1 DEF ICalls
      <4>2. turn[b] # "before" => request[b].device = Caller[b]
        BY <3>1 DEF IOrder, ICalls, MayRequest
      <4> QED BY <2>2, <3>3, <4>1, <4>2 DEF Turn
    <3> QED BY <3>2, <3>3
  <2>8. \A a, b : Turn(a, b)' <=> Turn(a, b)
    BY <1>1 DEF Turn
  <2>9. \A b \in Calls : /\ task'[b] \in {"none", "locking"} => turn'[b] = "before"
                         /\ turn'[b] # "before" => request'[b].op = "REGISTER"
                         /\ answer'[b] # None =>
                              /\ answer'[b].type = "heartbeat" => turn'[b] = "before"
                              /\ answer'[b].type = "registered" => turn'[b] # "before"
    BY <1>1 DEF IOrder
  <2> QED BY <1>1, <2>5, <2>6, <2>7, <2>8, <2>9 DEF IOrder
<1>3. CASE answer[c].type # "registered"
  <2>1. acked' = acked
    BY <1>3 DEF ClientReturns
  <2>2. call'[c] # "waiting" /\ (call'[c] = "ok" => turn[c] = "before")
    BY <1>1, <1>3 DEF ResultOf, IOrder
  <2> QED BY <1>1, <2>1, <2>2, QuietStep DEF Holds
<1> QED BY <1>2, <1>3

\* Every step keeps the order.
LEMMA OrderStep == IType /\ IOrder /\ [Next]_vars => IOrder'
<1> SUFFICES ASSUME IType, IOrder, [Next]_vars PROVE IOrder'
  OBVIOUS
<1> USE DEF IType, Holds
<1>1. CASE UNCHANGED vars
  BY <1>1, QuietStep DEF vars, serverVars, clientVars, historyVars, faultVars
<1>2. ASSUME NEW c \in Calls, ClientCalls(c)
      PROVE  IOrder'
  <2>1. UNCHANGED <<registry, task, answer, acked, turn>>
    BY <1>2 DEF ClientCalls, serverVars
  <2>2. task[c] = "none" /\ turn[c] = "before"
    BY <1>2 DEF ClientCalls, ICalls, IOrder
  <2>3. \A b \in Calls \ {c} : call'[b] = call[b] /\ request'[b] = request[b]
    BY <1>2 DEF ClientCalls, TypeOK
  <2>4. call'[c] = "waiting"
    BY <1>2 DEF ClientCalls, TypeOK
  <2> QED BY <2>1, <2>2, <2>3, <2>4, QuietStep
<1>3. ASSUME NEW c \in Calls, ClientReturns(c)
      PROVE  IOrder'
  BY <1>3, ReturnStep
<1>4. ASSUME NEW c \in Calls, ClientFails(c)
      PROVE  IOrder'
  BY <1>4, QuietStep DEF ClientFails, Returns, TypeOK
<1>5. ASSUME NEW c \in Calls, TaskStep(c)
      PROVE  IOrder'
  <2>1. CASE TaskReads(c)
    BY <2>1, QuietStep, Values DEF TaskReads, TaskGoes, clientVars, historyVars, faultVars, TypeOK
  <2>2. CASE TaskReadFails(c)
    BY <2>2, QuietStep DEF TaskReadFails, TaskGoes, clientVars, historyVars, faultVars, TypeOK
  <2>3. CASE TaskRegisters(c)
    BY <2>3, RegisterStep
  <2>4. CASE TaskHeartbeats(c)
    <3>1. request[c].device \in Devices
      BY <1>5, TaskTouches
    <3>2. \A d \in Devices, e \in Endpoints : Holds(d, e)' => Holds(d, e)
      BY <2>4, <3>1, Values DEF TaskHeartbeats, Missing, TypeOK, Registries
    <3>3. /\ UNCHANGED <<call, request, acked, turn>>
          /\ task'[c] = "answering"
          /\ \A b \in Calls \ {c} : answer'[b] = answer[b] /\ task'[b] = task[b]
          /\ answer'[c].type \in {"heartbeat", "not-registered"} /\ turn[c] = "before"
      BY <2>4, Values DEF TaskHeartbeats, Missing, TaskGoes, clientVars, historyVars, faultVars, TypeOK, IOrder
    <3> QED BY <3>2, <3>3, QuietStep
  <2>5. CASE TaskLooksUp(c)
    BY <2>5, QuietStep DEF TaskLooksUp, TaskGoes, LookupAnswer, Found, Answer,
                           clientVars, historyVars, faultVars, TypeOK
  <2>6. CASE TaskAnswers(c)
    BY <2>6, QuietStep DEF TaskAnswers, TaskGoes, clientVars, historyVars, faultVars, TypeOK
  <2> QED BY <1>5, <2>1, <2>2, <2>3, <2>4, <2>5, <2>6 DEF TaskStep
<1>6. CASE Cleanup
  BY <1>6, QuietStep DEF Cleanup, Purged, clientVars, historyVars, faultVars
<1>7. CASE Tick
  BY <1>7, QuietStep DEF Tick, clientVars, TypeOK, Registries, Registrations
<1>8. CASE ServerRestarts
  BY <1>8, QuietStep DEF ServerRestarts, clientVars
<1>9. ASSUME NEW c \in Calls, ConnectionBreaks(c)
      PROVE  IOrder'
  BY <1>9, QuietStep DEF ConnectionBreaks, serverVars, clientVars, historyVars, faultVars
<1> QED BY <1>1, <1>2, <1>3, <1>4, <1>5, <1>6, <1>7, <1>8, <1>9 DEF Next, Acts

\* What the registry holds for a device was put there by a call that had its
\* turn then and never again, for any number of calls on their way, whatever
\* breaks; and no call that was acknowledged before the last one holds it.
THEOREM OrderIsKept == Spec => []RegistrationHolds
<1>1. Init => IOrder
  BY DEF Init, IOrder, Holds
<1>2. IType /\ IOrder => RegistrationHolds
  BY DEF IType, TypeOK, Registries, Registrations, IOrder, Holds, Registers, RegistrationHolds
<1> QED BY <1>1, <1>2, AlwaysTyped, OrderStep, PTL DEF Spec

---------------------------------------------------------------------------
(***************************************************************************)
(* Rendezvous implements Directory. Every step of a call, of a task or of  *)
(* the server is one of its actions or leaves it as it is.                 *)
(***************************************************************************)
\* What a call did, by its task and its answer.
EffectOf(state, line) ==
  IF state \in {"none", "locking"} THEN Abstract!Pending
  ELSE IF line = None THEN Abstract!Lost
  ELSE [result |-> ResultOf(line), endpoint |-> line.endpoint]

\* The entry that a registration stands for.
EntryOf(registration) == IF registration = None THEN None ELSE registration.endpoint

LEMMA EffectsAre == /\ Effects = [c \in Calls |-> EffectOf(task[c], answer[c])]
                    /\ Effects' = [c \in Calls |-> EffectOf(task'[c], answer'[c])]
  BY DEF Effects, EffectOf, Abstract!Pending, Abstract!Lost, Abstract!Effect

\* A step of one call changes what that call did, if anything.
LEMMA EffectMoves ==
  ASSUME NEW c \in Calls, NEW what, EffectOf(task'[c], answer'[c]) = what,
         \A b \in Calls \ {c} : task'[b] = task[b] /\ answer'[b] = answer[b]
  PROVE  Effects' = [Effects EXCEPT ![c] = what]
<1> HIDE DEF EffectOf
<1> QED  BY EffectsAre

LEMMA EffectStays ==
  ASSUME NEW c \in Calls, EffectOf(task'[c], answer'[c]) = EffectOf(task[c], answer[c]),
         \A b \in Calls \ {c} : task'[b] = task[b] /\ answer'[b] = answer[b]
  PROVE  Effects' = Effects
<1> QED  BY EffectsAre

\* What the lines of the server stand for.
LEMMA EffectsOfLines ==
  /\ \A line : EffectOf("none", line) = Abstract!Pending /\ EffectOf("locking", line) = Abstract!Pending
  /\ EffectOf("done", None) = Abstract!Lost
  /\ EffectOf("answering", Answer("registered")) = Abstract!Effect("ok")
  /\ EffectOf("answering", Answer("heartbeat")) = Abstract!Effect("ok")
  /\ EffectOf("answering", Answer("not-registered")) = Abstract!Effect("error")
  /\ EffectOf("answering", Answer("invalid-device-id")) = Abstract!Effect("error")
  /\ EffectOf("answering", Answer("NOT_FOUND")) = Abstract!Effect("none")
  /\ \A endpoint \in Endpoints : EffectOf("answering", Found(endpoint)) = Abstract!Found(endpoint)
<1>1. \A type \in {"registered", "heartbeat", "not-registered", "invalid-device-id", "NOT_FOUND"} :
        Answer(type) # None /\ Answer(type).type = type /\ Answer(type).endpoint = None
  BY Values, NoneAssumption DEF Answer
<1>2. \A endpoint \in Endpoints :
        Found(endpoint) # None /\ Found(endpoint).type = "FOUND" /\ Found(endpoint).endpoint = endpoint
  BY NoneAssumption DEF Found, Answers
<1> QED
  BY <1>1, <1>2 DEF EffectOf, ResultOf, Abstract!Pending, Abstract!Lost, Abstract!Effect, Abstract!Found

\* A registration that is made or refreshed is fresh, with its endpoint.
LEMMA EntryMoves ==
  ASSUME IType, NEW d \in Devices, NEW r \in Registrations, r.age = 0,
         registry' = [registry EXCEPT ![d] = r]
  PROVE  /\ Entries' = [Entries EXCEPT ![d] = r.endpoint]
         /\ FreshDevices' = FreshDevices \union {d}
<1>1. r # None /\ Fresh(r)
  BY NoneAssumption, TTLAssumption DEF Fresh
<1>2. registry \in [Devices -> Registrations \union {None}]
  BY DEF IType, TypeOK, Registries
<1>3. /\ registry'[d] = r
      /\ \A e \in Devices \ {d} : registry'[e] = registry[e]
  BY <1>2
<1>4. Entries' = [Entries EXCEPT ![d] = r.endpoint]
  <2>1. EntryOf(registry'[d]) = r.endpoint
    BY <1>1, <1>3 DEF EntryOf
  <2>2. /\ Entries = [e \in Devices |-> EntryOf(registry[e])]
        /\ Entries' = [e \in Devices |-> EntryOf(registry'[e])]
    BY DEF Entries, EntryOf
  <2> HIDE DEF EntryOf
  <2> QED  BY <1>3, <2>1, <2>2
<1>5. FreshDevices' = FreshDevices \union {d}
  <2>1. \A e \in Devices : Fresh(registry'[e]) <=> e = d \/ Fresh(registry[e])
    BY <1>1, <1>3
  <2> HIDE DEF Fresh
  <2> QED  BY <2>1 DEF FreshDevices
<1> QED  BY <1>4, <1>5

\* The call's side.
LEMMA CallServes ==
  ASSUME IType, NEW c \in Calls, ClientCalls(c) \/ ClientReturns(c) \/ ClientFails(c)
  PROVE  Abstract!Next
<1>1. Entries' = Entries /\ FreshDevices' = FreshDevices
  BY DEF ClientCalls, ClientReturns, ClientFails, serverVars, Entries, FreshDevices
<1>2. /\ task \in [Calls -> TaskStates] /\ answer \in [Calls -> Answers \union {None}]
      /\ task' = task
  BY DEF IType, TypeOK, ClientCalls, ClientReturns, ClientFails, serverVars
<1>3. CASE ClientCalls(c)
  <2>1. Effects' = Effects
    BY <1>2, <1>3 DEF ClientCalls, serverVars, Effects
  <2>2. PICK r \in Requests : request' = [request EXCEPT ![c] = r]
    BY <1>3 DEF ClientCalls, MayRequest
  <2>3. Abstract!Ask(c)
    BY <1>1, <1>3, <2>1, <2>2 DEF ClientCalls, Abstract!Ask, Abstract!directory
  <2> QED  BY <2>3 DEF Abstract!Next
<1>4. CASE ClientReturns(c)
  <2>1. /\ call[c] = "waiting" /\ task[c] = "done" /\ answer[c] # None
        /\ call' = [call EXCEPT ![c] = ResultOf(answer[c])] /\ answer' = [answer EXCEPT ![c] = None]
        /\ request' = request
    BY <1>4 DEF ClientReturns, Returns
  <2>2. Effects[c] = [result |-> ResultOf(answer[c]), endpoint |-> answer[c].endpoint]
    BY <2>1 DEF Effects
  <2>3. ResultOf(answer[c]) \in Results
    BY Values
  <2>4. Effects[c] \notin {Abstract!Pending, Abstract!Lost} /\ Effects[c].result = ResultOf(answer[c])
    BY <2>2, <2>3 DEF Results, Abstract!Pending, Abstract!Lost, Abstract!Effect
  <2>5. EffectOf(task'[c], answer'[c]) = Abstract!Lost
    BY <1>2, <2>1, EffectsOfLines
  <2>6. Effects' = [Effects EXCEPT ![c] = Abstract!Lost]
    BY <1>2, <2>1, <2>5, EffectMoves
  <2>7. Abstract!Return(c)
    BY <1>1, <2>1, <2>4, <2>6 DEF Abstract!Return, Abstract!directory
  <2> QED  BY <2>7 DEF Abstract!Next
<1>5. CASE ClientFails(c)
  <2>1. /\ call[c] = "waiting" /\ call' = [call EXCEPT ![c] = "error"]
        /\ answer' = [answer EXCEPT ![c] = None] /\ request' = request
    BY <1>5 DEF ClientFails, Returns
  <2> DEFINE what == IF Effects[c] = Abstract!Pending THEN Abstract!Pending ELSE Abstract!Lost
  <2>2. EffectOf(task'[c], answer'[c]) = what
    <3>1. answer'[c] = None /\ task'[c] = task[c]
      BY <1>2, <2>1
    <3>2. Effects[c] = EffectOf(task[c], answer[c])
      BY EffectsAre
    <3>3. ResultOf(answer[c]) \in Results
      BY Values
    <3> QED
      BY <3>1, <3>2, <3>3 DEF EffectOf, Results, Abstract!Pending, Abstract!Lost, Abstract!Effect
  <2>3. Effects' = [Effects EXCEPT ![c] = what]
    <3> HIDE DEF what
    <3> QED  BY <1>2, <2>1, <2>2, EffectMoves
  <2>4. Effects' = [Effects EXCEPT ![c] = IF @ = Abstract!Pending THEN Abstract!Pending ELSE Abstract!Lost]
    BY <2>3
  <2>5. Abstract!Fail(c)
    BY <1>1, <2>1, <2>4 DEF Abstract!Fail, Abstract!directory
  <2> QED  BY <2>5 DEF Abstract!Next
<1> QED  BY <1>3, <1>4, <1>5

\* The server's side: the call takes effect as its answer is computed.
LEMMA TaskServes ==
  ASSUME IType, NEW c \in Calls, TaskStep(c)
  PROVE  [Abstract!Next]_(Abstract!vars)
<1> DEFINE d == request[c].device
<1>1. /\ task \in [Calls -> TaskStates] /\ answer \in [Calls -> Answers \union {None}]
      /\ registry \in [Devices -> Registrations \union {None}]
  BY DEF IType, TypeOK, Registries
<1>2. request[c] \in Requests /\ call[c] # "idle" /\ UNCHANGED <<call, request>>
  BY DEF TaskStep, TaskReads, TaskReadFails, TaskRegisters, TaskHeartbeats, Missing, TaskLooksUp, TaskAnswers,
         clientVars, IType, ICalls, MayRequest
<1>3. d \in Devices
  BY <1>2 DEF Requests
<1>4. \A b \in Calls \ {c} : task'[b] = task[b] /\ answer'[b] = answer[b]
  BY <1>1 DEF TaskStep, TaskReads, TaskReadFails, TaskRegisters, TaskHeartbeats, Missing, TaskLooksUp,
              TaskAnswers, TaskGoes
<1>5. Effects[c] = EffectOf(task[c], answer[c])
  BY EffectsAre
<1>6. registry' = registry => UNCHANGED Abstract!directory
  BY DEF Abstract!directory, Entries, FreshDevices
<1>7. task[c] \in {"none", "locking"} => Effects[c] = Abstract!Pending
  BY <1>5, EffectsOfLines
<1>8. CASE TaskReads(c)
  <2>1. task[c] = "none" /\ registry' = registry
    BY <1>8 DEF TaskReads
  <2>2. CASE task'[c] = "locking"
    <3>1. EffectOf(task'[c], answer'[c]) = EffectOf(task[c], answer[c])
      BY <2>1, <2>2, EffectsOfLines
    <3>2. Effects' = Effects
      BY <1>4, <3>1, EffectStays
    <3> QED  BY <1>2, <1>6, <2>1, <3>2 DEF Abstract!vars
  <2>3. CASE task'[c] # "locking"
    <3>1. request[c].op = "REGISTER" /\ task'[c] = "answering" /\ answer'[c] = Answer("invalid-device-id")
      BY <1>1, <1>8, <2>3 DEF TaskReads, TaskGoes
    <3>2. EffectOf(task'[c], answer'[c]) = Abstract!Effect("error")
      BY <3>1, EffectsOfLines
    <3>3. Effects' = [Effects EXCEPT ![c] = Abstract!Effect("error")]
      BY <1>4, <3>2, EffectMoves
    <3>4. Abstract!RefuseId(c)
      BY <1>2, <1>6, <1>7, <2>1, <3>1, <3>3 DEF Abstract!RefuseId, Abstract!Takes
    <3> QED  BY <3>4 DEF Abstract!Next
  <2> QED  BY <2>2, <2>3
<1>9. CASE TaskReadFails(c)
  <2>1. task[c] = "none" /\ task'[c] = "done" /\ answer'[c] = None /\ registry' = registry
    BY <1>1, <1>9 DEF TaskReadFails, TaskGoes, IType, ICalls
  <2>2. EffectOf(task'[c], answer'[c]) = Abstract!Lost
    BY <2>1, EffectsOfLines
  <2>3. Effects' = [Effects EXCEPT ![c] = Abstract!Lost]
    BY <1>4, <2>2, EffectMoves
  <2>4. Abstract!Lose({c})
    BY <1>2, <2>3, EffectsAre DEF Abstract!Lose
  <2> QED  BY <1>6, <2>1, <2>4 DEF Abstract!Next
<1>10. CASE TaskRegisters(c)
  <2> DEFINE r == Registered(registry[d], request[c].endpoint)
  <2>1. /\ task[c] = "locking" /\ request[c].op = "REGISTER"
        /\ task'[c] = "answering" /\ answer'[c] = Answer("registered")
        /\ registry' = [registry EXCEPT ![d] = r]
    BY <1>1, <1>10 DEF TaskRegisters, TaskGoes
  <2>2. request[c].endpoint \in Endpoints /\ registry[d] \in Registrations \union {None}
    BY <1>1, <1>2, <1>3, <2>1 DEF Requests
  <2>3. r \in Registrations /\ r.age = 0 /\ r.endpoint = request[c].endpoint
    BY <2>2, Values
  <2> HIDE DEF r
  <2>4. /\ Entries' = [Entries EXCEPT ![d] = request[c].endpoint]
        /\ FreshDevices' = FreshDevices \union {d}
    BY <1>3, <2>1, <2>3, EntryMoves
  <2>5. EffectOf(task'[c], answer'[c]) = Abstract!Effect("ok")
    BY <2>1, EffectsOfLines
  <2>6. Effects' = [Effects EXCEPT ![c] = Abstract!Effect("ok")]
    BY <1>4, <2>5, EffectMoves
  <2>7. Abstract!Register(c)
    BY <1>2, <1>7, <2>1, <2>4, <2>6 DEF Abstract!Register, Abstract!Takes
  <2> QED  BY <2>7 DEF Abstract!Next
<1>11. CASE TaskHeartbeats(c)
  <2>1. task[c] = "locking" /\ request[c].op = "HEARTBEAT" /\ task'[c] = "answering"
    BY <1>1, <1>11 DEF TaskHeartbeats, Missing, TaskGoes
  <2>2. Entries[d] = IF registry[d] = None THEN None ELSE registry[d].endpoint
    BY <1>3 DEF Entries
  <2>3. CASE registry[d] # None
    <3> DEFINE r == Refreshed(registry[d])
    <3>1. registry' = [registry EXCEPT ![d] = r] /\ answer'[c] = Answer("heartbeat")
      BY <1>1, <1>11, <2>3 DEF TaskHeartbeats
    <3>2. registry[d] \in Registrations
      BY <1>1, <1>3, <2>3
    <3>3. r \in Registrations /\ r.age = 0 /\ r.endpoint = registry[d].endpoint
      BY <3>2, Values
    <3>4. registry[d].endpoint # None
      BY <3>2, NoneAssumption DEF Registrations
    <3> HIDE DEF r
    <3>5. /\ Entries' = [Entries EXCEPT ![d] = Entries[d]]
          /\ FreshDevices' = FreshDevices \union {d}
      BY <1>3, <2>2, <2>3, <3>1, <3>3, EntryMoves
    <3>6. Entries' = Entries
      BY <3>5 DEF Entries
    <3>7. EffectOf(task'[c], answer'[c]) = Abstract!Effect("ok")
      BY <2>1, <3>1, EffectsOfLines
    <3>8. Effects' = [Effects EXCEPT ![c] = Abstract!Effect("ok")]
      BY <1>4, <3>7, EffectMoves
    <3>9. Abstract!Refresh(c)
      BY <1>2, <1>7, <2>1, <2>2, <2>3, <3>4, <3>5, <3>6, <3>8 DEF Abstract!Refresh, Abstract!Takes
    <3> QED  BY <3>9 DEF Abstract!Next
  <2>4. CASE registry[d] = None
    <3>1. registry' = registry /\ answer'[c] = Answer("not-registered")
      BY <1>1, <1>11, <2>4 DEF TaskHeartbeats, Missing
    <3>2. EffectOf(task'[c], answer'[c]) = Abstract!Effect("error")
      BY <2>1, <3>1, EffectsOfLines
    <3>3. Effects' = [Effects EXCEPT ![c] = Abstract!Effect("error")]
      BY <1>4, <3>2, EffectMoves
    <3>4. Abstract!RefuseHeartbeat(c)
      BY <1>2, <1>6, <1>7, <2>1, <2>2, <2>4, <3>1, <3>3 DEF Abstract!RefuseHeartbeat, Abstract!Takes
    <3> QED  BY <3>4 DEF Abstract!Next
  <2> QED  BY <2>3, <2>4
<1>12. CASE TaskLooksUp(c)
  <2> DEFINE what == IF d \in FreshDevices THEN Abstract!Found(Entries[d]) ELSE Abstract!Effect("none")
  <2>1. /\ task[c] = "locking" /\ request[c].op = "LOOKUP" /\ task'[c] = "answering"
        /\ answer'[c] = LookupAnswer(registry[d]) /\ registry' = registry
    BY <1>1, <1>12 DEF TaskLooksUp, TaskGoes
  <2>2. EffectOf(task'[c], answer'[c]) = what
    <3>1. CASE Fresh(registry[d])
      <4>1. answer'[c] = Found(registry[d].endpoint) /\ d \in FreshDevices
        BY <1>3, <2>1, <3>1 DEF LookupAnswer, FreshDevices
      <4>2. registry[d] # None /\ Entries[d] = registry[d].endpoint
        BY <1>3, <3>1 DEF Fresh, Entries
      <4>3. registry[d].endpoint \in Endpoints
        BY <1>1, <1>3, <4>2 DEF Registrations
      <4> QED  BY <2>1, <4>1, <4>2, <4>3, EffectsOfLines
    <3>2. CASE ~Fresh(registry[d])
      <4>1. answer'[c] = Answer("NOT_FOUND") /\ d \notin FreshDevices
        BY <1>3, <2>1, <3>2 DEF LookupAnswer, FreshDevices
      <4> QED  BY <2>1, <4>1, EffectsOfLines
    <3> QED  BY <3>1, <3>2
  <2>3. Effects' = [Effects EXCEPT ![c] = what]
    <3> HIDE DEF what
    <3> QED  BY <1>4, <2>2, EffectMoves
  <2>4. Abstract!Lookup(c)
    BY <1>2, <1>6, <1>7, <2>1, <2>3 DEF Abstract!Lookup, Abstract!Takes
  <2> QED  BY <2>4 DEF Abstract!Next
<1>13. CASE TaskAnswers(c)
  <2>1. /\ task[c] = "answering" /\ task'[c] = "done" /\ registry' = registry
        /\ answer'[c] = IF c \in broken THEN None ELSE answer[c]
    BY <1>1, <1>13 DEF TaskAnswers, TaskGoes
  <2>2. CASE answer'[c] = None
    <3>1. EffectOf(task'[c], answer'[c]) = Abstract!Lost
      BY <2>1, <2>2, EffectsOfLines
    <3>2. Effects' = [Effects EXCEPT ![c] = Abstract!Lost]
      BY <1>4, <3>1, EffectMoves
    <3>3. Abstract!Lose({c})
      BY <1>2, <3>2, EffectsAre DEF Abstract!Lose
    <3> QED  BY <1>6, <2>1, <3>3 DEF Abstract!Next
  <2>3. CASE answer'[c] # None
    <3>1. EffectOf(task'[c], answer'[c]) = EffectOf(task[c], answer[c])
      BY <2>1, <2>3 DEF EffectOf
    <3>2. Effects' = Effects
      BY <1>4, <3>1, EffectStays
    <3> QED  BY <1>2, <1>6, <2>1, <3>2 DEF Abstract!vars
  <2> QED  BY <2>2, <2>3
<1> QED  BY <1>8, <1>9, <1>10, <1>11, <1>12, <1>13 DEF TaskStep

\* The cleanup forgets what is not fresh; time only makes entries stale.
LEMMA CleanupServes == ASSUME IType, Cleanup PROVE Abstract!Next
<1>1. Effects' = Effects /\ UNCHANGED <<call, request>>
  BY DEF Cleanup, clientVars, Effects
<1>2. registry' = [d \in Devices |-> IF Fresh(registry[d]) THEN registry[d] ELSE None]
  BY DEF Cleanup, Purged
<1>3. ~Fresh(None)
  BY DEF Fresh
<1>4. Entries' = [d \in Devices |-> IF d \in FreshDevices THEN Entries[d] ELSE None]
  BY <1>2, <1>3 DEF Entries, FreshDevices
<1>5. FreshDevices' = FreshDevices
  <2>1. \A d \in Devices : Fresh(registry'[d]) <=> Fresh(registry[d])
    BY <1>2, <1>3
  <2> HIDE DEF Fresh
  <2> QED  BY <2>1 DEF FreshDevices
<1>6. Abstract!Forget
  BY <1>1, <1>4, <1>5 DEF Abstract!Forget
<1> QED  BY <1>6 DEF Abstract!Next

LEMMA TickServes == ASSUME IType, Tick PROVE Abstract!Next
<1> DEFINE aged == {d \in Devices : ~Fresh(registry'[d])}
<1>1. Effects' = Effects /\ UNCHANGED <<call, request>>
  BY DEF Tick, clientVars, Effects
<1>2. \A d \in Devices : registry[d] = None \/ registry[d] \in Registrations
  BY DEF IType, TypeOK, Registries
<1>3. ASSUME NEW d \in Devices
      PROVE  /\ registry'[d] = None <=> registry[d] = None
             /\ registry[d] # None => registry'[d].endpoint = registry[d].endpoint
             /\ Fresh(registry'[d]) => Fresh(registry[d])
  <2>1. registry'[d] = IF registry[d] = None THEN None
                       ELSE [registry[d] EXCEPT !.age = Older(@)]
    BY DEF Tick
  <2>2. CASE registry[d] = None
    BY <2>1, <2>2 DEF Fresh
  <2>3. CASE registry[d] # None
    <3>1. registry[d] \in Registrations
      BY <1>2, <2>3
    <3>2. Older(registry[d].age) \in Ages /\ registry[d].age <= Older(registry[d].age)
      BY <3>1, Values DEF Registrations
    <3>3. /\ registry'[d] \in Registrations /\ registry'[d].endpoint = registry[d].endpoint
          /\ registry'[d].age = Older(registry[d].age)
      BY <2>1, <2>3, <3>1, <3>2 DEF Registrations
    <3>4. registry'[d] # None
      BY <3>3, NoneAssumption
    <3>5. Fresh(registry'[d]) => Fresh(registry[d])
      BY <2>3, <3>1, <3>2, <3>3, TTLAssumption DEF Fresh, Ages, Registrations
    <3> QED  BY <2>3, <3>3, <3>4, <3>5
  <2> QED  BY <2>2, <2>3
<1>4. Entries' = Entries
  BY <1>3 DEF Entries
<1>5. FreshDevices' = FreshDevices \ aged
  <2> HIDE DEF Fresh
  <2> QED  BY <1>3 DEF FreshDevices
<1>6. Abstract!Age(aged)
  <2> HIDE DEF aged
  <2> QED  BY <1>1, <1>4, <1>5 DEF Abstract!Age
<1> QED  BY <1>6 DEF Abstract!Next

\* A restart loses every entry and every call that has not taken effect.
LEMMA RestartServes == ASSUME IType, ServerRestarts PROVE Abstract!Next
<1> DEFINE lost == {c \in Calls : call[c] # "idle" /\ (task[c] # "done" \/ answer[c] = None)}
<1>1. /\ registry' = [d \in Devices |-> None] /\ UNCHANGED <<call, request>>
      /\ task' = [c \in Calls |-> IF call[c] = "idle" THEN task[c] ELSE "done"]
      /\ answer' = [c \in Calls |-> IF task[c] = "done" THEN answer[c] ELSE None]
  BY DEF ServerRestarts, clientVars
<1>2. Entries' = [d \in Devices |-> None] /\ FreshDevices' = {}
  BY <1>1 DEF Entries, FreshDevices, Fresh
<1>3. ASSUME NEW c \in Calls
      PROVE  /\ EffectOf(task'[c], answer'[c]) = IF c \in lost THEN Abstract!Lost
                                                 ELSE EffectOf(task[c], answer[c])
             /\ call[c] # "idle" /\ EffectOf(task[c], answer[c]) = Abstract!Pending => c \in lost
  <2>1. call[c] = "idle" => task[c] = "none" /\ task'[c] = "none" /\ c \notin lost
    BY <1>1 DEF IType, ICalls
  <2>2. call[c] # "idle" => /\ task'[c] = "done"
                            /\ answer'[c] = IF task[c] = "done" THEN answer[c] ELSE None
    BY <1>1
  <2>3. ResultOf(answer[c]) \in Results
    BY Values
  <2> QED
    BY <2>1, <2>2, <2>3, EffectsOfLines
    DEF EffectOf, Results, Abstract!Pending, Abstract!Lost, Abstract!Effect
<1>4. Effects' = [c \in Calls |-> IF c \in lost THEN Abstract!Lost ELSE Effects[c]]
  <2> HIDE DEF lost
  <2> QED  BY <1>3, EffectsAre
<1>5. \A c \in Calls : call[c] # "idle" /\ Effects[c] = Abstract!Pending => c \in lost
  <2> HIDE DEF lost
  <2> QED  BY <1>3, EffectsAre
<1>6. lost \in SUBSET Calls /\ \A c \in lost : call[c] # "idle"
  OBVIOUS
<1>7. Abstract!Restart(lost)
  <2> HIDE DEF lost
  <2> QED  BY <1>1, <1>2, <1>4, <1>5, <1>6 DEF Abstract!Restart, Abstract!Lose
<1> QED  BY <1>6, <1>7 DEF Abstract!Next

LEMMA StepServes == IType /\ [Next]_vars => [Abstract!Next]_(Abstract!vars)
<1> SUFFICES ASSUME IType, [Next]_vars PROVE [Abstract!Next]_(Abstract!vars)
  OBVIOUS
<1>1. ASSUME NEW c \in Calls, ConnectionBreaks(c) PROVE UNCHANGED Abstract!vars
  BY <1>1 DEF ConnectionBreaks, serverVars, clientVars, Abstract!vars, Abstract!directory,
              Entries, FreshDevices, Effects
<1>2. CASE UNCHANGED vars
  BY <1>2 DEF vars, serverVars, clientVars, Abstract!vars, Abstract!directory,
              Entries, FreshDevices, Effects
<1> QED
  BY <1>1, <1>2, CallServes, TaskServes, CleanupServes, TickServes, RestartServes DEF Next, Acts

\* Rendezvous implements Directory: every call takes effect on the directory at
\* one moment after it was made and at most once, and returns what it did or
\* found then, for any number of calls, whatever breaks
\* (handle_connection, RendezvousClient).
THEOREM ImplementsDirectory == Spec => ServesAsDirectory
<1>1. Init => Abstract!Init
  BY DEF Init, Abstract!Init, Entries, FreshDevices, Fresh, Effects, Abstract!Pending, Abstract!Effect
<1> QED  BY <1>1, AlwaysTyped, StepServes, PTL DEF Spec, ServesAsDirectory, Abstract!Spec
=============================================================================
