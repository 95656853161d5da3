----------------------------- MODULE Directory -----------------------------
(***************************************************************************)
(* What the rendezvous promises its clients, with no connection, task,     *)
(* lock or clock: a directory of endpoints on which every call takes       *)
(* effect at one moment after it was made, and at most once. What it       *)
(* returns is what it did or found at that moment. An error promises       *)
(* nothing: the call may have taken effect, or will later.                 *)
(***************************************************************************)
CONSTANTS
  Calls,
  Requests,     \* what a call asks: an operation, a device and an endpoint
  Devices,
  None

VARIABLES
  entry,        \* entry[d]: the endpoint of device d
  fresh,        \* the devices whose entry a lookup may find
  call,         \* call[c]: "idle", "waiting", or what it returned
  request,      \* request[c]: what c asks
  effect        \* effect[c]: what c did or found, while it can be learnt

directory == <<entry, fresh>>
vars == <<directory, call, request, effect>>

Effect(result)  == [result |-> result, endpoint |-> None]
Found(endpoint) == [result |-> "some", endpoint |-> endpoint]

Pending == Effect("pending")
Lost    == Effect("lost")

Init == /\ entry = [d \in Devices |-> None]
        /\ fresh = {}
        /\ call = [c \in Calls |-> "idle"]
        /\ request = [c \in Calls |-> None]
        /\ effect = [c \in Calls |-> Pending]

Ask(c) == /\ call[c] = "idle"
          /\ call' = [call EXCEPT ![c] = "waiting"]
          /\ \E r \in Requests : request' = [request EXCEPT ![c] = r]
          /\ UNCHANGED <<directory, effect>>

Takes(c, op, what) == /\ call[c] # "idle" /\ effect[c] = Pending
                      /\ request[c].op = op
                      /\ effect' = [effect EXCEPT ![c] = what]
                      /\ UNCHANGED <<call, request>>

Register(c) ==
  /\ Takes(c, "REGISTER", Effect("ok"))
  /\ entry' = [entry EXCEPT ![request[c].device] = request[c].endpoint]
  /\ fresh' = fresh \union {request[c].device}

RefuseId(c) == Takes(c, "REGISTER", Effect("error")) /\ UNCHANGED directory

Refresh(c) == /\ Takes(c, "HEARTBEAT", Effect("ok"))
              /\ entry[request[c].device] # None
              /\ fresh' = fresh \union {request[c].device}
              /\ UNCHANGED entry

RefuseHeartbeat(c) == /\ Takes(c, "HEARTBEAT", Effect("error"))
                      /\ entry[request[c].device] = None
                      /\ UNCHANGED directory

Lookup(c) == /\ call[c] # "idle"
             /\ Takes(c, "LOOKUP", IF request[c].device \in fresh
                                   THEN Found(entry[request[c].device]) ELSE Effect("none"))
             /\ UNCHANGED directory

\* An answer gets lost, or a call never takes effect.
Lose(lost) ==
  /\ \A c \in lost : call[c] # "idle"
  /\ effect' = [c \in Calls |-> IF c \in lost THEN Lost ELSE effect[c]]
  /\ UNCHANGED <<call, request>>

Return(c) == /\ call[c] = "waiting" /\ effect[c] \notin {Pending, Lost}
             /\ call' = [call EXCEPT ![c] = effect[c].result]
             /\ effect' = [effect EXCEPT ![c] = Lost]
             /\ UNCHANGED <<directory, request>>

\* A call that has not taken effect yet may still do so.
Fail(c) == /\ call[c] = "waiting"
           /\ call' = [call EXCEPT ![c] = "error"]
           /\ effect' = [effect EXCEPT ![c] = IF @ = Pending THEN Pending ELSE Lost]
           /\ UNCHANGED <<directory, request>>

Age(aged) == fresh' = fresh \ aged /\ UNCHANGED <<entry, call, request, effect>>

Forget == /\ entry' = [d \in Devices |-> IF d \in fresh THEN entry[d] ELSE None]
          /\ UNCHANGED <<fresh, call, request, effect>>

\* All entries are gone, and so is every call that has not taken effect.
Restart(lost) == /\ entry' = [d \in Devices |-> None]
                 /\ fresh' = {}
                 /\ \A c \in Calls : call[c] # "idle" /\ effect[c] = Pending => c \in lost
                 /\ Lose(lost)

Next == \/ \E c \in Calls : \/ Ask(c)
                            \/ Register(c) \/ RefuseId(c)
                            \/ Refresh(c) \/ RefuseHeartbeat(c)
                            \/ Lookup(c)
                            \/ Lose({c}) /\ UNCHANGED directory
                            \/ Return(c) \/ Fail(c)
        \/ \E lost \in SUBSET Calls : Restart(lost)
        \/ \E aged \in SUBSET Devices : Age(aged)
        \/ Forget

Spec == Init /\ [][Next]_vars
=============================================================================
