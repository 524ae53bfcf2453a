------------------------------ MODULE Allocator ------------------------------
(***************************************************************************)
(* What the pools promise, without versions, retries or rollbacks: each    *)
(* address has at most one holder, a pod interface holds at most one       *)
(* address of a pool, and who holds an address changes only by a call that *)
(* runs for the holder, or by the ADD of the next sandbox of its pod       *)
(* interface.                                                              *)
(***************************************************************************)
CONSTANTS Attachments, Pools, IPs, Ref, None

VARIABLES
  holder,    \* holder[p][ip]: the attachment recorded for ip in p, or None
  running    \* running[a]: the CNI call running for a, "ADD", "DEL" or None

Init ==
  /\ holder = [p \in Pools |-> [ip \in IPs |-> None]]
  /\ running = [a \in Attachments |-> None]

\* The call of a goes on, or this was its last step.
GoOn(a) == running[a] # None /\ running' \in {running, [running EXCEPT ![a] = None]}

SetHolder(p, ip, x) == holder' = [holder EXCEPT ![p][ip] = x]

Start(a, op) ==
  /\ running[a] = None
  /\ running' = [running EXCEPT ![a] = op]
  /\ UNCHANGED holder

Return(a) == GoOn(a) /\ UNCHANGED holder

\* A free address goes to a pod interface that has none in this pool.
Reserve(a, p, ip) ==
  /\ running[a] = "ADD" /\ GoOn(a)
  /\ holder[p][ip] = None
  /\ \A other \in IPs : holder[p][other] # None => Ref[holder[p][other]] # Ref[a]
  /\ SetHolder(p, ip, a)

\* A new sandbox inherits the address of its pod interface.
TakeOver(a, p, ip) ==
  /\ running[a] = "ADD" /\ GoOn(a)
  /\ holder[p][ip] # None /\ Ref[holder[p][ip]] = Ref[a]
  /\ SetHolder(p, ip, a)

\* Only a call of the recorded container gives an address back.
Release(a, p, ip) == GoOn(a) /\ holder[p][ip] = a /\ SetHolder(p, ip, None)

Next == \E a \in Attachments :
          \/ \E op \in {"ADD", "DEL"} : Start(a, op)
          \/ Return(a)
          \/ \E p \in Pools, ip \in IPs :
               Reserve(a, p, ip) \/ TakeOver(a, p, ip) \/ Release(a, p, ip)

Spec == Init /\ [][Next]_<<holder, running>>
=============================================================================
