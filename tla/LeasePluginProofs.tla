------------------------- MODULE LeasePluginProofs --------------------------
(***************************************************************************)
(* Proofs about a process of the plugin, for any number of calls, pods and *)
(* faults and any configurations: the lease that it takes around its       *)
(* updates (Lease) serialises them, and a lease that is held has an        *)
(* elector that will release it; and of its commands (Plugin) CHECK is     *)
(* exact, ADD keeps what it allocates apart from what the configuration    *)
(* keeps, and the booleans of the files have their precedence.             *)
(***************************************************************************)
EXTENDS Lease, Plugin, TLAPS

-----------------------------------------------------------------------------
(***************************************************************************)
(* The lease.                                                              *)
(***************************************************************************)

Holding(c) == elector[c] \in {"lead", "release"}

\* How the two goroutines of a call stand to each other.
CallInv ==
  \A c \in Calls :
    /\ elector[c] # "off" => main[c] # "idle"
    /\ elector[c] \in {"off", "acquire"} => leader[c] = "open"
    /\ main[c] = "update" => leader[c] = "closed"
    /\ main[c] \in {"idle", "wait", "update"} => ~stop[c]

\* Renewals succeed, and every call has its own identity.
Sound == faults.lost = 0 /\ Apart

\* Whoever leads holds the lease, renewed it less than two periods ago, and no
\* candidate has seen the record for longer than it is old.
HolderInv ==
  \A c \in Calls :
    /\ ~tried[c]
    /\ Holding(c) =>
         /\ holder = Pod[c] /\ mine[c] /\ age[c] <= RetryTicks
         /\ \A d \in Calls : seen[d] => age[d] <= age[c]
    /\ (leader[c] # "open" /\ main[c] \in {"wait", "update"} /\ ~expired[c])
         => elector[c] = "lead"

LeaseInv == TypeOK /\ CallInv /\ (Sound => HolderInv)

\* The elector that wrote the lease has not forgotten it.
WriterInv ==
  holder # None /\ faults.lost = 0 /\ faults.crashes = 0 =>
    \E c \in Calls : Pod[c] = holder /\ Holding(c) /\ mine[c]
-----------------------------------------------------------------------------
(* Proofs                                                                  *)

\* The bounds on ages leave room for a renewal that is due.
LEMMA Bounds ==
  /\ LeaseTicks \in Nat /\ GiveUpTicks \in Nat /\ Cap \in Nat /\ MaxFaults \in Nat
  /\ RetryTicks = 1 /\ LeaseTicks > 1 /\ GiveUpTicks > 1 /\ Cap > 1
BY LeaseAssumption DEF RetryTicks, GiveUpTicks, Cap

\* Pods are identities, and none is None.
LEMMA PodFacts == \A c \in Calls : Pod[c] \in Identities /\ Pod[c] # None
BY LeaseAssumption, Zenon DEF Identities

\* Init establishes the invariants: nobody has called.
LEMMA InitInv == Init => LeaseInv /\ WriterInv
<1> SUFFICES ASSUME Init PROVE LeaseInv /\ WriterInv
  OBVIOUS
<1>1. TypeOK
  BY Bounds DEF Init, TypeOK
<1>2. CallInv /\ HolderInv
  BY Zenon DEF Init, CallInv, HolderInv, Holding
<1>3. WriterInv
  BY Zenon DEF Init, WriterInv
<1> QED
  BY <1>1, <1>2, <1>3, Zenon DEF LeaseInv

\* Every step keeps the types.
LEMMA NextType ==
  ASSUME TypeOK, [Next]_vars
  PROVE  TypeOK'
<1> USE DEF TypeOK, channels, clock
<1>1. ASSUME NEW c \in Calls, Call(c) PROVE TypeOK'
  BY <1>1, Bounds, PodFacts DEF Call
<1>2. ASSUME NEW c \in Calls, ContextDone(c) PROVE TypeOK'
  BY <1>2, Bounds, PodFacts DEF ContextDone, Faulty
<1>3. ASSUME NEW c \in Calls, Stop(c) PROVE TypeOK'
  BY <1>3, Bounds, PodFacts DEF Stop
<1>4. ASSUME NEW c \in Calls, Update(c) PROVE TypeOK'
  BY <1>4, Bounds, PodFacts DEF Update
<1>5. ASSUME NEW c \in Calls, UpdateEnds(c) PROVE TypeOK'
  BY <1>5, Bounds, PodFacts DEF UpdateEnds
<1>6. ASSUME NEW c \in Calls, Return(c) PROVE TypeOK'
  BY <1>6, Bounds, PodFacts DEF Return
<1>7. ASSUME NEW c \in Calls, Crash(c) PROVE TypeOK'
  BY <1>7, Bounds, PodFacts DEF Crash, Faulty
<1>8. ASSUME NEW c \in Calls, Observe(c) PROVE TypeOK'
  BY <1>8, Bounds, PodFacts DEF Observe
<1>9. ASSUME NEW c \in Calls, Acquire(c) PROVE TypeOK'
  BY <1>9, Bounds, PodFacts DEF Acquire, Write
<1>10. ASSUME NEW c \in Calls, OnStartedLeading(c) PROVE TypeOK'
  BY <1>10, Bounds, PodFacts DEF OnStartedLeading
<1>11. ASSUME NEW c \in Calls, AcquireStops(c) PROVE TypeOK'
  BY <1>11, Bounds, PodFacts DEF AcquireStops
<1>12. ASSUME NEW c \in Calls, Renew(c) PROVE TypeOK'
  BY <1>12, Bounds, PodFacts DEF Renew, Write
<1>13. ASSUME NEW c \in Calls, RenewFails(c) PROVE TypeOK'
  <2>1. mine' \in [Calls -> BOOLEAN] /\ tried' \in [Calls -> BOOLEAN]
    BY <1>13, Zenon DEF RenewFails
  <2>2. faults' \in [lost : 0..MaxFaults, crashes : 0..MaxFaults, expired : 0..MaxFaults]
    BY <1>13, Bounds DEF RenewFails, Faulty
  <2> QED
    BY <1>13, <2>1, <2>2 DEF RenewFails
<1>14. ASSUME NEW c \in Calls, StopLeading(c) PROVE TypeOK'
  BY <1>14, Bounds, PodFacts DEF StopLeading
<1>15. ASSUME NEW c \in Calls, Release(c) PROVE TypeOK'
  <2>1. holder' \in Identities \cup {None} /\ age' \in [Calls -> 0..Cap]
    BY <1>15, Bounds DEF Release, Write
  <2>2. seen' \in [Calls -> BOOLEAN]
    <3>1. seen' = seen \/ seen' = [d \in Calls |-> d = c]
      BY <1>15 DEF Release, Write
    <3> QED
      BY <3>1, Zenon
  <2>3. mine' \in [Calls -> BOOLEAN]
    <3>1. mine' = mine \/ mine' = [mine EXCEPT ![c] = (None = Pod[c])]
      BY <1>15, Zenon DEF Release, Write
    <3> QED
      BY <3>1, Zenon
  <2>4. faults' \in [lost : 0..MaxFaults, crashes : 0..MaxFaults, expired : 0..MaxFaults]
    BY <1>15, Bounds DEF Release, Faulty
  <2> QED
    BY <1>15, <2>1, <2>2, <2>3, <2>4, Zenon DEF Release
<1>16. CASE Tick
  BY <1>16, Bounds, PodFacts DEF Tick
<1>17. CASE UNCHANGED vars
  BY <1>17, Zenon DEF vars, channels, clock
<1> QED
  BY <1>1, <1>2, <1>3, <1>4, <1>5, <1>6, <1>7, <1>8, <1>9, <1>10, <1>11, <1>12, <1>13, <1>14, <1>15, <1>16, <1>17, Zenon DEF Next, CallStep, ElectorStep

\* Every step keeps the two goroutines of a call in step.
LEMMA NextCall ==
  ASSUME TypeOK, CallInv, [Next]_vars
  PROVE  CallInv'
<1> USE DEF TypeOK, CallInv, channels, clock
<1>1. ASSUME NEW c \in Calls, Call(c) PROVE CallInv'
  BY <1>1 DEF Call
<1>2. ASSUME NEW c \in Calls, ContextDone(c) PROVE CallInv'
  BY <1>2 DEF ContextDone, Faulty
<1>3. ASSUME NEW c \in Calls, Stop(c) PROVE CallInv'
  BY <1>3 DEF Stop, Waited
<1>4. ASSUME NEW c \in Calls, Update(c) PROVE CallInv'
  BY <1>4 DEF Update
<1>5. ASSUME NEW c \in Calls, UpdateEnds(c) PROVE CallInv'
  BY <1>5 DEF UpdateEnds
<1>6. ASSUME NEW c \in Calls, Return(c) PROVE CallInv'
  BY <1>6 DEF Return
<1>7. ASSUME NEW c \in Calls, Crash(c) PROVE CallInv'
  BY <1>7 DEF Crash, Faulty
<1>8. ASSUME NEW c \in Calls, Observe(c) PROVE CallInv'
  BY <1>8 DEF Observe
<1>9. ASSUME NEW c \in Calls, Acquire(c) PROVE CallInv'
  BY <1>9 DEF Acquire, Write
<1>10. ASSUME NEW c \in Calls, OnStartedLeading(c) PROVE CallInv'
  BY <1>10 DEF OnStartedLeading
<1>11. ASSUME NEW c \in Calls, AcquireStops(c) PROVE CallInv'
  BY <1>11 DEF AcquireStops
<1>12. ASSUME NEW c \in Calls, Renew(c) PROVE CallInv'
  BY <1>12 DEF Renew, Write
<1>13. ASSUME NEW c \in Calls, RenewFails(c) PROVE CallInv'
  BY <1>13 DEF RenewFails, Faulty
<1>14. ASSUME NEW c \in Calls, StopLeading(c) PROVE CallInv'
  BY <1>14 DEF StopLeading
<1>15. ASSUME NEW c \in Calls, Release(c) PROVE CallInv'
  BY <1>15 DEF Release, Write, Faulty
<1>16. CASE Tick
  BY <1>16 DEF Tick
<1>17. CASE UNCHANGED vars
  BY <1>17, Zenon DEF vars, channels, clock
<1> QED
  BY <1>1, <1>2, <1>3, <1>4, <1>5, <1>6, <1>7, <1>8, <1>9, <1>10, <1>11, <1>12, <1>13, <1>14, <1>15, <1>16, <1>17, Zenon DEF Next, CallStep, ElectorStep

\* A lost request and a shared identity are never forgotten.
LEMMA NextSound ==
  ASSUME TypeOK, [Next]_vars, Sound'
  PROVE  Sound
<1> USE DEF TypeOK, Sound, Apart, channels, clock
<1>1. ASSUME NEW c \in Calls, Call(c) PROVE Sound
  BY <1>1, Bounds DEF Call
<1>2. ASSUME NEW c \in Calls, ContextDone(c) PROVE Sound
  BY <1>2, Bounds DEF ContextDone, Faulty
<1>3. ASSUME NEW c \in Calls, Stop(c) PROVE Sound
  BY <1>3, Bounds DEF Stop
<1>4. ASSUME NEW c \in Calls, Update(c) PROVE Sound
  BY <1>4, Bounds DEF Update
<1>5. ASSUME NEW c \in Calls, UpdateEnds(c) PROVE Sound
  BY <1>5, Bounds DEF UpdateEnds
<1>6. ASSUME NEW c \in Calls, Return(c) PROVE Sound
  BY <1>6, Bounds DEF Return
<1>7. ASSUME NEW c \in Calls, Crash(c) PROVE Sound
  BY <1>7, Bounds DEF Crash, Faulty
<1>8. ASSUME NEW c \in Calls, Observe(c) PROVE Sound
  BY <1>8, Bounds DEF Observe
<1>9. ASSUME NEW c \in Calls, Acquire(c) PROVE Sound
  BY <1>9, Bounds DEF Acquire, Write
<1>10. ASSUME NEW c \in Calls, OnStartedLeading(c) PROVE Sound
  BY <1>10, Bounds DEF OnStartedLeading
<1>11. ASSUME NEW c \in Calls, AcquireStops(c) PROVE Sound
  BY <1>11, Bounds DEF AcquireStops
<1>12. ASSUME NEW c \in Calls, Renew(c) PROVE Sound
  BY <1>12, Bounds DEF Renew, Write
<1>13. ASSUME NEW c \in Calls, RenewFails(c) PROVE Sound
  BY <1>13, Bounds DEF RenewFails, Faulty
<1>14. ASSUME NEW c \in Calls, StopLeading(c) PROVE Sound
  BY <1>14, Bounds DEF StopLeading
<1>15. ASSUME NEW c \in Calls, Release(c) PROVE Sound
  BY <1>15, Bounds DEF Release, Write, Faulty
<1>16. CASE Tick
  BY <1>16, Bounds DEF Tick
<1>17. CASE UNCHANGED vars
  BY <1>17, Zenon DEF vars, channels, clock
<1> QED
  BY <1>1, <1>2, <1>3, <1>4, <1>5, <1>6, <1>7, <1>8, <1>9, <1>10, <1>11, <1>12, <1>13, <1>14, <1>15, <1>16, <1>17, Zenon DEF Next, CallStep, ElectorStep

\* Every step keeps the leader in possession of the lease.
LEMMA NextHolder ==
  ASSUME LeaseInv, [Next]_vars, Sound, Sound'
  PROVE  HolderInv'
<1> USE DEF LeaseInv, TypeOK, CallInv, HolderInv, Holding, Sound, Apart, channels, clock
<1>1. ASSUME NEW c \in Calls, Call(c) PROVE HolderInv'
  BY <1>1, Bounds DEF Call
<1>2. ASSUME NEW c \in Calls, ContextDone(c) PROVE HolderInv'
  BY <1>2, Bounds DEF ContextDone, Faulty
<1>3. ASSUME NEW c \in Calls, Stop(c) PROVE HolderInv'
  BY <1>3, Bounds DEF Stop
<1>4. ASSUME NEW c \in Calls, Update(c) PROVE HolderInv'
  <2>1. UNCHANGED <<holder, elector, channels, expired, mine, seen, clock>>
    BY <1>4 DEF Update
  <2>2. ASSUME NEW d \in Calls, main'[d] \in {"wait", "update"} PROVE main[d] \in {"wait", "update"}
    BY <1>4, <2>2 DEF Update
  <2> QED
    BY <2>1, <2>2
<1>5. ASSUME NEW c \in Calls, UpdateEnds(c) PROVE HolderInv'
  BY <1>5, Bounds DEF UpdateEnds
<1>6. ASSUME NEW c \in Calls, Return(c) PROVE HolderInv'
  BY <1>6, Bounds DEF Return
<1>7. ASSUME NEW c \in Calls, Crash(c) PROVE HolderInv'
  BY <1>7, Bounds DEF Crash, Faulty
<1>8. ASSUME NEW c \in Calls, Observe(c) PROVE HolderInv'
  BY <1>8, Bounds DEF Observe, Cancelled
<1>9. ASSUME NEW c \in Calls, Acquire(c) PROVE HolderInv'
  <2>1. \A d \in Calls : ~Holding(d)
    <3> SUFFICES ASSUME NEW d \in Calls, Holding(d) PROVE FALSE
      OBVIOUS
    <3>1. d # c /\ main[d] # "idle" /\ main[c] # "idle"
      BY <1>9, Zenon DEF Acquire
    <3>2. Pod[d] # Pod[c] /\ holder = Pod[d]
      BY <3>1
    <3>3. holder # None
      BY <3>2, PodFacts
    <3>4. ~(seen[c] /\ age[c] >= LeaseTicks)
      BY Bounds
    <3> QED
      BY <1>9, <3>2, <3>3, <3>4, Zenon DEF Acquire, Available
  <2>2. \A d \in Calls : Holding(d)' => d = c
    BY <1>9, <2>1 DEF Acquire
  <2>3. \A d \in Calls : seen'[d] => d = c
    BY <1>9 DEF Acquire, Write
  <2>4. holder' = Pod[c] /\ age'[c] = 0 /\ tried' = tried /\ elector'[c] = "lead"
    BY <1>9 DEF Acquire, Write
  <2>5. mine'[c]
    <3>1. mine' = [mine EXCEPT ![c] = (Pod[c] = Pod[c])]
      BY <1>9 DEF Acquire, Write
    <3> QED
      BY <3>1, ZenonT(60)
  <2>6. ASSUME NEW d \in Calls, d # c, leader'[d] # "open", main'[d] \in {"wait", "update"}, ~expired'[d]
        PROVE  elector'[d] = "lead"
    BY <1>9, <2>6 DEF Acquire
  <2> QED
    BY <2>2, <2>3, <2>4, <2>5, <2>6, Bounds
<1>10. ASSUME NEW c \in Calls, OnStartedLeading(c) PROVE HolderInv'
  BY <1>10, Bounds DEF OnStartedLeading
<1>11. ASSUME NEW c \in Calls, AcquireStops(c) PROVE HolderInv'
  BY <1>11, Bounds DEF AcquireStops
<1>12. ASSUME NEW c \in Calls, Renew(c) PROVE HolderInv'
  BY <1>12, Bounds DEF Renew, Write
<1>13. ASSUME NEW c \in Calls, RenewFails(c) PROVE HolderInv'
  BY <1>13, Bounds DEF RenewFails, Faulty
<1>14. ASSUME NEW c \in Calls, StopLeading(c) PROVE HolderInv'
  BY <1>14, Bounds DEF StopLeading, Cancelled
<1>15. ASSUME NEW c \in Calls, Release(c) PROVE HolderInv'
  BY <1>15, Bounds DEF Release, Write, Faulty
<1>16. CASE Tick
  BY <1>16, Bounds DEF Tick, Cancelled
<1>17. CASE UNCHANGED vars
  BY <1>17, Zenon DEF vars, channels, clock
<1> QED
  BY <1>1, <1>2, <1>3, <1>4, <1>5, <1>6, <1>7, <1>8, <1>9, <1>10, <1>11, <1>12, <1>13, <1>14, <1>15, <1>16, <1>17, ZenonT(60) DEF Next, CallStep, ElectorStep

\* Every step keeps a writer of the lease that will release it.
LEMMA NextWriter ==
  ASSUME TypeOK, CallInv, WriterInv, [Next]_vars
  PROVE  WriterInv'
<1> USE DEF TypeOK, CallInv, WriterInv, Holding, channels, clock
<1>1. ASSUME NEW c \in Calls, Call(c) PROVE WriterInv'
  BY <1>1, Bounds, PodFacts DEF Call
<1>2. ASSUME NEW c \in Calls, ContextDone(c) PROVE WriterInv'
  BY <1>2, Bounds, PodFacts, Zenon DEF ContextDone, Faulty
<1>3. ASSUME NEW c \in Calls, Stop(c) PROVE WriterInv'
  BY <1>3, Bounds, PodFacts, Zenon DEF Stop
<1>4. ASSUME NEW c \in Calls, Update(c) PROVE WriterInv'
  BY <1>4, Bounds, PodFacts, Zenon DEF Update
<1>5. ASSUME NEW c \in Calls, UpdateEnds(c) PROVE WriterInv'
  BY <1>5, Bounds, PodFacts, Zenon DEF UpdateEnds
<1>6. ASSUME NEW c \in Calls, Return(c) PROVE WriterInv'
  BY <1>6, Bounds, PodFacts DEF Return
<1>7. ASSUME NEW c \in Calls, Crash(c) PROVE WriterInv'
  BY <1>7, Bounds, PodFacts DEF Crash, Faulty
<1>8. ASSUME NEW c \in Calls, Observe(c) PROVE WriterInv'
  BY <1>8, Bounds, PodFacts DEF Observe
<1>9. ASSUME NEW c \in Calls, Acquire(c) PROVE WriterInv'
  BY <1>9, Bounds, PodFacts, Zenon DEF Acquire, Write
<1>10. ASSUME NEW c \in Calls, OnStartedLeading(c) PROVE WriterInv'
  BY <1>10, Bounds, PodFacts DEF OnStartedLeading
<1>11. ASSUME NEW c \in Calls, AcquireStops(c) PROVE WriterInv'
  BY <1>11, Bounds, PodFacts DEF AcquireStops
<1>12. ASSUME NEW c \in Calls, Renew(c) PROVE WriterInv'
  BY <1>12, Bounds, PodFacts, ZenonT(60) DEF Renew, Write
<1>13. ASSUME NEW c \in Calls, RenewFails(c) PROVE WriterInv'
  BY <1>13, Bounds, PodFacts DEF RenewFails, Faulty
<1>14. ASSUME NEW c \in Calls, StopLeading(c) PROVE WriterInv'
  BY <1>14, Bounds, PodFacts DEF StopLeading
<1>15. ASSUME NEW c \in Calls, Release(c) PROVE WriterInv'
  BY <1>15, Bounds, PodFacts DEF Release, Write, Faulty
<1>16. CASE Tick
  BY <1>16, Bounds, PodFacts, Zenon DEF Tick
<1>17. CASE UNCHANGED vars
  BY <1>17 DEF vars, channels, clock
<1> QED
  BY <1>1, <1>2, <1>3, <1>4, <1>5, <1>6, <1>7, <1>8, <1>9, <1>10, <1>11, <1>12, <1>13, <1>14, <1>15, <1>16, <1>17, ZenonT(60) DEF Next, CallStep, ElectorStep

\* What the proofs below rest on.
LEMMA Invariance == Spec => [](LeaseInv /\ WriterInv)
<1>1. LeaseInv /\ WriterInv /\ [Next]_vars => (LeaseInv /\ WriterInv)'
  BY NextType, NextCall, NextSound, NextHolder, NextWriter DEF LeaseInv
<1> QED
  BY <1>1, InitInv, PTL DEF Spec

\* Updates of two calls never overlap, for any number of calls, pods and faults:
\* IPManagement runs its update only as the holder, and a holder that renews in
\* time cannot be taken for expired.
THEOREM UpdatesSerialised == Spec => []Serialised
<1>1. LeaseInv => Serialised
  BY DEF LeaseInv, CallInv, HolderInv, Holding, Sound, Apart, Serialised
<1> QED
  BY <1>1, Invariance, PTL

\* A lease that is held is one that some elector will release.
THEOREM LeaseNotAbandoned == Spec => []NoAbandonedLease
<1>1. WriterInv => NoAbandonedLease
  BY DEF WriterInv, Holding, NoAbandonedLease
<1> QED
  BY <1>1, Invariance, PTL

-----------------------------------------------------------------------------
(***************************************************************************)
(* The commands.                                                           *)
(***************************************************************************)

(* The inductive invariant.                                                *)

\* What the sandbox variable holds: only a state before ADD, all of it after.
Added(x) ==
  x = [state |-> x.state, args |-> x.args, version |-> x.version, result |-> x.result,
       dynamic |-> x.dynamic, conf |-> x.conf, same |-> x.same]

SandboxOK(x) == (x = [state |-> x.state] \/ Added(x)) /\ (x.state = "up" => Added(x))

\* The addresses of x are apart from what its configuration keeps.
KeptApart(x) ==
  /\ \A a \in Each(x.conf.addresses) : a.ip \notin x.dynamic
  /\ x.conf.flags["exclude_gateway"] => x.conf.gateway \notin x.dynamic

\* The entries of s in the pool of a range of conf, if it got f.
Granted(s, conf, f, id) ==
  {[ip |-> f[k], id |-> s] : k \in {j \in DOMAIN f : PoolIdentifier(conf, conf.ranges[j]) = id}}

\* What ADD left of s is as it was: f is what it got.
Intact(s, x, f) ==
  /\ x.result = Result(x.conf, f)
  /\ \A k \in DOMAIN x.conf.ranges :
       LET id == PoolIdentifier(x.conf, x.conf.ranges[k])
       IN  id \in DOMAIN pools /\ Own(s, id) = Granted(s, x.conf, f, id)

SandboxInv(s) ==
  LET x == sandbox[s]
  IN  /\ SandboxOK(x)
      /\ x.state = "new" => \A id \in DOMAIN pools : Own(s, id) = {}
      /\ x.state = "up" =>
           /\ x.conf # Failed /\ KeptApart(x)
           /\ \A i \in x.dynamic : \E key \in x.result : key.ip = i
           /\ x.same => /\ x.conf = ConfigOf(s)
                        /\ \E f \in [DOMAIN x.conf.ranges -> 0 .. MaxIP] : Intact(s, x, f)

\* What CHECK expects for the j-th range, and once it has passed those before
\* the k-th.
KeysOf(s, conf, j) ==
  LET id == PoolIdentifier(conf, conf.ranges[j])
  IN  {Key(e.ip, id.net, gatewayForExpectedAllocation(e.ip, conf.gateway)) : e \in Own(s, id)}

Expected(s, conf, k) == UNION {KeysOf(s, conf, j) : j \in {i \in DOMAIN conf.ranges : i < k}}

CheckInv ==
  LET x == sandbox[check.s]
  IN  /\ check = [pc |-> check.pc, s |-> check.s, k |-> check.k, expected |-> check.expected,
                  prev |-> check.prev, conf |-> check.conf, lost |-> check.lost]
      /\ check.s \in Sandboxes /\ x.state = "up" /\ check.k \in Nat \ {0}
      /\ check.prev \in {Absent, x.result}
      /\ check.lost \subseteq x.dynamic
      /\ \A i \in check.lost : \A id \in DOMAIN pools : [ip |-> i, id |-> check.s] \notin pools[id]
      /\ \A key \in check.expected : key.ip \notin check.lost
      /\ check.pc = "ranges" /\ x.same =>
           check.conf = x.conf /\ check.expected = Expected(check.s, check.conf, check.k)
      /\ check.pc = "failed" => ~x.same
      /\ check.pc = "passed" /\ check.prev # Absent =>
           check.prev = check.expected \cup StaticResult(check.conf)

PInv ==
  /\ env \in DOMAIN Environments /\ raw \in Env.Networks /\ flat \in Env.FlatFiles
  /\ sandbox = [s \in Sandboxes |-> sandbox[s]] /\ pools = [id \in DOMAIN pools |-> pools[id]]
  /\ \A s \in Sandboxes : SandboxInv(s)
  /\ check.pc # "idle" => CheckInv
  /\ \A id \in DOMAIN pools : \A e \in pools[id] : e = [ip |-> e.ip, id |-> e.id]
-----------------------------------------------------------------------------
(* What ADD allocates is apart from what the configuration keeps.          *)

\* The check of the static addresses and the allocation, written separately,
\* compute the same bounds of a range.
LEMMA SameBounds ==
  ASSUME NEW r
  PROVE  Alloc(r.range)!effectiveIPRange(AllocateConf(r)) = effectiveManagedRange(r)
<1>1. AllocateConf(r).RangeStart = r.start /\ AllocateConf(r).RangeEnd = r.end /\ AllocateConf(r).L3 = r.l3
  BY DEF AllocateConf
<1>2. CASE ~r.l3
  BY <1>1, <1>2, Zenon DEF effectiveManagedRange, Alloc!effectiveIPRange
<1>3. CASE r.l3
  <2> DEFINE first == IF r.start # Zero /\ Contains(r.range, r.start) THEN r.start ELSE r.range.first
             last == IF r.end # Zero /\ Contains(r.range, r.end) /\ r.end >= first THEN r.end ELSE r.range.last
  <2>1. effectiveManagedRange(r) = [first |-> first, last |-> last]
    BY <1>3, Zenon DEF effectiveManagedRange
  <2>2. Alloc(r.range)!effectiveIPRange(AllocateConf(r)) = [first |-> first, last |-> last]
    BY <1>1, <1>3, Zenon DEF Alloc!effectiveIPRange, Alloc!Contains, Contains, Alloc!NetworkIP,
       Alloc!SubnetBroadcastIP
  <2> HIDE DEF first, last
  <2> QED
    BY <2>1, <2>2, Zenon
<1> QED
  BY <1>2, <1>3, Zenon

\* An address that ADD may choose is one that must not be static.
LEMMA ChoiceManaged ==
  ASSUME NEW conf, NEW r, NEW x \in Choices(conf, r)
  PROVE  staticAddressInManagedRange(x, r) /\ ~Alloc(r.range)!ipExcluded(AllocateConf(r), x)
<1>1. /\ x \in r.range.first .. r.range.last /\ ~Alloc(r.range)!ipExcluded(AllocateConf(r), x)
      /\ Alloc(r.range)!IsIPInRange(x, effectiveManagedRange(r).first, effectiveManagedRange(r).last)
  BY SameBounds, Zenon DEF Choices
<1>2. Contains(r.range, x)
  BY <1>1 DEF Contains
<1> QED
  BY <1>1, <1>2, Zenon DEF staticAddressInManagedRange, Alloc!IsIPInRange

\* The fields of the merged configuration come from one of the files.
LEMMA MergedField ==
  ASSUME NEW json, NEW file, NEW f \in Fields, f \notin Bools
  PROVE  Merged(json, file)[f] \in {json[f], file[f], Zero}
<1> DEFINE empty == [g \in Fields |-> IF g \in Bools THEN FALSE ELSE Zero]
           other == IF file = NoFields THEN empty ELSE UnmarshalJSON(file)
           m == merge(UnmarshalJSON(json), other)
<1>1. other[f] \in {file[f], Zero} /\ UnmarshalJSON(json)[f] \in {json[f], Zero}
  BY Zenon DEF UnmarshalJSON
<1>2. m[f] \in {UnmarshalJSON(json)[f], other[f]}
  BY Zenon DEF merge
<1>3. Merged(json, file) = applyIPAMBoolPrecedence(m, json, file)
  BY Zenon DEF Merged
<1> HIDE DEF m, other
<1>4. applyIPAMBoolPrecedence(m, json, file)[f] = m[f]
  BY Zenon DEF applyIPAMBoolPrecedence
<1> QED
  BY <1>1, <1>2, <1>3, <1>4, Zenon

\* Concatenation of lists.
LEMMA ConcatList ==
  ASSUME NEW a, NEW b, IsList(a), IsList(b)
  PROVE  IsList(a \o b) /\ Each(a \o b) = Each(a) \cup Each(b)
<1> DEFINE S == Each(a) \cup Each(b)
           c == a \o b
<1>1. a \in Seq(S) /\ b \in Seq(S)
  BY DEF IsList
<1>2. /\ c \in Seq(S) /\ Len(c) = Len(a) + Len(b) /\ DOMAIN c = 1 .. Len(c)
      /\ \A k \in DOMAIN a : k \in DOMAIN c /\ c[k] = a[k]
      /\ \A k \in DOMAIN b : Len(a) + k \in DOMAIN c /\ c[Len(a) + k] = b[k]
      /\ \A k \in DOMAIN c : k \in DOMAIN a \/ (k - Len(a) \in DOMAIN b /\ k = Len(a) + (k - Len(a)))
  BY <1>1
<1> HIDE DEF S, c
<1>3. Each(c) = Each(a) \cup Each(b)
  <2>1. ASSUME NEW x \in Each(c) PROVE x \in Each(a) \cup Each(b)
    <3>1. PICK k \in DOMAIN c : x = c[k]
      BY Zenon DEF Each
    <3>2. CASE k \in DOMAIN a
      BY <1>2, <3>1, <3>2, Zenon DEF Each
    <3>3. CASE k - Len(a) \in DOMAIN b /\ k = Len(a) + (k - Len(a))
      BY <1>2, <3>1, <3>3, Zenon DEF Each
    <3> QED
      BY <1>2, <3>2, <3>3, Zenon
  <2>2. ASSUME NEW x \in Each(a) PROVE x \in Each(c)
    BY <1>2, Zenon DEF Each
  <2>3. ASSUME NEW x \in Each(b) PROVE x \in Each(c)
    <3>1. PICK k \in DOMAIN b : x = b[k]
      BY Zenon DEF Each
    <3>2. Len(a) + k \in DOMAIN c /\ x = c[Len(a) + k]
      BY <1>2, <3>1, Zenon
    <3> QED
      BY <3>2, Zenon DEF Each
  <2> QED
    BY <2>1, <2>2, <2>3, Zenon
<1> QED
  BY <1>2, <1>3 DEF IsList, S, c

\* The ranges of the merged configuration are a list of ranges.
LEMMA RangesTyped ==
  ASSUME NEW json, NEW file, json # Bad, file # Bad, WellTyped(json), WellTyped(file)
  PROVE  LET n == Merged(json, file)
         IN  /\ IsList(IPRanges(n))
             /\ \A r \in Each(IPRanges(n)) :
                  /\ r = [range |-> r.range, start |-> r.start, end |-> r.end, exclude |-> r.exclude,
                          pick |-> r.pick, l3 |-> r.l3]
                  /\ IsList(Entries(r.exclude))
<1> DEFINE n == Merged(json, file)
           top == IF n["range"] = Zero THEN <<>> ELSE <<TopLevelRange(n)>>
           more == Entries(n["ipRanges"])
           Typed(r) == /\ r = [range |-> r.range, start |-> r.start, end |-> r.end, exclude |-> r.exclude,
                               pick |-> r.pick, l3 |-> r.l3]
                       /\ IsList(Entries(r.exclude))
<1>1. IsList(<<>>) /\ Each(<<>>) = {} /\ Entries(Zero) = <<>>
  BY DEF IsList, Each, Entries
<1>2. /\ n["ipRanges"] \in {json["ipRanges"], file["ipRanges"], Zero}
      /\ n["exclude"] \in {json["exclude"], file["exclude"], Zero}
  BY MergedField, Zenon DEF Fields, Scalars, Bools
<1> HIDE DEF n
<1>3. IsList(more) /\ \A r \in Each(more) : Typed(r)
  BY <1>1, <1>2, Zenon DEF WellTyped
<1>4. IsList(Entries(n["exclude"]))
  BY <1>1, <1>2, Zenon DEF WellTyped
<1>5. IsList(top) /\ \A r \in Each(top) : Typed(r)
  <2>1. TopLevelRange(n).exclude = n["exclude"] /\ Typed(TopLevelRange(n))
    BY <1>4 DEF TopLevelRange
  <2>2. ASSUME NEW x PROVE IsList(<<x>>) /\ Each(<<x>>) = {x}
    BY DEF IsList, Each
  <2> HIDE DEF Typed
  <2>3. CASE n["range"] = Zero
    BY <1>1, <2>3, Zenon
  <2>4. CASE n["range"] # Zero
    <3>1. top = <<TopLevelRange(n)>>
      BY <2>4, Zenon
    <3> HIDE DEF top
    <3>2. IsList(<<TopLevelRange(n)>>) /\ Each(<<TopLevelRange(n)>>) = {TopLevelRange(n)}
      BY <2>2, Zenon
    <3> QED
      BY <2>1, <3>1, <3>2, Zenon
  <2> QED
    BY <2>3, <2>4, Zenon
<1>6. IPRanges(n) = top \o more
  BY Zenon DEF IPRanges
<1> HIDE DEF top, more, Typed
<1>7. IsList(IPRanges(n)) /\ \A r \in Each(IPRanges(n)) : Typed(r)
  BY <1>3, <1>5, <1>6, ConcatList, Zenon
<1> QED
  BY <1>7, Zenon DEF n, Typed

\* The ranges of a configuration that loads; with exclude_gateway, each of them
\* excludes the gateway.
Prepared(conf) ==
  /\ IsList(conf.ranges)
  /\ conf.flags["exclude_gateway"] /\ conf.gateway # Zero =>
       \A r \in Each(conf.ranges) : \E k \in 1 .. Len(r.exclude) :
         r.exclude[k] = [first |-> conf.gateway, last |-> conf.gateway, plain |-> FALSE]

\* The loaded ranges are a list; with exclude_gateway each of them excludes it.
LEMMA LoadedRanges ==
  ASSUME NEW json, NEW file, NEW args, NEW version, WellTyped(json), WellTyped(file),
         LoadIPAMConfig(json, file, args, version) # Failed
  PROVE  Prepared(LoadIPAMConfig(json, file, args, version))
<1> DEFINE conf == LoadIPAMConfig(json, file, args, version)
           n == Merged(json, file)
           q == IPRanges(n)
           gateway == [first |-> n["gateway"], last |-> n["gateway"], plain |-> FALSE]
<1>1. json # Bad /\ file # Bad /\ conf = Loaded(n, args)
  BY Zenon DEF LoadIPAMConfig, Loads
<1>2. /\ conf.ranges = [k \in DOMAIN q |-> WithDefaults(n, Normalised(q[k]))]
      /\ conf.gateway = n["gateway"] /\ conf.flags["exclude_gateway"] = n["exclude_gateway"]
  BY <1>1 DEF Loaded, Bools
<1>3. /\ IsList(q)
      /\ \A r \in Each(q) :
           /\ r = [range |-> r.range, start |-> r.start, end |-> r.end, exclude |-> r.exclude,
                   pick |-> r.pick, l3 |-> r.l3]
           /\ IsList(Entries(r.exclude))
  BY <1>1, RangesTyped, Zenon
<1> HIDE DEF conf, n, q
<1>4. IsList(conf.ranges)
  <2>1. DOMAIN q = 1 .. Len(q) /\ Len(q) \in Nat
    BY <1>3 DEF IsList
  <2> QED
    BY <1>2, <2>1 DEF IsList, Each
<1>5. ASSUME conf.flags["exclude_gateway"], conf.gateway # Zero, NEW r \in Each(conf.ranges)
      PROVE  \E k \in 1 .. Len(r.exclude) : r.exclude[k] = gateway
  <2>1. PICK k \in DOMAIN q : r = WithDefaults(n, Normalised(q[k]))
    BY <1>2, Zenon DEF Each
  <2> DEFINE t == q[k]
             u == Normalised(t)
  <2>2. /\ t = [range |-> t.range, start |-> t.start, end |-> t.end, exclude |-> t.exclude,
                pick |-> t.pick, l3 |-> t.l3]
        /\ IsList(Entries(t.exclude))
    BY <1>3, Zenon DEF Each
  <2> HIDE DEF t
  <2>3. u.exclude = Entries(t.exclude) /\ "exclude" \in DOMAIN u /\ u = [f \in DOMAIN u |-> u[f]]
    BY <2>2, Zenon DEF Normalised
  <2> HIDE DEF u
  <2>4. r.exclude = Append(u.exclude, gateway)
    BY <1>2, <1>5, <2>1, <2>3, Zenon DEF WithDefaults, t, u
  <2>5. Len(r.exclude) \in 1 .. Len(r.exclude) /\ r.exclude[Len(r.exclude)] = gateway
    BY <2>2, <2>3, <2>4 DEF IsList
  <2> QED
    BY <2>5, Zenon
<1> QED
  BY <1>2, <1>4, <1>5, Zenon DEF conf, Prepared

\* What an ADD may get is apart from what its configuration keeps.
LEMMA AddApart ==
  ASSUME NEW conf, Prepared(conf), validateStaticAddresses(conf), NEW f \in Allocations(conf)
  PROVE  LET dynamic == {f[k] : k \in DOMAIN f}
         IN  /\ \A a \in Each(conf.addresses) : a.ip \notin dynamic
             /\ conf.flags["exclude_gateway"] => conf.gateway \notin dynamic
<1> DEFINE dynamic == {f[k] : k \in DOMAIN f}
<1>1. ASSUME NEW i \in dynamic
      PROVE  /\ i \in 0 .. MaxIP
             /\ \E r \in Each(conf.ranges) :
                  staticAddressInManagedRange(i, r) /\ ~Alloc(r.range)!ipExcluded(AllocateConf(r), i)
  <2>1. PICK k \in DOMAIN f : i = f[k]
    BY Zenon
  <2>2. PICK j \in DOMAIN conf.ranges : f[k] \in 0 .. MaxIP /\ f[k] \in Choices(conf, conf.ranges[j])
    BY Zenon DEF Allocations
  <2>3. /\ staticAddressInManagedRange(i, conf.ranges[j])
        /\ ~Alloc(conf.ranges[j].range)!ipExcluded(AllocateConf(conf.ranges[j]), i)
    BY <2>1, <2>2, ChoiceManaged, Zenon
  <2> QED
    BY <2>1, <2>2, <2>3, Zenon DEF Each
<1>2. ASSUME NEW a \in Each(conf.addresses) PROVE a.ip \notin dynamic
  BY <1>1, Zenon DEF validateStaticAddresses
<1>3. ASSUME conf.flags["exclude_gateway"], conf.gateway \in dynamic PROVE FALSE
  <2> DEFINE g == conf.gateway
  <2>1. g \in 0 .. MaxIP /\ g # Zero
    BY <1>1, <1>3, ZeroAssumption
  <2>2. PICK r \in Each(conf.ranges) : ~Alloc(r.range)!ipExcluded(AllocateConf(r), g)
    BY <1>1, <1>3, Zenon
  <2>3. PICK k \in 1 .. Len(r.exclude) : r.exclude[k] = [first |-> g, last |-> g, plain |-> FALSE]
    <3>1. \A u \in Each(conf.ranges) : \E k \in 1 .. Len(u.exclude) :
            u.exclude[k] = [first |-> g, last |-> g, plain |-> FALSE]
      BY <1>3, <2>1, Zenon DEF Prepared
    <3> QED
      BY <3>1, Zenon
  <2>4. AllocateConf(r).OmitRanges = r.exclude
    BY Zenon DEF AllocateConf
  <2>5. Alloc(r.range)!Contains(r.exclude[k], g)
    BY <2>1, <2>3 DEF Alloc!Contains
  <2> QED
    BY <2>2, <2>4, <2>5, Zenon DEF Alloc!ipExcluded
<1> QED
  BY <1>2, <1>3, Zenon

\* The booleans of a configuration that loads.
LEMMA Overrides ==
  ASSUME NEW json, NEW file, NEW args, NEW version, LoadIPAMConfig(json, file, args, version) # Failed,
         NEW f \in Bools
  PROVE  LET flag == LoadIPAMConfig(json, file, args, version).flags[f]
         IN  /\ json[f] # Absent => flag = json[f]
             /\ json[f] = Absent /\ file[f] # Absent => flag = file[f]
             /\ json[f] = Absent /\ file[f] = Absent => flag = DefaultBool(f)
<1> DEFINE conf == LoadIPAMConfig(json, file, args, version)
           empty == [g \in Fields |-> IF g \in Bools THEN FALSE ELSE Zero]
           other == IF file = NoFields THEN empty ELSE UnmarshalJSON(file)
           m == merge(UnmarshalJSON(json), other)
           n == Merged(json, file)
<1>1. conf = Loaded(n, args)
  BY Zenon DEF LoadIPAMConfig
<1>2. conf.flags[f] = n[f]
  <2>1. Loaded(n, args).flags = [g \in Bools |-> n[g]]
    BY DEF Loaded
  <2> QED
    BY <1>1, <2>1, Zenon
<1>3. n = applyIPAMBoolPrecedence(m, json, file)
  BY Zenon DEF Merged
<1>4. f \in Fields
  BY DEF Fields
<1>5. json[f] = Absent => UnmarshalJSON(json)[f] = DefaultBool(f)
  BY <1>4, Zenon DEF UnmarshalJSON
<1>6. file[f] = Absent => other[f] = FALSE \/ other[f] = DefaultBool(f)
  BY <1>4, Zenon DEF UnmarshalJSON
<1>7. m[f] = (UnmarshalJSON(json)[f] \/ other[f])
  BY <1>4, Zenon DEF merge
<1> HIDE DEF m, other, conf, n
<1>8. n[f] = IF json[f] # Absent THEN json[f] ELSE IF file[f] # Absent THEN file[f] ELSE m[f]
  BY <1>3, <1>4, Zenon DEF applyIPAMBoolPrecedence
<1>9. json[f] = Absent /\ file[f] = Absent => m[f] = DefaultBool(f)
  BY <1>5, <1>6, <1>7, Zenon DEF DefaultBool
<1> QED
  BY <1>2, <1>8, <1>9, Zenon DEF conf

-----------------------------------------------------------------------------
(* What CHECK expects of a sandbox that is as ADD left it.                 *)

\* The gateways of ADD and CHECK, written separately, agree.
LEMMA SameGateway ==
  ASSUME NEW ip, NEW gateway
  PROVE  gatewayForExpectedAllocation(ip, gateway) = gatewayForAddress(ip, gateway)
BY Zenon DEF gatewayForExpectedAllocation, gatewayForAddress

\* Every range has an entry, and all together are the result of ADD.
LEMMA IntactExpected ==
  ASSUME NEW s, NEW x, NEW f \in [DOMAIN x.conf.ranges -> 0 .. MaxIP], Intact(s, x, f)
  PROVE  /\ \A k \in DOMAIN x.conf.ranges :
              LET id == PoolIdentifier(x.conf, x.conf.ranges[k]) IN id \in DOMAIN pools /\ Own(s, id) # {}
         /\ \A k : (\A j \in DOMAIN x.conf.ranges : j < k) =>
              Expected(s, x.conf, k) \cup StaticResult(x.conf) = x.result
<1> DEFINE conf == x.conf
           id(k) == PoolIdentifier(conf, conf.ranges[k])
           key(k) == Key(f[k], conf.ranges[k].range, gatewayForAddress(f[k], conf.gateway))
           D == DOMAIN conf.ranges
<1>1. \A k \in D : id(k) \in DOMAIN pools /\ Own(s, id(k)) = Granted(s, conf, f, id(k))
  BY Zenon DEF Intact
<1>2. \A k \in D : [ip |-> f[k], id |-> s] \in Own(s, id(k))
  BY <1>1, Zenon DEF Granted
<1>3. x.result = {key(k) : k \in D} \cup StaticResult(conf)
  BY Zenon DEF Intact, Result
<1>4. ASSUME NEW k \in D, NEW e \in Own(s, id(k))
      PROVE  \E j \in D : id(j) = id(k) /\ e = [ip |-> f[j], id |-> s]
  BY <1>1, <1>4, Zenon DEF Granted
<1>5. \A k \in D : id(k).net = conf.ranges[k].range
  BY DEF PoolIdentifier
<1>6. ASSUME NEW k \in D, NEW e \in Own(s, id(k))
      PROVE  \E j \in D : Key(e.ip, id(k).net, gatewayForExpectedAllocation(e.ip, conf.gateway)) = key(j)
  <2>1. PICK j \in D : id(j) = id(k) /\ e = [ip |-> f[j], id |-> s]
    BY <1>4, Zenon
  <2>2. e.ip = f[j] /\ id(k).net = conf.ranges[j].range
    BY <1>5, <2>1, Zenon
  <2> QED
    BY <2>2, SameGateway, Zenon
<1>7. ASSUME NEW k \in D PROVE key(k) \in KeysOf(s, conf, k)
  <2> DEFINE e == [ip |-> f[k], id |-> s]
  <2>1. e \in Own(s, id(k)) /\ e.ip = f[k]
    BY <1>2
  <2>2. key(k) = Key(e.ip, id(k).net, gatewayForExpectedAllocation(e.ip, conf.gateway))
    BY <1>5, <2>1, SameGateway, Zenon
  <2> HIDE DEF e
  <2> QED
    BY <2>1, <2>2, Zenon DEF KeysOf
<1>8. ASSUME NEW k \in D PROVE KeysOf(s, conf, k) \subseteq {key(j) : j \in D}
  BY <1>6, Zenon DEF KeysOf
<1> HIDE DEF key, id
<1>9. ASSUME NEW k, \A j \in D : j < k PROVE Expected(s, conf, k) = {key(j) : j \in D}
  <2>1. Expected(s, conf, k) = UNION {KeysOf(s, conf, j) : j \in D}
    BY <1>9, Zenon DEF Expected
  <2>2. ASSUME NEW y \in UNION {KeysOf(s, conf, j) : j \in D} PROVE y \in {key(j) : j \in D}
    BY <1>8, Zenon
  <2>3. ASSUME NEW y \in {key(j) : j \in D} PROVE y \in UNION {KeysOf(s, conf, j) : j \in D}
    BY <1>7, Zenon
  <2> QED
    BY <2>1, <2>2, <2>3, Zenon
<1> QED
  BY <1>1, <1>2, <1>3, <1>9, Zenon DEF id

-----------------------------------------------------------------------------
(* What a step does to the entries of a sandbox.                           *)

\* An ADD of t adds to every pool what t is granted there.
LEMMA AddEntries ==
  ASSUME NEW t, NEW conf, NEW f \in [DOMAIN conf.ranges -> 0 .. MaxIP], pools' = WithEntries(conf, f, t)
  PROVE  /\ DOMAIN pools \subseteq DOMAIN pools' /\ pools' = [id \in DOMAIN pools' |-> pools'[id]]
         /\ \A k \in DOMAIN conf.ranges : PoolIdentifier(conf, conf.ranges[k]) \in DOMAIN pools'
         /\ \A id : Pool(id)' = Pool(id) \cup Granted(t, conf, f, id)
<1> DEFINE D == DOMAIN pools \cup {PoolIdentifier(conf, r) : r \in Each(conf.ranges)}
<1>1. pools' = [id \in D |-> Pool(id) \cup Granted(t, conf, f, id)]
  BY Zenon DEF WithEntries, Granted
<1>2. ASSUME NEW k \in DOMAIN conf.ranges PROVE PoolIdentifier(conf, conf.ranges[k]) \in D
  BY Zenon DEF Each
<1>3. DOMAIN pools \subseteq D
  BY Zenon
<1> HIDE DEF D
<1>4. DOMAIN pools' = D /\ pools' = [id \in DOMAIN pools' |-> pools'[id]]
  BY <1>1, Zenon
<1>5. ASSUME NEW id PROVE Pool(id)' = Pool(id) \cup Granted(t, conf, f, id)
  <2>1. CASE id \in D
    BY <1>1, <1>4, <2>1, Zenon DEF Pool
  <2>2. CASE id \notin D
    <3>1. Granted(t, conf, f, id) = {}
      BY <1>2, <2>2, Zenon DEF Granted
    <3> QED
      BY <1>3, <1>4, <2>2, <3>1, Zenon DEF Pool
  <2> QED
    BY <2>1, <2>2
<1> QED
  BY <1>2, <1>3, <1>4, <1>5, Zenon

\* It leaves the entries of the others alone.
LEMMA AddOwn ==
  ASSUME NEW t, NEW conf, NEW f \in [DOMAIN conf.ranges -> 0 .. MaxIP], pools' = WithEntries(conf, f, t)
  PROVE  /\ \A s : s # t => \A id : Own(s, id)' = Own(s, id)
         /\ \A id : Own(t, id) = {} => Own(t, id)' = Granted(t, conf, f, id)
<1>1. ASSUME NEW id PROVE \A e \in Granted(t, conf, f, id) : e.id = t
  BY DEF Granted
<1>2. ASSUME NEW id PROVE Pool(id)' = Pool(id) \cup Granted(t, conf, f, id)
  BY AddEntries, Zenon
<1>3. ASSUME NEW s, s # t, NEW id PROVE Own(s, id)' = Own(s, id)
  BY <1>1, <1>2, <1>3, Zenon DEF Own
<1>4. ASSUME NEW id, Own(t, id) = {} PROVE Own(t, id)' = Granted(t, conf, f, id)
  BY <1>1, <1>2, <1>4, Zenon DEF Own
<1> QED
  BY <1>3, <1>4, Zenon

\* So do a DEL of t and the loss of an entry of t.
LEMMA RemoveOwn ==
  ASSUME NEW t, DOMAIN pools' = DOMAIN pools,
         \A id \in DOMAIN pools : pools'[id] \subseteq pools[id] /\ pools[id] \ Own(t, id) \subseteq pools'[id]
  PROVE  /\ \A s : s # t => \A id : Own(s, id)' = Own(s, id)
         /\ \A id : Own(t, id)' \subseteq Own(t, id)
<1>1. ASSUME NEW id PROVE Pool(id)' \subseteq Pool(id) /\ Pool(id) \ Own(t, id) \subseteq Pool(id)'
  BY Zenon DEF Pool
<1>2. ASSUME NEW s, s # t, NEW id PROVE Own(s, id)' = Own(s, id)
  BY <1>1, <1>2, Zenon DEF Own
<1>3. ASSUME NEW id PROVE Own(t, id)' \subseteq Own(t, id)
  BY <1>1, Zenon DEF Own
<1> QED
  BY <1>2, <1>3, Zenon

\* A sandbox whose record and entries stay keeps its invariant.
LEMMA SandboxFrame ==
  ASSUME NEW s, SandboxInv(s), sandbox'[s] = sandbox[s], UNCHANGED <<raw, flat>>,
         \A id : Own(s, id)' = Own(s, id), DOMAIN pools \subseteq DOMAIN pools'
  PROVE  SandboxInv(s)'
<1> DEFINE x == sandbox[s]
<1>1. ASSUME x.state = "new" PROVE \A id \in DOMAIN pools' : Own(s, id)' = {}
  <2>1. \A id : id \notin DOMAIN pools => Own(s, id) = {}
    BY Zenon DEF Own, Pool
  <2> QED
    BY <1>1, <2>1, Zenon DEF SandboxInv
<1>2. ConfigOf(s)' = ConfigOf(s)
  BY Zenon DEF ConfigOf
<1>3. ASSUME NEW f, Intact(s, x, f) PROVE Intact(s, x, f)'
  BY <1>3, Zenon DEF Intact
<1> QED
  BY <1>1, <1>2, <1>3, Zenon DEF SandboxInv

\* A CHECK goes on unharmed while its sandbox keeps what ADD returned and gets
\* no entries, if it is still to be exact only when nothing has changed.
LEMMA CheckFrame ==
  ASSUME CheckInv, check' = check,
         LET x == sandbox[check.s] y == sandbox'[check.s]
         IN  /\ y.state = x.state /\ y.result = x.result /\ y.dynamic = x.dynamic /\ y.conf = x.conf
             /\ y.same => x.same /\ \A id : Own(check.s, id)' = Own(check.s, id),
         \A id : Own(check.s, id)' \subseteq Own(check.s, id)
  PROVE  CheckInv'
<1> DEFINE s == check.s
           x == sandbox[s]
           y == sandbox'[s]
<1>1. ASSUME NEW i \in check.lost, NEW id \in DOMAIN pools' PROVE [ip |-> i, id |-> s] \notin pools'[id]
  <2> DEFINE e == [ip |-> i, id |-> s]
  <2>1. e.id = s
    OBVIOUS
  <2>2. id \in DOMAIN pools => e \notin pools[id]
    BY Zenon DEF CheckInv
  <2> HIDE DEF e
  <2>3. e \notin Own(s, id)
    BY <2>2, Zenon DEF Own, Pool
  <2>4. e \notin Own(s, id)'
    BY <2>3, Zenon
  <2> QED
    BY <2>1, <2>4, ZenonT(60) DEF Own, Pool, e
<1>2. ASSUME y.same PROVE Expected(s, check.conf, check.k)' = Expected(s, check.conf, check.k)
  <2>1. ASSUME NEW j PROVE KeysOf(s, check.conf, j)' = KeysOf(s, check.conf, j)
    BY <1>2, Zenon DEF KeysOf
  <2>2. ASSUME NEW z
        PROVE  z \in Expected(s, check.conf, check.k)' <=> z \in Expected(s, check.conf, check.k)
    BY <2>1, Zenon DEF Expected
  <2> QED
    BY <2>2, Zenon
<1>3. ASSUME check.pc = "ranges", y.same
      PROVE  check.conf = y.conf /\ check.expected = Expected(s, check.conf, check.k)'
  BY <1>2, <1>3, Zenon DEF CheckInv
<1> QED
  BY <1>1, <1>3, Zenon DEF CheckInv

-----------------------------------------------------------------------------
(* The steps.                                                              *)

\* The sandboxes other than t, and a CHECK of one of them, in a step of t.
LEMMA OthersKept ==
  ASSUME PInv, NEW t, UNCHANGED <<raw, flat, check>>, DOMAIN pools \subseteq DOMAIN pools',
         \A s \in Sandboxes \ {t} : sandbox'[s] = sandbox[s] /\ \A id : Own(s, id)' = Own(s, id)
  PROVE  /\ \A s \in Sandboxes \ {t} : SandboxInv(s)'
         /\ check.pc # "idle" /\ check.s # t => CheckInv'
<1>1. ASSUME NEW s \in Sandboxes \ {t} PROVE SandboxInv(s)'
  BY SandboxFrame, Zenon DEF PInv
<1>2. ASSUME check.pc # "idle", check.s # t PROVE CheckInv'
  <2>1. CheckInv /\ check.s \in Sandboxes \ {t}
    BY <1>2, Zenon DEF PInv, CheckInv
  <2>2. sandbox'[check.s] = sandbox[check.s] /\ \A id : Own(check.s, id)' = Own(check.s, id)
    BY <2>1, Zenon
  <2> QED
    BY <2>1, <2>2, CheckFrame, Zenon
<1> QED
  BY <1>1, <1>2, Zenon

\* An ADD that fails only gives the sandbox up.
LEMMA GiveUp ==
  ASSUME NEW t \in Sandboxes, SandboxInv(t), sandbox' = [sandbox EXCEPT ![t].state = "gone"],
         sandbox = [s \in Sandboxes |-> sandbox[s]]
  PROVE  /\ SandboxInv(t)' /\ \A s \in Sandboxes \ {t} : sandbox'[s] = sandbox[s]
         /\ sandbox' = [s \in Sandboxes |-> sandbox'[s]]
<1> DEFINE x == sandbox[t]
           y == [x EXCEPT !.state = "gone"]
<1>1. sandbox' = [s \in Sandboxes |-> IF s = t THEN y ELSE sandbox[s]]
  BY Zenon
<1>2. SandboxOK(x)
  BY Zenon DEF SandboxInv
<1> HIDE DEF x
<1>3. SandboxOK(y) /\ y.state = "gone"
  BY <1>2 DEF SandboxOK, Added
<1> HIDE DEF y
<1> QED
  BY <1>1, <1>3, Zenon DEF SandboxInv

\* What occurs is well typed.
LEMMA TypedEnv ==
  ASSUME PInv
  PROVE  Env.sandboxes \subseteq Sandboxes /\ WellTyped(raw) /\ WellTyped(getFlatIPAM(flat))
BY ConfigurationAssumption, Zenon DEF PInv, Env

\* A step that leaves the pools alone and gives t up.
LEMMA GoneInv ==
  ASSUME PInv, NEW t \in Sandboxes, sandbox' = [sandbox EXCEPT ![t].state = "gone"],
         UNCHANGED <<env, raw, flat, pools, check>>, check.pc # "idle" => check.s # t
  PROVE  PInv'
<1>1. /\ SandboxInv(t)' /\ sandbox' = [s \in Sandboxes |-> sandbox'[s]]
      /\ \A s \in Sandboxes \ {t} : sandbox'[s] = sandbox[s]
  BY GiveUp, Zenon DEF PInv
<1>2. \A s, id : Own(s, id)' = Own(s, id)
  BY Zenon DEF Own, Pool
<1>3. /\ \A s \in Sandboxes \ {t} : SandboxInv(s)'
      /\ check.pc # "idle" /\ check.s # t => CheckInv'
  BY <1>1, <1>2, OthersKept, Zenon
<1> QED
  BY <1>1, <1>3, ZenonT(60) DEF PInv, Env

\* A step that gives t what f says and enters it into the pools.
LEMMA UpInv ==
  ASSUME PInv, NEW t \in Sandboxes, NEW args, NEW version, sandbox[t].state = "new",
         NEW conf, conf = LoadIPAMConfig(raw, getFlatIPAM(flat), args, version), conf # Failed,
         validateStaticAddresses(conf), NEW f \in Allocations(conf),
         sandbox' = [sandbox EXCEPT ![t] =
           [state |-> "up", args |-> args, version |-> version, result |-> Result(conf, f),
            dynamic |-> {f[k] : k \in DOMAIN f}, conf |-> conf, same |-> TRUE]],
         pools' = WithEntries(conf, f, t), UNCHANGED <<env, raw, flat, check>>
  PROVE  PInv'
<1>0. PICK x : x = [state |-> "up", args |-> args, version |-> version, result |-> Result(conf, f),
                    dynamic |-> {f[k] : k \in DOMAIN f}, conf |-> conf, same |-> TRUE]
  BY Zenon
<1>1. f \in [DOMAIN conf.ranges -> 0 .. MaxIP]
  BY ZenonT(60) DEF Allocations
<1>2. /\ x.state = "up" /\ x.args = args /\ x.version = version /\ x.result = Result(conf, f)
      /\ x.dynamic = {f[k] : k \in DOMAIN f} /\ x.conf = conf /\ x.same = TRUE /\ Added(x)
  BY <1>0 DEF Added
<1>3. sandbox' = [s \in Sandboxes |-> IF s = t THEN x ELSE sandbox[s]]
  BY <1>0, Zenon DEF PInv
<1>4. \A s \in Sandboxes \ {t} : sandbox'[s] = sandbox[s] /\ \A id : Own(s, id)' = Own(s, id)
  BY <1>1, <1>3, AddOwn, Zenon
<1>5. /\ DOMAIN pools \subseteq DOMAIN pools' /\ pools' = [id \in DOMAIN pools' |-> pools'[id]]
      /\ \A k \in DOMAIN conf.ranges : PoolIdentifier(conf, conf.ranges[k]) \in DOMAIN pools'
      /\ \A id : Pool(id)' = Pool(id) \cup Granted(t, conf, f, id)
  BY <1>1, AddEntries, Zenon
<1>6. \A id : Own(t, id) = {}
  BY Zenon DEF PInv, SandboxInv, Own, Pool
<1>7. \A id : Own(t, id)' = Granted(t, conf, f, id)
  BY <1>1, <1>6, AddOwn, Zenon
<1>8. sandbox'[t] = x
  BY <1>3, Zenon
<1>9. Intact(t, x, f)'
  BY <1>2, <1>5, <1>7, Zenon DEF Intact, PoolIdentifier
<1>10. KeptApart(x)
  <2>1. Prepared(conf)
    BY TypedEnv, LoadedRanges, Zenon
  <2>2. /\ \A a \in Each(conf.addresses) : a.ip \notin {f[k] : k \in DOMAIN f}
        /\ conf.flags["exclude_gateway"] => conf.gateway \notin {f[k] : k \in DOMAIN f}
    BY <2>1, AddApart, Zenon
  <2> QED
    BY <1>2, <2>2, Zenon DEF KeptApart
<1>11. ASSUME NEW i \in x.dynamic PROVE \E key \in x.result : key.ip = i
  <2>1. PICK k \in DOMAIN f : i = f[k]
    BY <1>2, Zenon
  <2> DEFINE key == Key(f[k], conf.ranges[k].range, gatewayForAddress(f[k], conf.gateway))
  <2>2. key.ip = i
    BY <2>1, Zenon DEF Key
  <2>3. key \in x.result
    BY <1>2, Zenon DEF Result
  <2> QED
    BY <2>2, <2>3, Zenon
<1>12. ConfigOf(t)' = conf
  BY <1>2, <1>8, Zenon DEF ConfigOf
<1>13. SandboxInv(t)'
  <2>1. SandboxOK(x)
    BY <1>2, Zenon DEF SandboxOK
  <2> QED
    BY <1>1, <1>2, <1>8, <1>9, <1>10, <1>11, <1>12, <2>1, ZenonT(60) DEF SandboxInv
<1>14. /\ \A s \in Sandboxes \ {t} : SandboxInv(s)'
       /\ check.pc # "idle" /\ check.s # t => CheckInv'
  BY <1>4, <1>5, OthersKept, Zenon
<1>15. check.pc # "idle" => check.s # t
  BY Zenon DEF PInv, CheckInv
<1>16. ASSUME NEW id \in DOMAIN pools', NEW e \in pools'[id] PROVE e = [ip |-> e.ip, id |-> e.id]
  <2>1. e \in Pool(id) \/ e \in Granted(t, conf, f, id)
    BY <1>5, Zenon DEF Pool
  <2>2. CASE e \in Pool(id)
    BY <2>2, Zenon DEF Pool, PInv
  <2>3. CASE e \in Granted(t, conf, f, id)
    BY <2>3 DEF Granted
  <2> QED
    BY <2>1, <2>2, <2>3
<1>17. sandbox' = [s \in Sandboxes |-> sandbox'[s]]
  BY <1>3, Zenon
<1>18. \A s \in Sandboxes : SandboxInv(s)'
  BY <1>13, <1>14, Zenon
<1> QED
  BY <1>5, <1>14, <1>15, <1>16, <1>17, <1>18, Zenon DEF PInv, Env

LEMMA cmdAddInv ==
  ASSUME PInv, NEW t \in Sandboxes, NEW args, NEW version, cmdAdd(t, args, version), UNCHANGED env
  PROVE  PInv'
<1> DEFINE conf == LoadIPAMConfig(raw, getFlatIPAM(flat), args, version)
           Up(f) == /\ sandbox' = [sandbox EXCEPT ![t] =
                         [state |-> "up", args |-> args, version |-> version, result |-> Result(conf, f),
                          dynamic |-> {f[k] : k \in DOMAIN f}, conf |-> conf, same |-> TRUE]]
                    /\ pools' = WithEntries(conf, f, t)
           Gone == sandbox' = [sandbox EXCEPT ![t].state = "gone"] /\ pools' = pools
<1>1. sandbox[t].state = "new" /\ UNCHANGED <<env, raw, flat, check>>
  BY Zenon DEF cmdAdd
<1>2. Gone \/ (conf # Failed /\ validateStaticAddresses(conf) /\ \E f \in Allocations(conf) : Up(f))
  BY Zenon DEF cmdAdd
<1>3. check.pc # "idle" => check.s # t
  BY <1>1, Zenon DEF PInv, CheckInv
<1>4. CASE Gone
  BY <1>1, <1>3, <1>4, GoneInv, Zenon
<1>5. ASSUME conf # Failed, validateStaticAddresses(conf), NEW f \in Allocations(conf), Up(f)
      PROVE  PInv'
  BY <1>1, <1>5, UpInv, Zenon
<1> HIDE DEF conf, Up
<1> QED
  BY <1>2, <1>4, <1>5, Zenon

\* The ranges of a sandbox that is as ADD left it.
LEMMA SamePrepared ==
  ASSUME PInv, NEW s \in Sandboxes, sandbox[s].state = "up", sandbox[s].same
  PROVE  Prepared(sandbox[s].conf)
<1> DEFINE conf == LoadIPAMConfig(raw, getFlatIPAM(flat), sandbox[s].args, sandbox[s].version)
<1>1. sandbox[s].conf = conf /\ conf # Failed
  BY Zenon DEF PInv, SandboxInv, ConfigOf
<1>2. Prepared(conf)
  BY <1>1, TypedEnv, LoadedRanges, Zenon
<1> QED
  BY <1>1, <1>2

\* A step that touches nothing but the CHECK.
LEMMA CheckStep ==
  ASSUME PInv, UNCHANGED <<env, raw, flat, pools, sandbox>>, check'.pc # "idle" => CheckInv'
  PROVE  PInv'
<1>1. ASSUME NEW s \in Sandboxes PROVE SandboxInv(s)'
  <2>1. \A id : Own(s, id)' = Own(s, id)
    BY Zenon DEF Own, Pool
  <2> QED
    BY <2>1, SandboxFrame, Zenon DEF PInv
<1> QED
  BY <1>1, Zenon DEF PInv, Env

LEMMA StartCheckInv ==
  ASSUME PInv, NEW t \in Sandboxes, NEW given \in BOOLEAN, StartCheck(t, given), UNCHANGED env
  PROVE  PInv'
<1> DEFINE x == sandbox[t]
<1>1. PICK c : c = [pc |-> IF ConfigOf(t) = Failed THEN "failed" ELSE "ranges", s |-> t, k |-> 1,
                    expected |-> {}, prev |-> ParsePrevResult(t, given), conf |-> ConfigOf(t),
                    lost |-> Lost(t)]
  BY Zenon
<1>2. x.state = "up" /\ check' = c /\ UNCHANGED <<env, raw, flat, pools, sandbox>>
  BY <1>1, Zenon DEF StartCheck
<1>3. /\ c.pc = (IF ConfigOf(t) = Failed THEN "failed" ELSE "ranges") /\ c.s = t /\ c.k = 1
      /\ c.expected = {} /\ c.prev = ParsePrevResult(t, given) /\ c.conf = ConfigOf(t) /\ c.lost = Lost(t)
      /\ c = [pc |-> c.pc, s |-> c.s, k |-> c.k, expected |-> c.expected, prev |-> c.prev,
              conf |-> c.conf, lost |-> c.lost]
  BY <1>1
<1>0. PICK conf : conf = x.conf
  BY Zenon
<1>4. x.same => conf = ConfigOf(t) /\ conf # Failed
  BY <1>0, <1>2, Zenon DEF PInv, SandboxInv
<1>5. ASSUME x.same PROVE Expected(t, conf, 1) = {}
  <2>1. IsList(conf.ranges)
    BY <1>0, <1>2, <1>5, SamePrepared, Zenon DEF Prepared
  <2>2. \A i \in DOMAIN conf.ranges : ~(i < 1)
    BY <2>1 DEF IsList
  <2> QED
    BY <2>2, Zenon DEF Expected
<1>6. ASSUME x.same PROVE Expected(t, conf, 1)' = {}
  <2>1. \A j : KeysOf(t, conf, j)' = KeysOf(t, conf, j)
    BY <1>2, Zenon DEF KeysOf, Own, Pool, PoolIdentifier
  <2>2. \A z : z \in Expected(t, conf, 1)' <=> z \in Expected(t, conf, 1)
    BY <1>2, <2>1, Zenon DEF Expected
  <2> QED
    BY <1>5, <1>6, <2>2, Zenon
<1>7. c.prev \in {Absent, x.result}
  BY <1>3, Zenon DEF ParsePrevResult
<1>8. /\ Lost(t) \subseteq x.dynamic
      /\ \A i \in Lost(t) : \A id \in DOMAIN pools : [ip |-> i, id |-> t] \notin pools[id]
  BY Zenon DEF Lost
<1>9. 1 \in Nat \ {0} /\ "failed" # "ranges" /\ "passed" # "ranges" /\ "passed" # "failed"
  OBVIOUS
<1>10. c.pc = "ranges" /\ x.same => c.conf = x.conf /\ c.expected = Expected(c.s, c.conf, c.k)'
  BY <1>0, <1>3, <1>4, <1>6, Zenon
<1>11. c.pc = "failed" => ~x.same
  BY <1>3, <1>4, <1>9, Zenon
<1>12. c.pc # "passed" /\ c.k \in Nat \ {0} /\ \A key \in c.expected : key.ip \notin c.lost
  BY <1>3, <1>9
<1>13. /\ c.lost \subseteq x.dynamic
       /\ \A i \in c.lost : \A id \in DOMAIN pools : [ip |-> i, id |-> c.s] \notin pools[id]
  BY <1>3, <1>8, Zenon
<1>14. CheckInv'
  BY <1>2, <1>3, <1>7, <1>10, <1>11, <1>12, <1>13, Zenon DEF CheckInv
<1> QED
  BY <1>2, <1>14, CheckStep, Zenon

\* The step from one range to the next.
LEMMA ExpectedNext ==
  ASSUME NEW s, NEW conf, IsList(conf.ranges), NEW k \in 1 .. Len(conf.ranges)
  PROVE  Expected(s, conf, k + 1) = Expected(s, conf, k) \cup KeysOf(s, conf, k)
<1> DEFINE D == DOMAIN conf.ranges
<1>1. k \in D /\ \A i \in D : i < k + 1 <=> i < k \/ i = k
  BY DEF IsList
<1>2. ASSUME NEW z
      PROVE  z \in Expected(s, conf, k + 1) <=> z \in Expected(s, conf, k) \cup KeysOf(s, conf, k)
  BY <1>1, Zenon DEF Expected
<1> QED
  BY <1>2, Zenon

\* The other parts of CheckInv when only pc, k and expected change.
LEMMA CheckGoesOn ==
  ASSUME PInv, check.pc = "ranges", UNCHANGED <<raw, flat, pools, sandbox>>, NEW c, check' = c,
         c = [pc |-> c.pc, s |-> check.s, k |-> c.k, expected |-> c.expected, prev |-> check.prev,
              conf |-> check.conf, lost |-> check.lost],
         c.k \in Nat \ {0}, \A key \in c.expected : key.ip \notin check.lost,
         sandbox[check.s].same => c.pc # "failed",
         c.pc = "ranges" /\ sandbox[check.s].same =>
           c.expected = Expected(check.s, check.conf, c.k),
         c.pc = "passed" /\ check.prev # Absent => check.prev = c.expected \cup StaticResult(check.conf)
  PROVE  CheckInv'
<1>1. /\ c.s = check.s /\ c.prev = check.prev /\ c.conf = check.conf /\ c.lost = check.lost
      /\ c = [pc |-> c.pc, s |-> c.s, k |-> c.k, expected |-> c.expected, prev |-> c.prev,
              conf |-> c.conf, lost |-> c.lost]
  OBVIOUS
<1>2. CheckInv
  BY Zenon DEF PInv
<1>3. \A j : KeysOf(c.s, c.conf, j)' = KeysOf(c.s, c.conf, j)
  BY Zenon DEF KeysOf, Own, Pool, PoolIdentifier
<1>4. \A z : z \in Expected(c.s, c.conf, c.k)' <=> z \in Expected(c.s, c.conf, c.k)
  BY <1>3, Zenon DEF Expected
<1>5. Expected(c.s, c.conf, c.k)' = Expected(c.s, c.conf, c.k)
  BY <1>4, Zenon
<1> QED
  BY <1>1, <1>2, <1>5, Zenon DEF CheckInv

LEMMA CheckRangeInv ==
  ASSUME PInv, CheckRange, UNCHANGED env
  PROVE  PInv'
<1> DEFINE s == check.s
           x == sandbox[s]
           conf == check.conf
           k == check.k
           id == PoolIdentifier(conf, conf.ranges[k])
           missing == id \notin DOMAIN pools \/ Own(s, id) = {}
<1>1. CheckInv /\ check.pc = "ranges" /\ k =< Len(conf.ranges) /\ UNCHANGED <<env, raw, flat, pools, sandbox>>
  BY Zenon DEF PInv, CheckRange
<1>2. check' = IF missing THEN [check EXCEPT !.pc = "failed"]
               ELSE [check EXCEPT !.k = @ + 1, !.expected = @ \cup KeysOf(s, conf, k)]
  BY Zenon DEF CheckRange, KeysOf
<1>3. /\ check = [pc |-> check.pc, s |-> s, k |-> k, expected |-> check.expected,
                  prev |-> check.prev, conf |-> conf, lost |-> check.lost]
      /\ s \in Sandboxes /\ x.state = "up" /\ k \in Nat \ {0}
      /\ \A key \in check.expected : key.ip \notin check.lost
      /\ x.same => conf = x.conf /\ check.expected = Expected(s, conf, k)
  BY <1>1, Zenon DEF CheckInv
<1>4. ASSUME x.same PROVE IsList(conf.ranges) /\ ~missing
  <2>1. IsList(conf.ranges)
    BY <1>3, <1>4, SamePrepared, Zenon DEF Prepared
  <2>2. k \in DOMAIN conf.ranges
    BY <1>1, <1>3, <2>1 DEF IsList
  <2>3. PICK f \in [DOMAIN x.conf.ranges -> 0 .. MaxIP] : Intact(s, x, f)
    BY <1>3, <1>4, ZenonT(60) DEF PInv, SandboxInv
  <2>4. \A j \in DOMAIN x.conf.ranges :
          /\ PoolIdentifier(x.conf, x.conf.ranges[j]) \in DOMAIN pools
          /\ Own(s, PoolIdentifier(x.conf, x.conf.ranges[j])) # {}
    BY <2>3, IntactExpected
  <2> QED
    BY <1>3, <1>4, <2>1, <2>2, <2>4, Zenon
<1>5. ASSUME NEW key \in KeysOf(s, conf, k) PROVE key.ip \notin check.lost
  <2>1. PICK e \in Own(s, id) :
          key = Key(e.ip, id.net, gatewayForExpectedAllocation(e.ip, conf.gateway))
    BY Zenon DEF KeysOf
  <2>2. id \in DOMAIN pools /\ e \in pools[id] /\ e.id = s
    BY Zenon DEF Own, Pool
  <2>3. e = [ip |-> e.ip, id |-> s]
    BY <2>2, Zenon DEF PInv
  <2>4. key.ip = e.ip
    BY <2>1 DEF Key
  <2> QED
    BY <1>1, <2>2, <2>3, <2>4, Zenon DEF CheckInv
<1> HIDE DEF missing
<1>6. CASE missing
  <2>1. PICK c : c = [check EXCEPT !.pc = "failed"]
    BY Zenon
  <2>2. /\ c = [pc |-> c.pc, s |-> s, k |-> c.k, expected |-> c.expected, prev |-> check.prev,
                conf |-> conf, lost |-> check.lost]
        /\ c.pc = "failed" /\ c.k = k /\ c.expected = check.expected
    BY <1>3, <2>1, Zenon
  <2>3. check' = c /\ c.pc # "ranges" /\ c.pc # "passed" /\ ~x.same
    BY <1>2, <1>4, <1>6, <2>1, <2>2, Zenon
  <2>4. CheckInv'
    BY <1>1, <1>3, <2>2, <2>3, CheckGoesOn, Zenon
  <2> QED
    BY <1>1, <2>4, CheckStep, Zenon
<1>7. CASE ~missing
  <2>1. PICK c : c = [check EXCEPT !.k = @ + 1, !.expected = @ \cup KeysOf(s, conf, k)]
    BY Zenon
  <2>2. /\ c = [pc |-> c.pc, s |-> s, k |-> c.k, expected |-> c.expected, prev |-> check.prev,
                conf |-> conf, lost |-> check.lost]
        /\ c.pc = check.pc /\ c.k = k + 1 /\ c.expected = check.expected \cup KeysOf(s, conf, k)
    BY <1>3, <2>1, Zenon
  <2>3. check' = c /\ c.pc # "failed" /\ c.pc # "passed" /\ c.k \in Nat \ {0}
    <3>1. k + 1 \in Nat \ {0}
      BY <1>3
    <3>2. "ranges" # "failed" /\ "ranges" # "passed"
      OBVIOUS
    <3> QED
      BY <1>1, <1>2, <1>7, <2>1, <2>2, <3>1, <3>2, Zenon
  <2>4. ASSUME x.same PROVE c.expected = Expected(s, conf, c.k)
    <3>1. k \in 1 .. Len(conf.ranges)
      <4>1. conf.ranges \in Seq(Each(conf.ranges)) /\ k \in Nat \ {0} /\ k =< Len(conf.ranges)
        BY <1>1, <1>3, <1>4, <2>4, Zenon DEF IsList
      <4> HIDE DEF k, conf
      <4> QED
        BY <4>1
    <3>2. Expected(s, conf, k + 1) = Expected(s, conf, k) \cup KeysOf(s, conf, k)
      BY <1>4, <2>4, <3>1, ExpectedNext, Zenon
    <3> QED
      BY <1>3, <2>2, <2>4, <3>2, Zenon
  <2>5. \A key \in c.expected : key.ip \notin check.lost
    BY <1>3, <1>5, <2>2, Zenon
  <2>6. CheckInv'
    BY <1>1, <2>2, <2>3, <2>4, <2>5, CheckGoesOn, Zenon
  <2> QED
    BY <1>1, <2>6, CheckStep, Zenon
<1> QED
  BY <1>6, <1>7

LEMMA CheckUnreadInv ==
  ASSUME PInv, CheckUnread, UNCHANGED env
  PROVE  PInv'
<1>1. CheckInv /\ check.pc = "ranges" /\ UNCHANGED <<env, raw, flat, pools, sandbox>>
  BY Zenon DEF PInv, CheckUnread
<1>2. PICK c : c = [check EXCEPT !.pc = "unread"]
  BY Zenon
<1>3. /\ check = [pc |-> check.pc, s |-> check.s, k |-> check.k, expected |-> check.expected,
                  prev |-> check.prev, conf |-> check.conf, lost |-> check.lost]
      /\ check.k \in Nat \ {0} /\ \A key \in check.expected : key.ip \notin check.lost
  BY <1>1, Zenon DEF CheckInv
<1>4. /\ c = [pc |-> c.pc, s |-> check.s, k |-> c.k, expected |-> c.expected, prev |-> check.prev,
              conf |-> check.conf, lost |-> check.lost]
      /\ c.pc = "unread" /\ c.k = check.k /\ c.expected = check.expected
  BY <1>2, <1>3, Zenon
<1>5. check' = c /\ c.pc # "ranges" /\ c.pc # "passed" /\ c.pc # "failed"
  BY <1>2, <1>4, Zenon DEF CheckUnread
<1>6. CheckInv'
  BY <1>1, <1>3, <1>4, <1>5, CheckGoesOn, Zenon
<1> QED
  BY <1>1, <1>6, CheckStep, Zenon

LEMMA CompareResultInv ==
  ASSUME PInv, CompareResult, UNCHANGED env
  PROVE  PInv'
<1> DEFINE s == check.s
           x == sandbox[s]
           conf == check.conf
           k == check.k
           expected == check.expected \cup StaticResult(conf)
           unequal == check.prev # Absent /\ check.prev # expected
<1>1. CheckInv /\ check.pc = "ranges" /\ k > Len(conf.ranges) /\ UNCHANGED <<env, raw, flat, pools, sandbox>>
  BY Zenon DEF PInv, CompareResult
<1>2. check' = [check EXCEPT !.pc = IF unequal THEN "failed" ELSE "passed"]
  BY Zenon DEF CompareResult
<1>3. /\ check = [pc |-> check.pc, s |-> s, k |-> k, expected |-> check.expected,
                  prev |-> check.prev, conf |-> conf, lost |-> check.lost]
      /\ s \in Sandboxes /\ x.state = "up" /\ k \in Nat \ {0} /\ check.prev \in {Absent, x.result}
      /\ \A key \in check.expected : key.ip \notin check.lost
      /\ x.same => conf = x.conf /\ check.expected = Expected(s, conf, k)
  BY <1>1, Zenon DEF CheckInv
<1>4. ASSUME x.same PROVE ~unequal
  <2>1. IsList(conf.ranges)
    BY <1>3, <1>4, SamePrepared, Zenon DEF Prepared
  <2>2. \A j \in DOMAIN conf.ranges : j < k
    BY <1>1, <1>3, <2>1 DEF IsList
  <2>3. PICK f \in [DOMAIN x.conf.ranges -> 0 .. MaxIP] : Intact(s, x, f)
    BY <1>3, <1>4, Zenon DEF PInv, SandboxInv
  <2>4. Expected(s, x.conf, k) \cup StaticResult(x.conf) = x.result
    BY <1>3, <1>4, <2>2, <2>3, IntactExpected, Zenon
  <2> QED
    BY <1>3, <1>4, <2>4, Zenon
<1> HIDE DEF unequal
<1>5. PICK c : c = [check EXCEPT !.pc = IF unequal THEN "failed" ELSE "passed"]
  BY Zenon
<1>6. /\ c = [pc |-> c.pc, s |-> s, k |-> c.k, expected |-> c.expected, prev |-> check.prev,
              conf |-> conf, lost |-> check.lost]
      /\ c.pc = (IF unequal THEN "failed" ELSE "passed") /\ c.k = k /\ c.expected = check.expected
  BY <1>3, <1>5, Zenon
<1>7. c.pc # "ranges" /\ (c.pc = "failed" <=> unequal)
  BY <1>6, Zenon
<1>8. c.pc = "passed" /\ check.prev # Absent => check.prev = c.expected \cup StaticResult(conf)
  BY <1>6, <1>7 DEF unequal
<1>9. CheckInv'
  BY <1>1, <1>2, <1>3, <1>4, <1>5, <1>6, <1>7, <1>8, CheckGoesOn, ZenonT(60)
<1> QED
  BY <1>1, <1>9, CheckStep, Zenon

LEMMA EndCheckInv ==
  ASSUME PInv, EndCheck, UNCHANGED env
  PROVE  PInv'
<1>1. check'.pc = "idle" /\ UNCHANGED <<env, raw, flat, pools, sandbox>>
  BY DEF EndCheck, Idle
<1> QED
  BY <1>1, CheckStep, Zenon

\* A step that takes entries of t away.
LEMMA RemoveKept ==
  ASSUME PInv, NEW t, UNCHANGED <<env, raw, flat, check>>, DOMAIN pools' = DOMAIN pools,
         pools' = [id \in DOMAIN pools' |-> pools'[id]],
         \A id \in DOMAIN pools : pools'[id] \subseteq pools[id] /\ pools[id] \ Own(t, id) \subseteq pools'[id],
         \A s \in Sandboxes \ {t} : sandbox'[s] = sandbox[s],
         sandbox' = [s \in Sandboxes |-> sandbox'[s]], t \in Sandboxes => SandboxInv(t)',
         check.pc # "idle" /\ check.s = t => CheckInv'
  PROVE  PInv'
<1>1. \A s : s # t => \A id : Own(s, id)' = Own(s, id)
  BY RemoveOwn, Zenon
<1>2. /\ \A s \in Sandboxes \ {t} : SandboxInv(s)'
      /\ check.pc # "idle" /\ check.s # t => CheckInv'
  BY <1>1, OthersKept, Zenon
<1>3. \A s \in Sandboxes : SandboxInv(s)'
  BY <1>2, Zenon
<1>4. \A id \in DOMAIN pools' : \A e \in pools'[id] : e = [ip |-> e.ip, id |-> e.id]
  BY Zenon DEF PInv
<1> QED
  BY <1>2, <1>3, <1>4, Zenon DEF PInv, Env

LEMMA cmdDelInv ==
  ASSUME PInv, NEW t \in Sandboxes, cmdDel(t), UNCHANGED env
  PROVE  PInv'
<1>1. /\ check.pc = "idle" /\ UNCHANGED <<env, raw, flat, check>>
      /\ pools' = [id \in DOMAIN pools |->
                     IF id \in DelRanges(ConfigOf(t)) THEN pools[id] \ Own(t, id) ELSE pools[id]]
      /\ sandbox' = [sandbox EXCEPT ![t].state = "gone"]
  BY Zenon DEF cmdDel
<1>2. /\ DOMAIN pools' = DOMAIN pools /\ pools' = [id \in DOMAIN pools' |-> pools'[id]]
      /\ \A id \in DOMAIN pools : pools'[id] \subseteq pools[id] /\ pools[id] \ Own(t, id) \subseteq pools'[id]
  BY <1>1, Zenon
<1>3. /\ SandboxInv(t)' /\ sandbox' = [s \in Sandboxes |-> sandbox'[s]]
      /\ \A s \in Sandboxes \ {t} : sandbox'[s] = sandbox[s]
  BY <1>1, GiveUp, Zenon DEF PInv
<1> QED
  BY <1>1, <1>2, <1>3, RemoveKept, Zenon

\* A sandbox that stays up and is no longer held to what ADD left.
LEMMA NoLonger ==
  ASSUME NEW s, SandboxInv(s), sandbox[s].state = "up", sandbox'[s] = [sandbox[s] EXCEPT !.same = FALSE]
  PROVE  /\ SandboxInv(s)'
         /\ LET x == sandbox[s] y == sandbox'[s]
            IN  /\ y.state = x.state /\ y.result = x.result /\ y.dynamic = x.dynamic /\ y.conf = x.conf
                /\ ~y.same
<1>1. PICK x : x = sandbox[s]
  BY Zenon
<1>2. PICK y : y = [x EXCEPT !.same = FALSE]
  BY Zenon
<1>3. Added(x)
  BY <1>1, Zenon DEF SandboxInv, SandboxOK
<1>4. /\ y.state = x.state /\ y.result = x.result /\ y.dynamic = x.dynamic /\ y.conf = x.conf
      /\ y.same = FALSE /\ Added(y)
  BY <1>2, <1>3, Zenon DEF Added
<1>5. SandboxOK(y) /\ y.state = "up" /\ y.state # "new"
  BY <1>1, <1>4, Zenon DEF SandboxOK
<1>6. y.conf # Failed /\ KeptApart(y) /\ \A i \in y.dynamic : \E key \in y.result : key.ip = i
  BY <1>1, <1>4, Zenon DEF SandboxInv, KeptApart
<1> QED
  BY <1>1, <1>2, <1>4, <1>5, <1>6, Zenon DEF SandboxInv

LEMMA LoseInv ==
  ASSUME PInv, NEW t \in Sandboxes, Lose(t), UNCHANGED env
  PROVE  PInv'
<1>1. /\ sandbox[t].state = "up" /\ UNCHANGED <<env, raw, flat, check>>
      /\ sandbox' = [sandbox EXCEPT ![t].same = FALSE]
  BY Zenon DEF Lose
<1>2. PICK i \in DOMAIN pools : \E e \in Own(t, i) : pools' = [pools EXCEPT ![i] = @ \ {e}]
  BY Zenon DEF Lose
<1>3. PICK e \in Own(t, i) : pools' = [pools EXCEPT ![i] = @ \ {e}]
  BY <1>2, Zenon
<1>4. pools' = [id \in DOMAIN pools |-> IF id = i THEN pools[i] \ {e} ELSE pools[id]]
  BY <1>3, Zenon
<1>5. /\ DOMAIN pools' = DOMAIN pools /\ pools' = [id \in DOMAIN pools' |-> pools'[id]]
      /\ \A id \in DOMAIN pools : pools'[id] \subseteq pools[id] /\ pools[id] \ Own(t, id) \subseteq pools'[id]
  BY <1>4, Zenon
<1>6. /\ sandbox'[t] = [sandbox[t] EXCEPT !.same = FALSE] /\ sandbox' = [s \in Sandboxes |-> sandbox'[s]]
      /\ \A s \in Sandboxes \ {t} : sandbox'[s] = sandbox[s]
  BY <1>1, Zenon DEF PInv
<1>7. /\ SandboxInv(t)'
      /\ LET x == sandbox[t] y == sandbox'[t]
         IN  /\ y.state = x.state /\ y.result = x.result /\ y.dynamic = x.dynamic /\ y.conf = x.conf
             /\ ~y.same
  BY <1>1, <1>6, NoLonger, Zenon DEF PInv
<1>8. \A id : Own(t, id)' \subseteq Own(t, id)
  BY <1>5, RemoveOwn, Zenon
<1>9. ASSUME check.pc # "idle", check.s = t PROVE CheckInv'
  <2>1. CheckInv /\ check' = check
    BY <1>1, <1>9, Zenon DEF PInv
  <2> QED
    BY <1>7, <1>8, <1>9, <2>1, CheckFrame, Zenon
<1> QED
  BY <1>1, <1>5, <1>6, <1>7, <1>9, RemoveKept, Zenon

LEMMA EditInv ==
  ASSUME PInv, Edit, UNCHANGED env
  PROVE  PInv'
<1>1. /\ raw' \in Env.Networks /\ flat' \in Env.FlatFiles /\ sandbox' = Touched
      /\ UNCHANGED <<env, pools, check>>
  BY Zenon DEF Edit, PInv
<1>2. \A s, id : Own(s, id)' = Own(s, id)
  BY <1>1, Zenon DEF Own, Pool
<1>3. /\ sandbox' = [s \in Sandboxes |-> sandbox'[s]]
      /\ \A s \in Sandboxes : sandbox'[s] =
           IF sandbox[s].state = "up" THEN [sandbox[s] EXCEPT !.same = FALSE] ELSE sandbox[s]
  BY <1>1, Zenon DEF Touched
<1>4. ASSUME NEW s \in Sandboxes PROVE SandboxInv(s)'
  <2>1. SandboxInv(s)
    BY Zenon DEF PInv
  <2>2. CASE sandbox[s].state = "up"
    BY <1>3, <2>1, <2>2, NoLonger, Zenon
  <2>3. CASE sandbox[s].state # "up"
    <3>1. sandbox'[s] = sandbox[s]
      BY <1>3, <2>3, Zenon
    <3>2. sandbox[s].state = "new" => \A id \in DOMAIN pools' : Own(s, id)' = {}
      BY <1>1, <1>2, <2>1, Zenon DEF SandboxInv
    <3> QED
      BY <2>1, <2>3, <3>1, <3>2, Zenon DEF SandboxInv
  <2> QED
    BY <2>2, <2>3, Zenon
<1>5. ASSUME check.pc # "idle" PROVE CheckInv'
  <2>1. CheckInv /\ check.s \in Sandboxes /\ sandbox[check.s].state = "up"
    BY <1>5, Zenon DEF PInv, CheckInv
  <2>2. LET x == sandbox[check.s] y == sandbox'[check.s]
        IN  /\ y.state = x.state /\ y.result = x.result /\ y.dynamic = x.dynamic /\ y.conf = x.conf
            /\ ~y.same
    BY <1>3, <2>1, NoLonger, Zenon DEF PInv
  <2> QED
    BY <1>1, <1>2, <2>1, <2>2, CheckFrame, Zenon
<1> QED
  BY <1>1, <1>3, <1>4, <1>5, Zenon DEF PInv, Env

-----------------------------------------------------------------------------
(* The theorems.                                                           *)

LEMMA PluginInitInv == PluginInit => PInv
<1> SUFFICES ASSUME PluginInit PROVE PInv
  BY Zenon
<1>1. DOMAIN pools = {} /\ check.pc = "idle"
  BY DEF PluginInit, Idle
<1>2. /\ env \in DOMAIN Environments /\ raw \in Env.Networks /\ flat \in Env.FlatFiles
      /\ sandbox = [s \in Sandboxes |-> [state |-> "new"]] /\ pools = [id \in {} |-> {}]
  BY Zenon DEF PluginInit
<1>3. ASSUME NEW s \in Sandboxes PROVE SandboxInv(s)
  <2>1. sandbox[s] = [state |-> "new"]
    BY <1>2, ZenonT(60)
  <2>2. SandboxOK(sandbox[s]) /\ sandbox[s].state = "new" /\ sandbox[s].state # "up"
    BY <2>1 DEF SandboxOK
  <2> QED
    BY <1>1, <2>2, Zenon DEF SandboxInv
<1> QED
  BY <1>1, <1>2, <1>3, Zenon DEF PInv

LEMMA PluginNextInv == PInv /\ [PluginNext]_<<env, pluginVars>> => PInv'
<1> SUFFICES ASSUME PInv, [PluginNext]_<<env, pluginVars>> PROVE PInv'
  OBVIOUS
<1>1. ASSUME PluginNext PROVE PInv'
  <2>1. UNCHANGED env
    BY <1>1, Zenon DEF PluginNext
  <2>2. ASSUME NEW s \in Env.sandboxes,
               \/ \E args \in Env.Args, version \in Env.CNIVersions : cmdAdd(s, args, version)
               \/ \E prev \in BOOLEAN : StartCheck(s, prev)
               \/ cmdDel(s) \/ Lose(s)
        PROVE  PInv'
    <3>1. s \in Sandboxes
      BY TypedEnv, Zenon
    <3> QED
      BY <2>1, <2>2, <3>1, cmdAddInv, StartCheckInv, cmdDelInv, LoseInv, Zenon
  <2> QED
    BY <1>1, <2>1, <2>2, CheckRangeInv, CheckUnreadInv, CompareResultInv, EndCheckInv, EditInv, Zenon DEF PluginNext
<1>2. ASSUME UNCHANGED <<env, pluginVars>> PROVE PInv'
  <2>1. UNCHANGED <<env, raw, flat, pools, sandbox, check>>
    BY <1>2, Zenon DEF pluginVars
  <2>2. ASSUME check.pc # "idle" PROVE CheckInv'
    <3>1. CheckInv /\ \A id : Own(check.s, id)' = Own(check.s, id)
      BY <2>1, <2>2, Zenon DEF PInv, Own, Pool
    <3> QED
      BY <2>1, <3>1, CheckFrame, Zenon
  <2> QED
    BY <2>1, <2>2, CheckStep, Zenon
<1> QED
  BY <1>1, <1>2, Zenon

LEMMA PluginInvariance == PluginSpec => []PInv
BY PluginInitInv, PluginNextInv, PTL DEF PluginSpec

\* What CHECK says of a sandbox is right: see CheckExact.
THEOREM Checks == PluginSpec => []CheckExact
<1>1. PInv => CheckExact
  <2> SUFFICES ASSUME PInv PROVE CheckExact
    OBVIOUS
  <2>1. "failed" # "idle" /\ "passed" # "idle"
    OBVIOUS
  <2>2. ASSUME check.pc = "failed" PROVE ~sandbox[check.s].same
    BY <2>1, <2>2, Zenon DEF PInv, CheckInv
  <2>3. ASSUME check.pc = "passed", check.prev # Absent, NEW i \in check.lost
        PROVE  \E a \in Each(check.conf.addresses) : a.ip = i
    <3> DEFINE x == sandbox[check.s]
    <3>1. /\ check.s \in Sandboxes /\ x.state = "up" /\ check.prev = x.result /\ i \in x.dynamic
          /\ x.result = check.expected \cup StaticResult(check.conf)
          /\ \A key \in check.expected : key.ip \notin check.lost
      BY <2>1, <2>3, Zenon DEF PInv, CheckInv
    <3>2. PICK key \in x.result : key.ip = i
      BY <3>1, Zenon DEF PInv, SandboxInv
    <3>3. key \in StaticResult(check.conf)
      BY <3>1, <3>2, Zenon
    <3>4. PICK a \in Each(check.conf.addresses) : key = Key(a.ip, a.net, a.gateway)
      BY <3>3, Zenon DEF StaticResult
    <3>5. key.ip = a.ip
      BY <3>4, Zenon DEF Key
    <3> QED
      BY <3>2, <3>5, Zenon
  <2> QED
    BY <2>2, <2>3, Zenon DEF CheckExact
<1> QED
  BY <1>1, PluginInvariance, PTL

\* No sandbox holds an address that its configuration gives statically or, with
\* exclude_gateway, the gateway's: see AddressesApart.
THEOREM ApartAddresses == PluginSpec => []AddressesApart
<1>1. PInv => AddressesApart
  <2> SUFFICES ASSUME PInv PROVE AddressesApart
    OBVIOUS
  <2>1. ASSUME NEW s \in UpSandboxes PROVE KeptApart(sandbox[s])
    BY Zenon DEF UpSandboxes, PInv, SandboxInv
  <2> QED
    BY <2>1, Zenon DEF KeptApart, AddressesApart
<1> QED
  BY <1>1, PluginInvariance, PTL

\* The booleans of the network's configuration win over the flat file's, and
\* those over the defaults: see BoolsOverride.
THEOREM BoolPrecedence == PluginSpec => []BoolsOverride
<1>1. PInv => BoolsOverride
  <2> SUFFICES ASSUME PInv PROVE BoolsOverride
    OBVIOUS
  <2>1. ASSUME NEW s \in UpSandboxes, sandbox[s].same, NEW f \in Bools
        PROVE  /\ raw[f] # Absent => sandbox[s].conf.flags[f] = raw[f]
               /\ raw[f] = Absent /\ getFlatIPAM(flat)[f] # Absent =>
                    sandbox[s].conf.flags[f] = getFlatIPAM(flat)[f]
               /\ raw[f] = Absent /\ getFlatIPAM(flat)[f] = Absent =>
                    sandbox[s].conf.flags[f] = DefaultBool(f)
    <3> DEFINE conf == LoadIPAMConfig(raw, getFlatIPAM(flat), sandbox[s].args, sandbox[s].version)
    <3>1. sandbox[s].conf = conf /\ conf # Failed
      BY <2>1, ZenonT(60) DEF UpSandboxes, PInv, SandboxInv, ConfigOf
    <3>2. /\ raw[f] # Absent => conf.flags[f] = raw[f]
          /\ raw[f] = Absent /\ getFlatIPAM(flat)[f] # Absent => conf.flags[f] = getFlatIPAM(flat)[f]
          /\ raw[f] = Absent /\ getFlatIPAM(flat)[f] = Absent => conf.flags[f] = DefaultBool(f)
      BY <3>1, Overrides
    <3> QED
      BY <3>1, <3>2, Zenon
  <2> QED
    BY <2>1, Zenon DEF BoolsOverride
<1> QED
  BY <1>1, PluginInvariance, PTL
=============================================================================
