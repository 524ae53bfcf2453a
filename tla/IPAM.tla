-------------------------------- MODULE IPAM --------------------------------
(***************************************************************************)
(* The allocation path of the CNI plugin: cmdAdd / cmdDel of               *)
(* cmd/whereabouts/main.go driving IPManagementKubernetesUpdate of         *)
(* pkg/storage/kubernetes/ipam.go against the Kubernetes API.              *)
(*                                                                         *)
(* An attachment is one (container ID, interface name) pair; at most one   *)
(* CNI call runs for it at a time.  Calls of different attachments run     *)
(* concurrently: the lease of IPManagement is not relied upon, because     *)
(* optimistic_ipam bypasses it and a deposed leader keeps updating.        *)
(* Every request to the API server is one step, and what the code computes *)
(* between two requests belongs to the step of the first one.              *)
(***************************************************************************)
EXTENDS Naturals, Sequences

CONSTANTS
  Attachments,        \* (container ID, ifName) pairs
  Refs,               \* (podRef, ifName) pairs
  UIDs,               \* pod UIDs
  Pools,              \* IPPool objects
  IPs,                \* addresses
  Ref,                \* Ref[a]: the podRef and ifName of attachment a
  PodUID,             \* PodUID[a]: the pod UID passed by the runtime, or NoUID
  Preferred,          \* Preferred[a]: the preferred-ip annotation, or None
  Ranges,             \* Ranges[a]: the pools of ipamConf.IPRanges, in order
  Candidates,         \* Candidates[p]: the assignable addresses in trial order
  OverlappingRanges,  \* enable_overlapping_ranges
  DatastoreRetries,   \* storage.DatastoreRetries (100)
  RollbackRetries,    \* rollbackRetries (5)
  MaxFaults,          \* bound: failed requests and killed plugins
  MaxDels,            \* bound: DEL calls per attachment
  None, NoUID

ASSUME ConfigAssumption ==
  /\ Ref \in [Attachments -> Refs]
  /\ PodUID \in [Attachments -> UIDs \cup {NoUID}]
  /\ Preferred \in [Attachments -> IPs \cup {None}]
  /\ Ranges \in [Attachments -> Seq(Pools) \ {<<>>}]
  /\ Candidates \in [Pools -> Seq(IPs)]

ASSUME BoundAssumption ==
  /\ OverlappingRanges \in BOOLEAN
  /\ DatastoreRetries \in Nat \ {0}
  /\ RollbackRetries \in Nat \ {0}
  /\ MaxFaults \in Nat
  /\ MaxDels \in Nat

ASSUME NoneAssumption ==
  /\ None \notin Attachments
  /\ None \notin IPs \cup {"ADD", "DEL"}
  /\ NoUID \notin UIDs
  /\ None \notin [ref : Refs, uid : UIDs \cup {NoUID}]

VARIABLES
  pools,   \* pools[p]: the IPPool; resourceVersion 0 stands for "not found"
  orips,   \* orips[ip]: the OverlappingRangeIPReservation of ip, or None
  call,    \* call[a]: the local state of the CNI call running for a
  faults   \* failures injected so far

vars == <<pools, orips, call, faults>>
-----------------------------------------------------------------------------
(* Data                                                                    *)

Allocations == [IPs -> Attachments \cup {None}]
Pool        == [rv : Nat, alloc : Allocations]
NoAlloc     == [ip \in IPs |-> None]
NoPool      == [rv |-> 0, alloc |-> NoAlloc]
Reservation == [ref : Refs, uid : UIDs \cup {NoUID}]
Address     == IPs \cup {None}

\* committedAlloc: what one range of an ADD created, and the pool object in
\* hand when it did.
Commit == [idx : Nat, ip : IPs, pool : BOOLEAN, orip : BOOLEAN, snap : Pool]

Ended == {"absent", "up", "failed", "gone", "delfailed"}
Pc == Ended \cup
      {"read", "create", "getorip", "staleget", "staledel", "patch",
       "createorip", "delget", "deldel",
       "rollback", "rbread", "rbpatch", "rboripget", "rboripdel"}

Call ==
  [pc        : Pc,
   mode      : {"ADD", "DEL"},
   idx       : Nat,              \* index into Ranges[a]
   tries     : Nat,              \* attempts started for this range
   dummies   : SUBSET IPs,       \* overlappingrangeallocations
   pref      : Address,          \* preferredIP
   snap      : Pool,             \* the pool object fetched by this attempt
   ip        : Address,          \* newip / ipforoverlappingrangeupdate
   created   : BOOLEAN,          \* allocationCreated
   skip      : BOOLEAN,          \* skipOverlappingRangeUpdate
   pending   : Address,          \* pendingOverlapDeletionIP
   uid       : UIDs \cup {NoUID},\* UID of the stale reservation to delete
   results   : Seq(IPs),         \* newips
   commits   : Seq(Commit),      \* committed
   rbq       : Seq(Commit),      \* commits still to be rolled back
   rbtry     : Nat,              \* rollback attempts of the first of rbq
   then      : {"retry", "abort", "failed"}, \* what follows the rollback
   exhausted : BOOLEAN,          \* history: a range ran out of attempts, err = nil
   dels      : Nat]              \* DEL calls so far

Fresh ==
  [pc |-> "absent", mode |-> "ADD", idx |-> 1, tries |-> 1, dummies |-> {},
   pref |-> None, snap |-> NoPool, ip |-> None, created |-> FALSE,
   skip |-> FALSE, pending |-> None, uid |-> NoUID, results |-> <<>>,
   commits |-> <<>>, rbq |-> <<>>, rbtry |-> 0, then |-> "failed",
   exhausted |-> FALSE, dels |-> 0]

Init ==
  /\ pools = [p \in Pools |-> NoPool]
  /\ orips = [ip \in IPs |-> None]
  /\ call = [a \in Attachments |-> Fresh]
  /\ faults = 0
-----------------------------------------------------------------------------
(* pkg/allocate: which address an attempt works on.                        *)

\* Addresses of the pool already held by the pod and interface of a.
HeldByRef(a, alloc) == {ip \in IPs : alloc[ip] # None /\ Ref[alloc[ip]] = Ref[a]}

Unreserved(alloc, dummies) == {ip \in IPs : alloc[ip] = None /\ ip \notin dummies}

FirstOf(seq, S) ==
  {seq[i] : i \in {j \in DOMAIN seq : seq[j] \in S
                                      /\ \A k \in 1..(j - 1) : seq[k] \notin S}}

\* Mutant: an address is picked without looking for an existing allocation.
AssignIPNoLookup(a, p, alloc, dummies, pref) == FirstOf(Candidates[p], Unreserved(alloc, dummies))

\* AssignIP: the addresses it may return; empty when the range is exhausted.
\* Dummies carry no podRef, so they never hide an existing allocation.
AssignIP(a, p, alloc, dummies, pref) ==
  LET free == Unreserved(alloc, dummies)
  IN  IF HeldByRef(a, alloc) # {} THEN HeldByRef(a, alloc)
      ELSE IF pref \in free /\ pref \in {Candidates[p][i] : i \in DOMAIN Candidates[p]}
           THEN {pref}
           ELSE FirstOf(Candidates[p], free)

\* Mutant: allocationAlreadyInPool never finds the entry.
AlreadyInPoolNever(a, ip, alloc) == FALSE

\* allocationAlreadyInPool: the entry of ip is one of this pod and interface.
AlreadyInPool(a, ip, alloc) == ip \in HeldByRef(a, alloc)

\* Mutant: entries are matched by pod and interface, not by container.
DeallocateIPByRef(a, alloc) == HeldByRef(a, alloc)

\* DeallocateIP: the entries with the container ID and interface of a.
DeallocateIP(a, alloc) == {ip \in IPs : alloc[ip] = a}
-----------------------------------------------------------------------------
(* Control flow of IPManagementKubernetesUpdate, as maps on call states.   *)

PoolOf(a, i) == Ranges[a][i]

\* The call returns to the runtime; its locals are gone.
Finish(c, pc) ==
  [Fresh EXCEPT !.pc = pc, !.mode = c.mode, !.results = c.results,
                !.exhausted = c.exhausted, !.dels = c.dels]

StartRollback(c, queue, then) ==
  [c EXCEPT !.pc = "rollback", !.rbq = queue, !.then = then]

\* Mutant: a DEL that failed is reported as a success.
FailSwallowed(c) ==
  IF c.mode = "DEL" THEN Finish(c, "gone") ELSE Finish([c EXCEPT !.results = <<>>], "failed")

\* return newips, err: the deferred function rolls back what was committed.
Fail(c) ==
  IF c.mode = "DEL" THEN Finish(c, "delfailed")
  ELSE IF c.commits = <<>> THEN Finish([c EXCEPT !.results = <<>>], "failed")
  ELSE StartRollback([c EXCEPT !.results = <<>>], c.commits, "failed")

\* The next element of ipamConf.IPRanges, or the end of the call.
NextRange(a, c) ==
  IF c.idx = Len(Ranges[a])
  THEN Finish(c, IF c.mode = "ADD" THEN "up" ELSE "gone")
  ELSE [c EXCEPT !.pc = "read", !.idx = @ + 1, !.tries = 1, !.snap = NoPool,
                 !.ip = None, !.created = FALSE, !.skip = FALSE, !.pending = None]

\* The retry loop ended with err = nil; reserved says that it created the
\* overlapping-range reservation.
RangeDone(a, c, reserved) ==
  IF c.mode = "DEL" THEN NextRange(a, c)
  ELSE NextRange(a,
    [c EXCEPT
       !.commits = IF c.created \/ reserved
                   THEN Append(@, [idx |-> c.idx, ip |-> c.ip, pool |-> c.created,
                                   orip |-> reserved, snap |-> c.snap])
                   ELSE @,
       !.dummies = IF OverlappingRanges THEN @ \cup {c.ip} ELSE @,
       !.results = Append(@, c.ip)])

\* Mutant: the attempt counter is not advanced.
NextAttemptNoCount(a, c, err) ==
  [c EXCEPT !.pc = "read", !.snap = NoPool, !.ip = None,
            !.created = FALSE, !.skip = FALSE]

\* "continue" in the retry loop; err is the value the outer variable has then.
\* When no attempt is left the loop simply ends, and err decides.
NextAttempt(a, c, err) ==
  IF c.tries < DatastoreRetries
  THEN [c EXCEPT !.pc = "read", !.tries = @ + 1, !.snap = NoPool, !.ip = None,
                 !.created = FALSE, !.skip = FALSE]
  ELSE IF err THEN Fail(c)
  ELSE RangeDone(a, [c EXCEPT !.exhausted = TRUE], FALSE)

\* What comes after the pool holds the new allocation list.
AfterPatch(a, c) ==
  IF ~OverlappingRanges \/ c.skip THEN RangeDone(a, c, FALSE)
  ELSE [c EXCEPT !.pc = IF c.mode = "ADD" THEN "createorip"
                        ELSE IF PodUID[a] = NoUID THEN "deldel" ELSE "delget"]

\* UpdateOverlappingRangeAllocation failed: an ADD gives the pool entry back
\* before it retries or gives up.
OverlapUpdateFailed(a, c, retryable) ==
  IF c.mode = "ADD" /\ c.created
  THEN StartRollback(c, <<[idx |-> c.idx, ip |-> c.ip, pool |-> TRUE,
                           orip |-> FALSE, snap |-> c.snap]>>,
                     IF retryable THEN "retry" ELSE "abort")
  ELSE IF retryable THEN NextAttempt(a, c, TRUE) ELSE Fail(c)

\* rollbackCommitted moves on to the next commit.
RollbackNext(c) == [c EXCEPT !.pc = "rollback", !.rbq = Tail(@), !.rbtry = 0]

\* One more attempt for the same commit, or none left.
RollbackAgain(c, pc) ==
  IF c.rbtry < RollbackRetries THEN [c EXCEPT !.pc = pc, !.rbtry = @ + 1]
  ELSE RollbackNext(c)

\* Mutant: the reservation of a rolled back range stays.
RollbackOripForgotten(a, c) == RollbackNext(c)

\* rollbackOverlappingReservation of the current commit, if it has one.
RollbackOrip(a, c) ==
  IF Head(c.rbq).orip
  THEN [c EXCEPT !.pc = IF PodUID[a] = NoUID THEN "rboripdel" ELSE "rboripget",
                 !.rbtry = 1]
  ELSE RollbackNext(c)
-----------------------------------------------------------------------------
(* Requests to the API server, each one step.                              *)

At(a, pc) == call[a].pc = pc
Become(a, c) == call' = [call EXCEPT ![a] = c]

\* The runtime invokes ADD.  The pod is read first for its preferred-ip
\* annotation; a failed read means no preference.
AddStart(a) ==
  /\ At(a, "absent")
  /\ \E pref \in {Preferred[a], None} :
       Become(a, [Fresh EXCEPT !.pc = "read", !.pref = pref])
  /\ UNCHANGED <<pools, orips, faults>>

\* The runtime invokes DEL, after any ADD and again after a failed DEL.
DelStart(a) ==
  /\ call[a].pc \in {"up", "failed", "delfailed"}
  /\ call[a].dels < MaxDels
  /\ Become(a, [Fresh EXCEPT !.pc = "read", !.mode = "DEL", !.dels = call[a].dels + 1])
  /\ UNCHANGED <<pools, orips, faults>>

\* GetIPPool / GetExistingIPPool find no pool: DEL has nothing to release in
\* this range, ADD creates the pool.
ReadMissing(a) ==
  LET c == call[a]
  IN  /\ At(a, "read")
      /\ pools[PoolOf(a, c.idx)].rv = 0
      /\ Become(a, IF c.mode = "DEL" THEN NextRange(a, c) ELSE [c EXCEPT !.pc = "create"])
      /\ UNCHANGED <<pools, orips, faults>>

\* Created or AlreadyExists: either way a temporary error, so the loop retries.
CreatePool(a) ==
  LET p == PoolOf(a, call[a].idx)
  IN  /\ At(a, "create")
      /\ pools' = IF pools[p].rv = 0 THEN [pools EXCEPT ![p].rv = 1] ELSE pools
      /\ Become(a, NextAttempt(a, call[a], TRUE))
      /\ UNCHANGED <<orips, faults>>

\* The pool is read and AssignIP picks an address.
ReadForAdd(a) ==
  LET c == call[a]
      pool == pools[PoolOf(a, c.idx)]
      picks == AssignIP(a, PoolOf(a, c.idx), pool.alloc, c.dummies, c.pref)
  IN  /\ At(a, "read") /\ c.mode = "ADD"
      /\ pool.rv > 0
      /\ \/ /\ picks = {}
            /\ Become(a, Fail(c))
         \/ \E ip \in picks :
              Become(a, [c EXCEPT !.pc = IF OverlappingRanges THEN "getorip" ELSE "patch",
                                  !.snap = pool, !.ip = ip,
                                  !.created = ~AlreadyInPool(a, ip, pool.alloc)])
      /\ UNCHANGED <<pools, orips, faults>>

\* The pool is read and DeallocateIP looks for the entry of this attachment.
\* Without one, only a reservation whose deletion is pending is worked on.
ReadForDel(a) ==
  LET c == call[a]
      pool == pools[PoolOf(a, c.idx)]
      mine == DeallocateIP(a, pool.alloc)
      pendingPc == IF PodUID[a] = NoUID THEN "deldel" ELSE "delget"
  IN  /\ At(a, "read") /\ c.mode = "DEL"
      /\ pool.rv > 0
      /\ \/ \E ip \in mine :
              Become(a, [c EXCEPT !.pc = "patch", !.snap = pool, !.ip = ip, !.pending = ip])
         \/ /\ mine = {} /\ c.pending # None /\ OverlappingRanges
            /\ Become(a, [c EXCEPT !.pc = pendingPc, !.ip = c.pending])
         \/ /\ mine = {} /\ (c.pending = None \/ ~OverlappingRanges)
            /\ Become(a, NextRange(a, c))
      /\ UNCHANGED <<pools, orips, faults>>

\* A reservation of the same pod and interface left by an earlier pod UID.
StaleReservation(a, r) ==
  PodUID[a] # NoUID /\ r.uid # NoUID /\ r.uid # PodUID[a]

\* Mutant: the owner of the reservation is not compared.
GetOripAnyOwner(a) ==
  LET c == call[a]
      r == orips[c.ip]
  IN  /\ At(a, "getorip")
      /\ Become(a, [c EXCEPT !.pc = "patch", !.skip = (r # None)])
      /\ UNCHANGED <<pools, orips, faults>>

\* GetOverlappingRangeIPReservation.  A foreign reservation makes the address
\* a dummy and the loop continues, with the outer err still nil.
GetOrip(a) ==
  LET c == call[a]
      r == orips[c.ip]
  IN  /\ At(a, "getorip")
      /\ \/ /\ r = None
            /\ Become(a, [c EXCEPT !.pc = "patch"])
         \/ /\ r # None /\ r.ref # Ref[a]
            /\ Become(a, NextAttempt(a, [c EXCEPT !.dummies = @ \cup {c.ip}], FALSE))
         \/ /\ r # None /\ r.ref = Ref[a] /\ StaleReservation(a, r)
            /\ Become(a, [c EXCEPT !.pc = "staleget", !.uid = r.uid])
         \/ /\ r # None /\ r.ref = Ref[a] /\ ~StaleReservation(a, r)
            /\ Become(a, [c EXCEPT !.pc = "patch", !.skip = TRUE])
      /\ UNCHANGED <<pools, orips, faults>>

\* UpdateOverlappingRangeAllocation(Deallocate): the UID guard.
UIDGuardSkips(r, uid) == r # None /\ r.uid # NoUID /\ r.uid # uid

StaleGet(a) ==
  LET c == call[a]
  IN  /\ At(a, "staleget")
      /\ Become(a, [c EXCEPT !.pc = IF UIDGuardSkips(orips[c.ip], c.uid)
                                    THEN "patch" ELSE "staledel"])
      /\ UNCHANGED <<pools, orips, faults>>

\* The delete carries no precondition; NotFound counts as success.
DeleteOrip(a) == orips' = [orips EXCEPT ![call[a].ip] = None]

StaleDel(a) ==
  /\ At(a, "staledel")
  /\ DeleteOrip(a)
  /\ Become(a, [call[a] EXCEPT !.pc = "patch"])
  /\ UNCHANGED <<pools, faults>>
-----------------------------------------------------------------------------
(* KubernetesIPPool.Update                                                 *)

\* Mutant: the patch carries no resourceVersion test.
VersionMatchesAlways(p, snap) == TRUE

\* The "test /metadata/resourceVersion" operation of the JSON patch.
VersionMatches(p, snap) == pools[p].rv = snap.rv

\* The stored object after the patch; a patch that changes nothing leaves the
\* resource version alone.
Patched(pool, alloc) ==
  IF alloc = pool.alloc THEN pool ELSE [rv |-> pool.rv + 1, alloc |-> alloc]

UpdatePool(p, snap, alloc) ==
  /\ VersionMatches(p, snap)
  /\ pools' = [pools EXCEPT ![p] = Patched(pools[p], alloc)]

\* updatedreservelist of the attempt, dummies stripped.
NewAlloc(a, c) == [c.snap.alloc EXCEPT ![c.ip] = IF c.mode = "ADD" THEN a ELSE None]

\* The in-memory pool object keeps the new list under the old version.
InMemory(a, c) == [c EXCEPT !.snap.alloc = NewAlloc(a, c)]

Patch(a) ==
  LET c == call[a]
      p == PoolOf(a, c.idx)
  IN  /\ At(a, "patch")
      /\ \/ /\ UpdatePool(p, c.snap, NewAlloc(a, c))
            /\ Become(a, AfterPatch(a, InMemory(a, c)))
         \/ /\ ~VersionMatches(p, c.snap)
            /\ Become(a, NextAttempt(a, c, TRUE))
            /\ UNCHANGED pools
      /\ UNCHANGED <<orips, faults>>
-----------------------------------------------------------------------------
(* UpdateOverlappingRangeAllocation                                        *)

\* Mutant: AlreadyExists is taken for success.
CreateOripOverwrite(a) ==
  LET c == call[a]
  IN  /\ At(a, "createorip")
      /\ orips' = [orips EXCEPT ![c.ip] = [ref |-> Ref[a], uid |-> PodUID[a]]]
      /\ Become(a, RangeDone(a, c, TRUE))
      /\ UNCHANGED <<pools, faults>>

CreateOrip(a) ==
  LET c == call[a]
  IN  /\ At(a, "createorip")
      /\ \/ /\ orips[c.ip] = None
            /\ orips' = [orips EXCEPT ![c.ip] = [ref |-> Ref[a], uid |-> PodUID[a]]]
            /\ Become(a, RangeDone(a, c, TRUE))
         \/ /\ orips[c.ip] # None
            /\ Become(a, OverlapUpdateFailed(a, c, TRUE))
            /\ UNCHANGED orips
      /\ UNCHANGED <<pools, faults>>

DelGet(a) ==
  LET c == call[a]
  IN  /\ At(a, "delget")
      /\ Become(a, IF UIDGuardSkips(orips[c.ip], PodUID[a])
                   THEN RangeDone(a, c, FALSE) ELSE [c EXCEPT !.pc = "deldel"])
      /\ UNCHANGED <<pools, orips, faults>>

\* Mutant: the reservation is left behind.
DelDelForgotten(a) ==
  /\ At(a, "deldel")
  /\ Become(a, RangeDone(a, call[a], FALSE))
  /\ UNCHANGED <<pools, orips, faults>>

DelDel(a) ==
  /\ At(a, "deldel")
  /\ DeleteOrip(a)
  /\ Become(a, RangeDone(a, call[a], FALSE))
  /\ UNCHANGED <<pools, faults>>
-----------------------------------------------------------------------------
(* rollbackCommitted                                                       *)

\* The next commit, its first attempt made on the pool object already in hand.
\* A commit whose entry is not in that object is dropped with its reservation.
RollbackBegin(a) ==
  LET c == call[a]
      h == Head(c.rbq)
  IN  /\ At(a, "rollback")
      /\ \/ /\ c.rbq = <<>> /\ c.then = "retry"
            /\ Become(a, NextAttempt(a, c, TRUE))
         \/ /\ c.rbq = <<>> /\ c.then = "abort"
            /\ Become(a, Fail(c))
         \/ /\ c.rbq = <<>> /\ c.then = "failed"
            /\ Become(a, Finish(c, "failed"))
         \/ /\ c.rbq # <<>> /\ ~h.pool
            /\ Become(a, RollbackOrip(a, [c EXCEPT !.ip = h.ip]))
         \/ /\ c.rbq # <<>> /\ h.pool /\ h.snap.alloc[h.ip] # a
            /\ Become(a, RollbackNext(c))
         \/ /\ c.rbq # <<>> /\ h.pool /\ h.snap.alloc[h.ip] = a
            /\ Become(a, [c EXCEPT !.pc = "rbpatch", !.snap = h.snap, !.ip = h.ip,
                                   !.rbtry = 1])
      /\ UNCHANGED <<pools, orips, faults>>

\* Mutant: the owner of the entry is not compared again.
RollbackReadAnyOwner(a) ==
  LET c == call[a]
      pool == pools[PoolOf(a, Head(c.rbq).idx)]
  IN  /\ At(a, "rbread")
      /\ Become(a, IF pool.rv > 0 /\ pool.alloc[c.ip] # None
                   THEN [c EXCEPT !.pc = "rbpatch", !.snap = pool]
                   ELSE RollbackNext(c))
      /\ UNCHANGED <<pools, orips, faults>>

\* Later attempts read the pool again and stop when the entry is not ours.
RollbackRead(a) ==
  LET c == call[a]
      pool == pools[PoolOf(a, Head(c.rbq).idx)]
  IN  /\ At(a, "rbread")
      /\ Become(a, IF pool.rv > 0 /\ pool.alloc[c.ip] = a
                   THEN [c EXCEPT !.pc = "rbpatch", !.snap = pool]
                   ELSE RollbackNext(c))
      /\ UNCHANGED <<pools, orips, faults>>

RollbackPatch(a) ==
  LET c == call[a]
      p == PoolOf(a, Head(c.rbq).idx)
  IN  /\ At(a, "rbpatch")
      /\ \/ /\ UpdatePool(p, c.snap, [c.snap.alloc EXCEPT ![c.ip] = None])
            /\ Become(a, RollbackOrip(a, c))
         \/ /\ ~VersionMatches(p, c.snap)
            /\ Become(a, RollbackAgain(c, "rbread"))
            /\ UNCHANGED pools
      /\ UNCHANGED <<orips, faults>>

RollbackOripGet(a) ==
  LET c == call[a]
  IN  /\ At(a, "rboripget")
      /\ Become(a, IF UIDGuardSkips(orips[c.ip], PodUID[a])
                   THEN RollbackNext(c) ELSE [c EXCEPT !.pc = "rboripdel"])
      /\ UNCHANGED <<pools, orips, faults>>

RollbackOripDel(a) ==
  /\ At(a, "rboripdel")
  /\ DeleteOrip(a)
  /\ Become(a, RollbackNext(call[a]))
  /\ UNCHANGED <<pools, faults>>
-----------------------------------------------------------------------------
(* Failures                                                                *)

Writing == {"create", "patch", "createorip", "staledel", "deldel", "rbpatch", "rboripdel"}

\* Where an error of the current request leads.  retryable is what
\* isRetryableRollbackError says of it.  Only the two reservation updates and
\* the rollback distinguish: reads and pool updates retry on conflicts alone.
OnError(a, c, retryable) ==
  CASE c.pc \in {"createorip", "delget", "deldel"} -> OverlapUpdateFailed(a, c, retryable)
    [] c.pc = "rbread" -> RollbackAgain(c, "rbread")
    [] c.pc = "rbpatch" -> IF retryable THEN RollbackAgain(c, "rbread") ELSE RollbackNext(c)
    [] c.pc \in {"rboripget", "rboripdel"} ->
         IF retryable
         THEN RollbackAgain(c, IF PodUID[a] = NoUID THEN "rboripdel" ELSE "rboripget")
         ELSE RollbackNext(c)
    [] OTHER -> Fail(c)

Requesting(a) == call[a].pc \notin Ended \cup {"rollback"}

\* A request fails without effect; at "read" this is also the context of the
\* ADD or DEL running out.
RequestFails(a) ==
  /\ Requesting(a) /\ faults < MaxFaults
  /\ faults' = faults + 1
  /\ \E retryable \in BOOLEAN : Become(a, OnError(a, call[a], retryable))
  /\ UNCHANGED <<pools, orips>>

\* A write takes effect but its caller sees an error.
ReplyLost(a) ==
  LET c == call[a]
      p == PoolOf(a, c.idx)
  IN  /\ c.pc \in Writing /\ faults < MaxFaults
      /\ faults' = faults + 1
      /\ \E retryable \in BOOLEAN :
           Become(a, OnError(a, IF c.pc = "patch" THEN InMemory(a, c) ELSE c, retryable))
      /\ \/ /\ c.pc = "create" /\ pools[p].rv = 0
            /\ pools' = [pools EXCEPT ![p].rv = 1] /\ UNCHANGED orips
         \/ /\ c.pc = "patch" /\ UpdatePool(p, c.snap, NewAlloc(a, c)) /\ UNCHANGED orips
         \/ /\ c.pc = "rbpatch"
            /\ UpdatePool(PoolOf(a, Head(c.rbq).idx), c.snap, [c.snap.alloc EXCEPT ![c.ip] = None])
            /\ UNCHANGED orips
         \/ /\ c.pc = "createorip" /\ orips[c.ip] = None
            /\ orips' = [orips EXCEPT ![c.ip] = [ref |-> Ref[a], uid |-> PodUID[a]]]
            /\ UNCHANGED pools
         \/ /\ c.pc \in {"staledel", "deldel", "rboripdel"} /\ DeleteOrip(a) /\ UNCHANGED pools

\* The plugin process is killed between two requests.
Crash(a) ==
  LET c == call[a]
  IN  /\ c.pc \notin Ended /\ faults < MaxFaults
      /\ faults' = faults + 1
      /\ Become(a, IF c.mode = "DEL" THEN Finish(c, "delfailed")
                   ELSE Finish([c EXCEPT !.results = <<>>], "failed"))
      /\ UNCHANGED <<pools, orips>>
-----------------------------------------------------------------------------
\* What a running call does when nothing goes wrong with it.
Step(a) ==
  \/ ReadMissing(a) \/ CreatePool(a) \/ ReadForAdd(a) \/ ReadForDel(a)
  \/ GetOrip(a) \/ StaleGet(a) \/ StaleDel(a) \/ Patch(a)
  \/ CreateOrip(a) \/ DelGet(a) \/ DelDel(a)
  \/ RollbackBegin(a) \/ RollbackRead(a) \/ RollbackPatch(a)
  \/ RollbackOripGet(a) \/ RollbackOripDel(a)

Fault(a) == RequestFails(a) \/ ReplyLost(a) \/ Crash(a)

Next == \E a \in Attachments : AddStart(a) \/ DelStart(a) \/ Step(a) \/ Fault(a)

Spec == Init /\ [][Next]_vars

\* A running call is not stopped for ever: requests carry a timeout and the
\* backoff between attempts is bounded.
FairSpec == Spec /\ \A a \in Attachments : WF_vars(Step(a))
-----------------------------------------------------------------------------
(* Properties                                                              *)

RangeIdx(a) == 1..Len(Ranges[a])

Attempting  == {"getorip", "staleget", "staledel", "patch"}
RollingBack == {"rbread", "rbpatch", "rboripget", "rboripdel"}
Reserving   == {"createorip", "delget", "deldel"}

\* Which fields are in use where.
WellFormed(a, c) ==
  /\ c.idx \in RangeIdx(a)
  /\ c.pc \in Attempting \cup Reserving \cup RollingBack => c.ip \in IPs
  /\ c.pc \in {"up", "failed", "create", "getorip", "staleget", "staledel", "createorip",
               "rollback"} \cup RollingBack => c.mode = "ADD"
  /\ c.pc \in {"gone", "delfailed", "delget", "deldel"} => c.mode = "DEL"
  /\ c.pc \in RollingBack => c.rbq # <<>> /\ c.rbtry > 0
  /\ c.pc = "rbread" => c.rbtry > 1
  /\ \A k \in DOMAIN c.commits : c.commits[k].idx \in RangeIdx(a)
  /\ \A k \in DOMAIN c.rbq : c.rbq[k].idx \in RangeIdx(a)

TypeOK ==
  /\ pools \in [Pools -> Pool]
  /\ \A p \in Pools : pools[p].rv = 0 => pools[p] = NoPool
  /\ orips \in [IPs -> Reservation \cup {None}]
  /\ call \in [Attachments -> Call]
  /\ \A a \in Attachments : WellFormed(a, call[a])
  /\ faults \in Nat

\* A pool never holds two addresses for one pod interface, however the ADDs of
\* successive sandboxes, DELs and rollbacks interleave and fail: AssignIP looks
\* for an existing entry before it adds one, and the resourceVersion test of
\* Update makes look-up and addition one step.
OneIPPerInterface ==
  \A p \in Pools : \A i, j \in IPs :
    LET x == pools[p].alloc[i]
        y == pools[p].alloc[j]
    IN  x # None /\ y # None /\ Ref[x] = Ref[y] => i = j

\* Another sandbox of the same pod interface has been set up, or was attempted.
Superseded(a) == \E b \in Attachments \ {a} : Ref[b] = Ref[a] /\ call[b].pc # "absent"

\* An address reported to the runtime by a successful ADD is recorded in its
\* pool for this container until DEL runs, unless a later sandbox of the same
\* pod took the entry over: no DEL, rollback or retry of anybody else removes it.
UpIsBacked ==
  \A a \in Attachments :
    call[a].pc = "up" /\ ~call[a].exhausted /\ ~Superseded(a) =>
      /\ Len(call[a].results) = Len(Ranges[a])
      /\ \A i \in RangeIdx(a) : pools[PoolOf(a, i)].alloc[call[a].results[i]] = a

\* After a DEL that reported success, no configured pool has an entry of this
\* container, whatever failed during its ADD and its earlier DELs.  DeallocateIP
\* removes one entry only, so this rests on OneIPPerInterface.
GoneIsReleased ==
  \A a \in Attachments : call[a].pc = "gone" =>
    \A i \in RangeIdx(a) : \A ip \in IPs : pools[PoolOf(a, i)].alloc[ip] # a

\* The stored pool has moved on from snap, or still is snap.
Clean(snap, pool) == snap.rv <= pool.rv /\ (snap.rv = pool.rv => snap = pool)

\* The pool has moved on from the object kept for rolling h back.
Outdated(a, h, ps) ==
  h.pool /\ h.snap.alloc[h.ip] = a => h.snap.rv < ps[PoolOf(a, h.idx)].rv

Snapshot(a, c, ps) ==
  /\ c.pc \in Attempting =>
       /\ Clean(c.snap, ps[PoolOf(a, c.idx)])
       /\ c.mode = "ADD" /\ c.created =>
            c.snap.alloc[c.ip] = None /\ HeldByRef(a, c.snap.alloc) = {}
       /\ c.mode = "ADD" /\ ~c.created => c.ip \in HeldByRef(a, c.snap.alloc)
       /\ c.mode = "DEL" => c.snap.alloc[c.ip] = a
  /\ c.pc = "createorip" /\ c.created => c.snap.rv < ps[PoolOf(a, c.idx)].rv
  /\ \A k \in DOMAIN c.commits : Outdated(a, c.commits[k], ps)
  /\ \A k \in DOMAIN c.rbq : Outdated(a, c.rbq[k], ps)
  /\ c.pc = "rbpatch" =>
       LET pool == ps[PoolOf(a, Head(c.rbq).idx)]
       IN  /\ c.snap.alloc[c.ip] = a
           /\ IF c.rbtry = 1 THEN c.snap.rv < pool.rv ELSE Clean(c.snap, pool)

\* With the pool object of an attempt in hand: either the stored pool has moved
\* on, or it is what was read, and the decision taken on it (an address free
\* and the pod interface without one, an address to take over, an entry to
\* remove) still holds.  An entry to be rolled back was written under a later
\* version than the one in hand, so the first rollback attempt, made on that
\* object, always conflicts.
SnapshotInv == \A a \in Attachments : Snapshot(a, call[a], pools)

\* Without failures and with enough attempts, the rollback of a failed ADD
\* leaves nothing behind: neither entries of the ranges that had succeeded nor
\* their reservations.
FailedLeavesNothing ==
  \A a \in Attachments : call[a].pc = "failed" =>
    /\ \A p \in Pools, ip \in IPs : pools[p].alloc[ip] # a
    /\ ~Superseded(a) => \A ip \in IPs : orips[ip] # None => orips[ip].ref # Ref[a]

\* Two pod interfaces that are up do not share an address, even when their
\* pools overlap (enable_overlapping_ranges).
NoDuplicateIP ==
  \A a, b \in Attachments :
    call[a].pc = "up" /\ call[b].pc = "up" /\ Ref[a] # Ref[b] =>
      \A i \in DOMAIN call[a].results, j \in DOMAIN call[b].results :
        call[a].results[i] # call[b].results[j]

\* An address that is up is reserved for its pod interface cluster-wide.
UpIsReserved ==
  \A a \in Attachments : call[a].pc = "up" /\ ~Superseded(a) =>
    \A i \in DOMAIN call[a].results :
      LET r == orips[call[a].results[i]] IN r # None /\ r.ref = Ref[a]

\* A DEL that reported success leaves no reservation of its pod interface.
GoneIsUnreserved ==
  \A a \in Attachments : call[a].pc = "gone" /\ ~Superseded(a) =>
    \A ip \in IPs : orips[ip] # None => orips[ip].ref # Ref[a]

\* What FailedLeavesNothing, NoDuplicateIP, UpIsReserved and GoneIsUnreserved
\* presuppose: the attachments are of different pod interfaces; no request
\* fails, no call is killed, and a rollback does not lose its last attempt to a
\* conflict; and no ADD returns an address of a range that ran out of attempts.
DistinctPods == \A a, b \in Attachments : Ref[a] = Ref[b] => a = b

Undisturbed ==
  /\ faults = 0
  /\ \A a \in Attachments :
       call[a].pc = "rbpatch" /\ ~(call[a].rbtry < RollbackRetries) =>
         VersionMatches(PoolOf(a, Head(call[a].rbq).idx), call[a].snap)

NoneExhausted == \A a \in Attachments : call[a].pc = "up" => ~call[a].exhausted

\* The deletion of a stale reservation removes the reservation that was
\* observed, not a newer one made between the read and the delete.
StaleDeleteIsGuarded ==
  [][\A a \in Attachments :
       At(a, "staledel") /\ call'[a].pc # "staledel" /\ orips'[call[a].ip] # orips[call[a].ip]
         => orips[call[a].ip].uid = call[a].uid]_vars

\* Every CNI call returns: retry and rollback loops are bounded, whatever the
\* other calls do and whichever requests fail.
CallsReturn == \A a \in Attachments : (call[a].pc \notin Ended) ~> (call[a].pc \in Ended)

Holder  == [p \in Pools |-> pools[p].alloc]
Running == [a \in Attachments |-> IF call[a].pc \in Ended THEN None ELSE call[a].mode]

A == INSTANCE Allocator WITH holder <- Holder, running <- Running

\* The pools, seen through their allocation maps, and the calls, seen as
\* running or not, behave as Allocator: Update with its resourceVersion test
\* turns each multi-request call into single reservations, take-overs and
\* releases, and no call releases what is recorded for another container.
ImplementsAllocator == A!Spec

-----------------------------------------------------------------------------
(* What the repository says of the code and TLC refutes; see README.md.    *)

\* NoDuplicateIP for calls that did not run out of attempts: an address whose pod
\* interface passes from one sandbox to the next is not given to another pod
\* by the DEL of the old one, which may delete the reservation after the entry.
HandoverKeepsUnique ==
  \A a, b \in Attachments :
    /\ call[a].pc = "up" /\ call[b].pc = "up" /\ Ref[a] # Ref[b]
    /\ ~call[a].exhausted /\ ~call[b].exhausted
    => \A i \in DOMAIN call[a].results, j \in DOMAIN call[b].results :
         call[a].results[i] # call[b].results[j]
=============================================================================
