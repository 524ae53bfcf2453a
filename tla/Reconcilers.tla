---------------------------- MODULE Reconcilers ----------------------------
(***************************************************************************)
(* The IPPool and OverlappingRangeIPReservation reconcilers of             *)
(* internal/controller, with the PatchHelper they write through, running   *)
(* beside pods that come and go and beside the CNI plugin.                 *)
(*                                                                         *)
(* The manager's client reads from informer caches that lag behind the API *)
(* server, each kind of object on its own, and writes to the API server.   *)
(* A reconciler step is one cached read or one request.  One reconcile of  *)
(* each kind runs at a time (MaxConcurrentReconciles 1), and every result  *)
(* asks for another one, so a reconcile may begin whenever none runs.      *)
(*                                                                         *)
(* An address is named by its key, the offset in the pool.  Resource       *)
(* versions are only ever compared for equality with the stored object:    *)
(* "fresh" says that a copy still has the stored version.                  *)
(***************************************************************************)
EXTENDS Naturals, FiniteSets

CONSTANTS
  Pods,                 \* well-formed podRefs
  EmptyRef, BadRef,     \* an absent podRef, one that parsePodRef rejects
  IfNames, Keys,
  Environments,         \* what env may be
  MaxUID, MaxSandbox,   \* bounds
  None

VARIABLES
  env,                   \* the operator's flags and what may happen, constant
  pods, pool, orips,     \* objects of the API server
  cpods, cpool, corips,  \* the informer caches
  fresh,                 \* cpool has the stored resourceVersion
  att,                   \* att[c]: the attachment of sandbox c
  rec,                   \* the IPPool reconcile in progress
  orec,                  \* the reservation reconcile in progress
  svc,                   \* the service CIDR the pool's range overlaps, or None
  ids                    \* UIDs given to pods and reservations, restarts, faults

world == <<pods, pool, orips, att>>
caches == <<cpods, cpool, corips, fresh>>
vars == <<pods, pool, orips, cpods, cpool, corips, fresh, att, rec, orec, svc, ids>>
-----------------------------------------------------------------------------
(* Objects                                                                 *)

Refs == Pods \cup {EmptyRef, BadRef}
NetworkStatus == {None} \cup [ips : SUBSET (Keys \X IfNames)]
Pod == [uid : 1..MaxUID, phase : {"Pending", "Running", "Completed", "NodeLost"},
        terminating : BOOLEAN, disrupted : BOOLEAN, nets : NetworkStatus]

\* IPAllocation: container ID, podRef and interface name.
IPAllocation == [cid : 0..MaxSandbox, podRef : Refs, ifName : IfNames]
Allocations == [Keys -> IPAllocation \cup {None}]
\* IPPoolStatus: the number of allocations and the condition; the other fields
\* are computed from the same copy of the pool, in module Ranges.
IPPoolStatus == [used : 0..Cardinality(Keys), cond : {"none", "Reconciling", "Ready"}]
IPPool == [alloc : Allocations, finalizer : BOOLEAN, deleting : BOOLEAN,
           marker : env.ServiceCIDRs \cup {None}, status : IPPoolStatus]
Reservation == [id : Nat, podRef : Refs, ifName : IfNames, podUID : 0..MaxUID,
                ready : BOOLEAN]

NoStatus == [used |-> 0, cond |-> "none"]
Used(alloc) == {k \in Keys : alloc[k] # None}

Attachment == [podRef : Pods, ifName : IfNames, uid : 1..MaxUID, key : Keys,
               created : BOOLEAN,
               st : {"unreserved", "adding", "up", "deleting", "gone"}]

Idle == [pc |-> "idle"]
Working == {"judge", "list", "refetch", "delete", "finish", "patch", "status"}

\* Objects of earlier versions: without a podRef, or with one that does not
\* parse.
LegacyRefs == IF env.Legacy THEN {EmptyRef, BadRef} ELSE {}
LegacyEntries ==
  {None} \cup [cid : {0}, podRef : LegacyRefs, ifName : IfNames]
LegacyReservations ==
  {None} \cup [id : {0}, podRef : LegacyRefs, ifName : IfNames, podUID : {0}, ready : {FALSE}]

Init ==
  /\ env \in Environments
  /\ pods = [p \in Pods |-> None]
  /\ \E e \in LegacyEntries :
       pool = [alloc |-> [k \in Keys |-> e], finalizer |-> ~env.PoolDeletion, deleting |-> FALSE,
               marker |-> None, status |-> NoStatus]
  /\ \E o \in LegacyReservations : orips = [k \in Keys |-> o]
  /\ cpods = pods /\ cpool = pool /\ corips = orips /\ fresh = TRUE
  /\ att = [c \in 1..MaxSandbox |-> None]
  /\ rec = Idle /\ orec = Idle
  /\ svc \in env.ServiceCIDRs \cup {None}
  /\ ids = [pod |-> 0, orip |-> 0, restarts |-> 0, faults |-> 0]

\* Every write of the pool leaves the copies others hold behind.
Outdated(r) == IF r.pc = "idle" THEN r ELSE [r EXCEPT !.fresh = FALSE]
WritePool(p) ==
  /\ pool' = p
  /\ fresh' = (IF p = pool THEN fresh ELSE FALSE)
  /\ rec' = (IF p = pool THEN rec ELSE Outdated(rec))
-----------------------------------------------------------------------------
(* The cluster: pods, informers, the operator process.                     *)

CreatePod(p) ==
  /\ pods[p] = None /\ ids.pod < env.pods
  /\ pods' = [pods EXCEPT ![p] = [uid |-> ids.pod + 1, phase |-> "Pending",
                terminating |-> FALSE, disrupted |-> FALSE, nets |-> None]]
  /\ ids' = [ids EXCEPT !.pod = @ + 1]
  /\ UNCHANGED <<pool, orips, att, caches, rec, orec, svc>>

Assigned(p) == {<<att[c].key, att[c].ifName>> : c \in {d \in DOMAIN att :
                  att[d] # None /\ att[d].podRef = p /\ pods[p] # None
                  /\ att[d].uid = pods[p].uid /\ att[d].st = "up"}}

\* Kubelet starts the pod once its network is set up, Multus reports the
\* addresses, the pod ends.
PodChanges(p) ==
  /\ pods[p] # None
  /\ \/ /\ "Running" \in env.Phases /\ pods[p].phase = "Pending" /\ Assigned(p) # {}
        /\ pods' = [pods EXCEPT ![p].phase = "Running"]
     \/ /\ env.VerifyNetworkStatus /\ Assigned(p) # {}
        /\ pods[p].nets # [ips |-> Assigned(p)]
        /\ pods' = [pods EXCEPT ![p].nets = [ips |-> Assigned(p)]]
     \/ \E e \in env.Phases \ {"Running"} : /\ pods[p].phase = "Running"
                                          /\ pods' = [pods EXCEPT ![p].phase = e]
     \/ /\ "terminating" \in env.Evictions /\ ~pods[p].terminating
        /\ pods' = [pods EXCEPT ![p].terminating = TRUE]
     \/ /\ "disrupted" \in env.Evictions /\ ~pods[p].disrupted
        /\ pods' = [pods EXCEPT ![p].disrupted = TRUE]
     \/ pods' = [pods EXCEPT ![p] = None]
  /\ UNCHANGED <<pool, orips, att, caches, rec, orec, svc, ids>>

SyncPods ==
  /\ cpods' = pods
  /\ UNCHANGED <<world, cpool, corips, fresh, rec, orec, svc, ids>>

SyncPool ==
  /\ "pool" \in env.Active
  /\ cpool' = pool /\ fresh' = TRUE
  /\ UNCHANGED <<world, cpods, corips, rec, orec, svc, ids>>

SyncOrips ==
  /\ corips' = orips
  /\ UNCHANGED <<world, cpods, cpool, fresh, rec, orec, svc, ids>>

\* The operator is restarted, perhaps with another --service-cidr; what the
\* reconciles held in memory is gone.
Restart ==
  /\ ids.restarts < env.restarts
  /\ ids' = [ids EXCEPT !.restarts = @ + 1]
  /\ rec' = Idle /\ orec' = Idle
  /\ svc' \in env.ServiceCIDRs \cup {None}
  /\ UNCHANGED <<world, caches>>

\* An administrator deletes the pool; the finalizer holds the object back.
DeletePool ==
  /\ env.PoolDeletion /\ pool # None /\ ~pool.deleting
  /\ WritePool(IF pool.finalizer THEN [pool EXCEPT !.deleting = TRUE] ELSE None)
  /\ UNCHANGED <<pods, orips, att, cpods, cpool, corips, orec, svc, ids>>
-----------------------------------------------------------------------------
(* The CNI plugin, one step for each write of an ADD or a DEL; the races   *)
(* between plugin calls are the subject of module IPAM.                    *)

Own(x, p, i) == x # None /\ x.podRef = p /\ x.ifName = i
Stale(o, uid) == o.podUID # 0 /\ o.podUID # uid

\* AssignIP returns the address the interface has in the pool, or a free one.
Assignable(p, i) ==
  LET own == {k \in Keys : Own(pool.alloc[k], p, i)}
  IN  IF own # {} THEN own ELSE {k \in Keys : pool.alloc[k] = None}

\* ADD of a new sandbox, on address k.
Begins(c, p, i, k) ==
  /\ pool # None /\ pods[p] # None
  /\ pods[p].phase \in {"Pending", "Running"} /\ ~pods[p].terminating
  /\ c <= env.sandboxes /\ att[c] = None /\ \A d \in 1..(c - 1) : att[d] # None
  /\ \A d \in DOMAIN att : ~(Own(att[d], p, i) /\ att[d].uid = pods[p].uid
                             /\ att[d].st # "gone")
  /\ k <= env.keys /\ k \in Assignable(p, i)

\* A stale reservation of the podRef and interface is deleted before the pool
\* is written.
AddStale(c, p, i, k) ==
  /\ Begins(c, p, i, k) /\ Own(orips[k], p, i) /\ Stale(orips[k], pods[p].uid)
  /\ att' = [att EXCEPT ![c] = [podRef |-> p, ifName |-> i, uid |-> pods[p].uid, key |-> k,
                                created |-> FALSE, st |-> "unreserved"]]
  /\ orips' = [orips EXCEPT ![k] = None]
  /\ UNCHANGED <<pods, pool, caches, rec, orec, svc, ids>>

\* The entry is written, with the container ID of this sandbox even when the
\* interface has one.  It is written only to the pool that was read; reading
\* the reservation just before makes no difference to anybody else.  The pod's
\* own reservation makes a new one unnecessary.
AddPool(c, p, i, k) ==
  LET found == att[c] = None /\ orips[k] # None
  IN  /\ \/ /\ Begins(c, p, i, k)
            /\ found => Own(orips[k], p, i) /\ ~Stale(orips[k], pods[p].uid)
         \/ /\ Own(att[c], p, i) /\ att[c].key = k /\ att[c].st = "unreserved"
            /\ pool # None /\ k \in Assignable(p, i)
      /\ att' = [att EXCEPT ![c] =
           [podRef |-> p, ifName |-> i, key |-> k,
            uid |-> IF att[c] = None THEN pods[p].uid ELSE att[c].uid,
            created |-> ~found /\ pool.alloc[k] = None,
            st |-> IF found THEN "up" ELSE "adding"]]
      /\ WritePool([pool EXCEPT !.alloc[k] = [cid |-> c, podRef |-> p, ifName |-> i]])
      /\ UNCHANGED <<pods, orips, cpods, cpool, corips, orec, svc, ids>>

\* The write is refused because the pool has changed, or fails; the call, or a
\* later one, begins again.
AddRefused(c) ==
  /\ att[c] # None /\ att[c].st = "unreserved"
  /\ att' = [att EXCEPT ![c] = None]
  /\ UNCHANGED <<pods, pool, orips, caches, rec, orec, svc, ids>>

Holds(c) == pool # None /\ pool.alloc[att[c].key] # None /\ pool.alloc[att[c].key].cid = c
Release(c) == WritePool([pool EXCEPT !.alloc[att[c].key] = None])

\* The reservation is created; if another call was first, ADD takes back the
\* entry it created and begins again.
AddOrip(c) ==
  LET a == att[c]
  IN  /\ a # None /\ a.st = "adding"
      /\ \/ /\ orips[a.key] = None
            /\ orips' = [orips EXCEPT ![a.key] =
                 [id |-> ids.orip + 1, podRef |-> a.podRef, ifName |-> a.ifName,
                  podUID |-> a.uid, ready |-> FALSE]]
            /\ ids' = [ids EXCEPT !.orip = @ + 1]
            /\ att' = [att EXCEPT ![c].st = "up", ![c].created = FALSE]
            /\ UNCHANGED <<pool, fresh, rec>>
         \/ /\ orips[a.key] # None
            /\ att' = [att EXCEPT ![c] = None]
            /\ IF a.created /\ Holds(c) THEN Release(c) ELSE UNCHANGED <<pool, fresh, rec>>
            /\ UNCHANGED <<orips, ids>>
      /\ UNCHANGED <<pods, cpods, cpool, corips, orec, svc>>

\* DEL of a sandbox removes the entry of its container; a DEL that finds none
\* leaves the reservations alone.
Del(c) ==
  /\ att[c] # None /\ att[c].st = "up"
  /\ \/ /\ Holds(c) /\ Release(c)
        /\ att' = [att EXCEPT ![c].st = "deleting"]
     \/ /\ ~Holds(c)
        /\ att' = [att EXCEPT ![c].st = "gone"]
        /\ UNCHANGED <<pool, fresh, rec>>
  /\ UNCHANGED <<pods, orips, cpods, cpool, corips, orec, svc, ids>>

\* Then the reservation of the address, unless it names another pod UID.
DelOrip(c) ==
  LET a == att[c]
  IN  /\ a # None /\ a.st = "deleting"
      /\ att' = [att EXCEPT ![c].st = "gone"]
      /\ orips' = IF orips[a.key] # None /\ ~Stale(orips[a.key], a.uid)
                  THEN [orips EXCEPT ![a.key] = None] ELSE orips
      /\ UNCHANGED <<pods, pool, caches, rec, orec, svc, ids>>
-----------------------------------------------------------------------------
(* Which allocations are orphans                                           *)

\* isPodUsingIP: without a readable annotation the address counts as in use; a
\* blank one reports no address.  Interface names are not empty here.
isPodUsingIP(pod, k, i) == pod.nets = None \/ <<k, i>> \in pod.nets.ips

isPodMarkedForDeletion(pod) == pod.disrupted
isPodCompleted(pod) == pod.phase = "Completed"
isPodLostToNodeFailure(pod) == pod.phase = "NodeLost"

\* The checks both reconcilers make of the pod they found.
PodGone(pod) ==
  \/ pod = None
  \/ env.CleanupDisrupted /\ isPodMarkedForDeletion(pod)
  \/ env.CleanupTerminating /\ pod.terminating
  \/ isPodCompleted(pod)
  \/ isPodLostToNodeFailure(pod)

PodOf(ref, cache) == IF ref \in Pods THEN cache[ref] ELSE None

\* Mutant: an allocation whose pod is not found is left alone.
OrphanedIfFound(e, k, cache) ==
  \/ e.podRef \in {EmptyRef, BadRef}
  \/ PodOf(e.podRef, cache) # None /\ PodGone(PodOf(e.podRef, cache))

\* Mutant: allocations without a podRef are left alone.
OrphanedNamed(e, k, cache) ==
  e.podRef # EmptyRef /\ PodGone(PodOf(e.podRef, cache))

\* The allocations Reconcile collects: no usable podRef, the pod gone, or a
\* pod past Pending that does not report the address.
Orphaned(e, k, cache) ==
  \/ e.podRef \in {EmptyRef, BadRef}
  \/ PodGone(PodOf(e.podRef, cache))
  \/ /\ PodOf(e.podRef, cache).phase # "Pending"
     /\ env.VerifyNetworkStatus /\ ~isPodUsingIP(PodOf(e.podRef, cache), k, e.ifName)

Pending(e, k, cache) ==
  LET pod == PodOf(e.podRef, cache)
  IN  ~Orphaned(e, k, cache) /\ pod # None /\ pod.phase = "Pending"
-----------------------------------------------------------------------------
(* IPPoolReconciler.Reconcile                                              *)

\* The API server refuses a request, or the answer is lost.
Fault == ids.faults < env.faults /\ ids' = [ids EXCEPT !.faults = @ + 1]

\* Mutant: a marker of an overlap that is gone is kept.
recordServiceCIDROverlapKeeps(p) == IF svc = None THEN p.marker ELSE svc

\* recordServiceCIDROverlap: the marker the pool should carry.
recordServiceCIDROverlap(p) == svc

\* The cached pool is read.  An active pool without the finalizer gets it; a
\* pool being deleted is finalized; otherwise its allocations are judged.
Start ==
  /\ rec.pc = "idle" /\ cpool # None /\ "pool" \in env.Active
  /\ \/ /\ cpool.deleting /\ cpool.finalizer
        /\ rec' = [pc |-> IF Used(cpool.alloc) = {} THEN "finish" ELSE "list",
                   base |-> cpool, fresh |-> fresh, todo |-> {},
                   orphans |-> Used(cpool.alloc), pending |-> {}, items |-> {},
                   marker |-> cpool.marker, target |-> None, err |-> FALSE]
     \/ /\ ~cpool.deleting /\ ~cpool.finalizer
        /\ rec' = [pc |-> "finish", base |-> cpool, fresh |-> fresh, todo |-> {},
                   orphans |-> {}, pending |-> {}, items |-> {},
                   marker |-> cpool.marker, target |-> None, err |-> FALSE]
     \/ /\ ~cpool.deleting /\ cpool.finalizer
        /\ rec' = [pc |-> IF Used(cpool.alloc) = {} THEN "patch" ELSE "judge",
                   base |-> cpool, fresh |-> fresh, todo |-> Used(cpool.alloc), orphans |-> {}, pending |-> {},
                   items |-> {}, marker |-> recordServiceCIDROverlap(cpool),
                   target |-> None, err |-> FALSE]
  /\ UNCHANGED <<world, caches, orec, svc, ids>>

\* One allocation is checked against the pod cache.  After the last one the
\* reservations of the orphans go first, the pool is written after.
Judge(k) ==
  LET orphans == IF Orphaned(rec.base.alloc[k], k, cpods) THEN {k} ELSE {}
      pending == IF Pending(rec.base.alloc[k], k, cpods) THEN {k} ELSE {}
      all == rec.orphans \cup orphans
  IN  /\ rec.pc = "judge" /\ k \in rec.todo
      /\ rec' = [rec EXCEPT !.todo = @ \ {k}, !.orphans = all,
                   !.pending = @ \cup pending,
                   !.pc = IF rec.todo # {k} THEN @ ELSE IF all = {} THEN "patch" ELSE "list"]
      /\ UNCHANGED <<world, caches, orec, svc, ids>>

\* A failed pod read ends the reconcile with an error.
JudgeFails ==
  /\ rec.pc = "judge" /\ \E k \in rec.todo : rec.base.alloc[k].podRef \in Pods
  /\ Fault /\ rec' = Idle
  /\ UNCHANGED <<world, caches, orec, svc>>

\* Mutant: the owner of the reservation is not compared.
SameOwnerAny(e, o) == o # None

\* podRef and interface of the allocation and of its reservation agree.
SameOwner(e, o) ==
  o # None /\ e.podRef # EmptyRef /\ o.podRef = e.podRef /\ o.ifName = e.ifName

\* cleanupOverlappingReservations lists the cached reservations.
List ==
  /\ rec.pc = "list"
  /\ rec' = [rec EXCEPT !.pc = "refetch",
       !.items = {k \in rec.orphans : SameOwner(rec.base.alloc[k], corips[k])}]
  /\ UNCHANGED <<world, caches, orec, svc, ids>>

ListFails ==
  /\ rec.pc = "list"
  /\ Fault /\ rec' = Idle
  /\ UNCHANGED <<world, caches, orec, svc>>

\* The reservation is read again, from the cache, and its owner compared again.
Refetch(k) ==
  /\ rec.pc = "refetch" /\ k \in rec.items
  /\ \/ /\ SameOwner(rec.base.alloc[k], corips[k])
        /\ rec' = [rec EXCEPT !.pc = "delete", !.target = [key |-> k, id |-> corips[k].id]]
        /\ UNCHANGED ids
     \/ /\ ~SameOwner(rec.base.alloc[k], corips[k])
        /\ rec' = [rec EXCEPT !.items = @ \ {k}]
        /\ UNCHANGED ids
     \/ /\ Fault
        /\ rec' = [rec EXCEPT !.items = @ \ {k}, !.err = TRUE]
  /\ UNCHANGED <<world, caches, orec, svc>>

\* Mutant: the delete carries no UID precondition.
PreconditionNone(id, o) == o # None

\* The UID precondition of the delete.
Precondition(id, o) == o # None /\ o.id = id

\* The delete: NotFound is success, a failed precondition an error to retry.
DeleteReservation ==
  LET k == rec.target.key
      o == orips[k]
      next == [rec EXCEPT !.pc = "refetch", !.items = @ \ {k}, !.target = None]
  IN  /\ rec.pc = "delete"
      /\ \/ /\ o = None /\ rec' = next
            /\ UNCHANGED <<orips, ids>>
         \/ /\ Precondition(rec.target.id, o)
            /\ orips' = [orips EXCEPT ![k] = None]
            /\ rec' = next /\ UNCHANGED ids
         \/ /\ o # None /\ ~Precondition(rec.target.id, o)
            /\ rec' = [next EXCEPT !.err = TRUE]
            /\ UNCHANGED <<orips, ids>>
         \/ /\ Fault /\ rec' = [next EXCEPT !.err = TRUE]
            /\ UNCHANGED orips
      /\ UNCHANGED <<pods, pool, att, caches, orec, svc>>

\* Mutant: a reconcile whose clean-up met an error goes round without retry.
CleanedNever ==
  /\ rec.pc = "refetch" /\ rec.items = {} /\ ~rec.err
  /\ rec' = [rec EXCEPT !.pc = IF rec.base.deleting THEN "finish" ELSE "patch"]
  /\ UNCHANGED <<world, caches, orec, svc, ids>>

\* All reservations are dealt with.  After an error the reconcile ends, to be
\* repeated after retryRequeueInterval, and the pool is not written.
Cleaned ==
  /\ rec.pc = "refetch" /\ rec.items = {}
  /\ rec' = IF rec.err THEN Idle
            ELSE [rec EXCEPT !.pc = IF rec.base.deleting THEN "finish" ELSE "patch"]
  /\ UNCHANGED <<world, caches, orec, svc, ids>>

\* The finalizer is added or removed with an Update that carries the
\* resourceVersion that was read; a pool being deleted is then gone.
Finish ==
  /\ rec.pc = "finish"
  /\ rec' = Idle
  /\ \/ /\ pool # None /\ rec.fresh
        /\ pool' = IF rec.base.deleting THEN None ELSE [pool EXCEPT !.finalizer = TRUE]
        /\ fresh' = FALSE
        /\ UNCHANGED ids
     \/ /\ pool = None \/ ~rec.fresh
        /\ UNCHANGED <<pool, fresh, ids>>
     \/ Fault /\ UNCHANGED <<pool, fresh>>
  /\ UNCHANGED <<pods, orips, att, cpods, cpool, corips, orec, svc>>
-----------------------------------------------------------------------------
(* computePoolStats, the conditions, and PatchHelper.Patch                 *)

\* removeAllocations: the working copy the status is computed from.
removeAllocations(alloc, keys) == [k \in Keys |-> IF k \in keys THEN None ELSE alloc[k]]

computePoolStats(alloc) == Cardinality(Used(alloc))

\* markReady, or markReconciling while pods of the pool are pending.
Condition(pending) == IF pending = {} THEN "Ready" ELSE "Reconciling"

DesiredStatus ==
  [used |-> computePoolStats(removeAllocations(rec.base.alloc, rec.orphans)),
   cond |-> Condition(rec.pending)]

\* jsonEqual on the blobs without status.
SpecChanged == rec.orphans # {} \/ rec.marker # rec.base.marker

\* jsonEqual on the status blobs of splitObject.
StatusChanged == DesiredStatus # rec.base.status

\* The merge patch names the orphans' keys and nothing else: no version, no
\* former value.
MergePatch(p) ==
  [p EXCEPT !.alloc = removeAllocations(@, rec.orphans),
            !.marker = IF rec.marker = rec.base.marker THEN @ ELSE rec.marker]

\* The spec patch; its answer carries the new resourceVersion.  When it fails
\* the status is not written and the error is returned.
SpecPatch ==
  /\ rec.pc = "patch" /\ SpecChanged
  /\ \/ /\ pool # None
        /\ pool' = MergePatch(pool)
        /\ fresh' = (IF pool' = pool THEN fresh ELSE FALSE)
        /\ rec' = [rec EXCEPT !.pc = "status", !.fresh = TRUE]
        /\ UNCHANGED ids
     \/ /\ pool = None /\ rec' = Idle
        /\ UNCHANGED <<pool, fresh, ids>>
     \/ /\ Fault /\ rec' = Idle
        /\ UNCHANGED <<pool, fresh>>
  /\ UNCHANGED <<pods, orips, att, cpods, cpool, corips, orec, svc>>

\* Nothing but the status may have changed.  The conditions were set to
\* Reconciling and back, so the status is written even if its content is the
\* same, unless that happened within the same second.
SpecKept ==
  /\ rec.pc = "patch" /\ ~SpecChanged
  /\ \/ rec' = [rec EXCEPT !.pc = "status"]
     \/ ~StatusChanged /\ rec' = Idle
  /\ UNCHANGED <<world, caches, orec, svc, ids>>

\* Mutant: the status is written whatever the version.
VersionMatchesAlways(r) == TRUE

\* Status().Update carries a resourceVersion.
VersionMatches(r) == r.fresh

StatusUpdate ==
  /\ rec.pc = "status"
  /\ rec' = Idle
  /\ \/ /\ pool # None /\ VersionMatches(rec)
        /\ pool' = [pool EXCEPT !.status = DesiredStatus]
        /\ fresh' = FALSE
        /\ UNCHANGED ids
     \/ /\ pool = None \/ ~VersionMatches(rec)
        /\ UNCHANGED <<pool, fresh, ids>>
     \/ Fault /\ UNCHANGED <<pool, fresh>>
  /\ UNCHANGED <<pods, orips, att, cpods, cpool, corips, orec, svc>>
-----------------------------------------------------------------------------
(* OverlappingRangeReconciler.Reconcile                                    *)

OripStart(k) ==
  /\ orec.pc = "idle" /\ "orip" \in env.Active
  /\ corips[k] # None /\ corips[k].podRef # EmptyRef
  /\ orec' = [pc |-> "judge", key |-> k, res |-> corips[k], pod |-> None]
  /\ UNCHANGED <<world, caches, rec, svc, ids>>

\* Mutant: the pod UID is not compared.
OripGoneAnyUID(o, pod) == PodGone(pod)

OripGone(o, pod) == PodGone(pod) \/ (o.podUID # 0 /\ o.podUID # pod.uid)

OripJudge ==
  /\ orec.pc = "judge"
  /\ \/ /\ orec' = [orec EXCEPT !.pod = PodOf(orec.res.podRef, cpods),
                                !.pc = IF OripGone(orec.res, PodOf(orec.res.podRef, cpods))
                                       THEN "delete" ELSE "ready"]
        /\ UNCHANGED ids
     \/ orec.res.podRef \in Pods /\ Fault /\ orec' = Idle
  /\ UNCHANGED <<world, caches, rec, svc>>

\* deleteReservation, with the UID precondition.
OripDelete ==
  /\ orec.pc = "delete" /\ orec' = Idle
  /\ \/ /\ Precondition(orec.res.id, orips[orec.key])
        /\ orips' = [orips EXCEPT ![orec.key] = None] /\ UNCHANGED ids
     \/ /\ ~Precondition(orec.res.id, orips[orec.key])
        /\ UNCHANGED <<orips, ids>>
     \/ Fault /\ UNCHANGED orips
  /\ UNCHANGED <<pods, pool, att, caches, rec, svc>>

\* markReady and the status update; the cached version must be the stored one.
OripReady ==
  /\ orec.pc = "ready" /\ orec' = Idle
  /\ \/ /\ orips[orec.key] = orec.res
        /\ orips' = [orips EXCEPT ![orec.key].ready = TRUE] /\ UNCHANGED ids
     \/ /\ orips[orec.key] # orec.res
        /\ UNCHANGED <<orips, ids>>
     \/ Fault /\ UNCHANGED orips
  /\ UNCHANGED <<pods, pool, att, caches, rec, svc>>

ReconcilePool ==
  \/ Start \/ List \/ Cleaned \/ DeleteReservation \/ Finish
  \/ SpecPatch \/ SpecKept \/ StatusUpdate
  \/ \E k \in Keys : Judge(k) \/ Refetch(k)
ReconcileOrip == OripJudge \/ OripDelete \/ OripReady \/ \E k \in Keys : OripStart(k)

Cluster ==
  \/ \E p \in Pods : CreatePod(p) \/ PodChanges(p)
  \/ SyncPods \/ SyncPool \/ SyncOrips \/ Restart \/ DeletePool

Plugin ==
  \E c \in 1..MaxSandbox :
    \/ AddRefused(c) \/ AddOrip(c) \/ Del(c) \/ DelOrip(c)
    \/ \E p \in Pods, i \in IfNames, k \in Keys : AddStale(c, p, i, k) \/ AddPool(c, p, i, k)

Next ==
  /\ UNCHANGED env
  /\ ReconcilePool \/ JudgeFails \/ ListFails \/ ReconcileOrip \/ Cluster \/ Plugin
Spec == Init /\ [][Next]_<<env, vars>>

\* The workqueue keeps calling the reconcilers, and the informers keep up.
Fairness ==
  /\ WF_vars(ReconcilePool) /\ WF_vars(ReconcileOrip)
  /\ WF_vars(SyncPods) /\ WF_vars(SyncPool) /\ WF_vars(SyncOrips)
FairSpec == Spec /\ Fairness
-----------------------------------------------------------------------------
(* Properties                                                              *)

Rec ==
  [pc : {"idle"}] \cup
  [pc : Working, base : IPPool, fresh : BOOLEAN, todo : SUBSET Keys,
   orphans : SUBSET Keys, pending : SUBSET Keys, items : SUBSET Keys,
   marker : env.ServiceCIDRs \cup {None}, target : [key : Keys, id : Nat] \cup {None},
   err : BOOLEAN]

\* Type invariant of the objects, the caches and both reconciles.
TypeOK ==
  /\ pods \in [Pods -> Pod \cup {None}] /\ cpods \in [Pods -> Pod \cup {None}]
  /\ pool \in IPPool \cup {None} /\ cpool \in IPPool \cup {None}
  /\ orips \in [Keys -> Reservation \cup {None}]
  /\ corips \in [Keys -> Reservation \cup {None}]
  /\ fresh \in BOOLEAN
  /\ att \in [1..MaxSandbox -> Attachment \cup {None}]
  /\ rec \in Rec
  /\ orec \in [pc : {"idle"}] \cup
              [pc : {"judge", "delete", "ready"}, key : Keys, res : Reservation,
               pod : Pod \cup {None}]
  /\ svc \in env.ServiceCIDRs \cup {None}

Healthy(pod) == pod # None /\ pod.phase \in {"Pending", "Running"}
                /\ ~pod.terminating /\ ~pod.disrupted

\* An attachment that was given an address and whose pod is alive.
Live(c) == /\ att[c] # None /\ att[c].st = "up"
           /\ Healthy(pods[att[c].podRef]) /\ pods[att[c].podRef].uid = att[c].uid

PoolDeletes == rec.pc = "delete" /\ rec'.pc # "delete"
OripDeletes == orec.pc = "delete" /\ orec'.pc = "idle"
PoolPatches == rec.pc = "patch" /\ rec'.pc = "status"

\* cleanupOverlappingReservations removes a reservation only if it names the
\* podRef and the interface of the allocation it judged, and deleteReservation
\* only the object it judged, whatever replaced them since they were read.
DeletesWhatItJudged ==
  [][\A k \in Keys : orips'[k] # orips[k] =>
       /\ PoolDeletes => /\ orips[k].podRef = rec.base.alloc[k].podRef
                         /\ orips[k].ifName = rec.base.alloc[k].ifName
       /\ OripDeletes => orips[k].id = orec.res.id]_vars

\* A reservation that names a pod which is alive, by podRef and UID.
NamesLivePod(o) == o # None /\ o.podRef \in Pods /\ Healthy(pods[o.podRef])
                   /\ pods[o.podRef].uid = o.podUID

\* The reservation reconciler takes the reservation of a pod that is alive only
\* if the pod cache it judged by had not caught up with the pod the reservation
\* names: it had no pod of that name, or an earlier one.  Pods of the same name,
\* and reservations of the same address that replaced the one it judged, are
\* safe whatever the other caches hold.
LiveReservationKept ==
  [][OripDeletes => \A k \in Keys :
       NamesLivePod(orips[k]) /\ orips'[k] # orips[k] =>
         orec.pod = None \/ orec.pod.uid < orec.res.podUID]_vars

\* PatchHelper: when a status is written, the orphans it reports as cleaned
\* are gone from the spec, and one that reports none counts the allocations
\* the spec has.
PublishedStatus ==
  [][(rec.pc = "status" /\ pool' # pool /\ rec'.pc = "idle") =>
       /\ \A k \in rec.orphans : pool.alloc[k] = None
       /\ ~SpecChanged => pool'.status.used = Cardinality(Used(pool.alloc))]_vars

Entries(p) == IF pool = None THEN {} ELSE {k \in Keys : pool.alloc[k] # None
                                                      /\ pool.alloc[k].podRef = p}
Reservations(p) == {k \in Keys : orips[k] # None /\ orips[k].podRef = p}

\* When a pod is gone for good - absent, completed, evicted, lost with its node -
\* its entries are released by the IPPool reconciler alone, though requests fail
\* and the operator restarts in the middle; so are entries that name no pod that
\* could exist.
EntriesReleased ==
  /\ \A p \in Pods : <>[]("pool" \in env.Active /\ PodGone(pods[p])) => <>[](Entries(p) = {})
  /\ <>[](Entries(EmptyRef) = {} /\ Entries(BadRef) = {})

\* Likewise its reservations, by the reservation reconciler alone; of pods of
\* one name only the reservation of the one that lives can stay.  A reservation
\* without a podRef is kept.
ReservationsReleased ==
  \A p \in Pods :
    /\ <>[]("orip" \in env.Active /\ PodGone(pods[p])) => <>[](Reservations(p) = {})
    /\ \A u \in 1..MaxUID :
         <>[]("orip" \in env.Active /\ pods[p] # None /\ pods[p].uid = u) =>
         <>[](\A k \in Reservations(p) : orips[k].podUID = u)

\* The finalizer never keeps a deleted pool for ever, though conflicts, failed
\* requests and stale caches send Reconcile round again.
DeletionEnds == (pool # None /\ pool.deleting) ~> (pool = None)

\* The status and the overlap marker settle on what the spec and the operator's
\* configuration say.
StatusConverges ==
  <>[](pool # None /\ "pool" \in env.Active =>
                      /\ pool.status.used = Cardinality(Used(pool.alloc))
                      /\ pool.marker = svc)

-----------------------------------------------------------------------------
(* What the repository says of the code and TLC refutes; see README.md.    *)

\* "removes orphaned entries": an entry the reconciler removes is not one that
\* a live pod was given.
EntryOfLivePodKept ==
  [][PoolPatches => \A c \in DOMAIN att :
       Live(c) /\ Own(pool.alloc[att[c].key], att[c].podRef, att[c].ifName)
         => pool'.alloc[att[c].key] # None]_vars

\* "deleting reservations whose pods no longer exist": the reservation of a pod
\* that is alive is kept.  The pod cache may not have the pod yet.
ReservationOfLivePodKept ==
  [][OripDeletes => \A k \in Keys : NamesLivePod(orips[k]) => orips'[k] = orips[k]]_vars

\* "to ensure overlapping range reservations are cleaned up before an IPPool is
\* deleted": once the finalizer is set, the pool goes only when none of its
\* entries has a reservation left.
FinalizerCleans ==
  [][(pool # None /\ pool' = None /\ pool.finalizer) =>
       \A k \in Used(pool.alloc) : ~Own(orips[k], pool.alloc[k].podRef, pool.alloc[k].ifName)]_vars

\* No two live pods hold the same address: the reservation of a pod guards its
\* address even when the pool entry was removed under it.
UniqueAddress ==
  \A c, d \in DOMAIN att : c # d /\ Live(c) /\ Live(d) => att[c].key # att[d].key
=============================================================================
