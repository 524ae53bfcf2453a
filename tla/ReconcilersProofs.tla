------------------------- MODULE ReconcilersProofs -------------------------
(***************************************************************************)
(* What the reconcilers may do, proved for all pods, interfaces, addresses *)
(* and environments.                                                       *)
(*                                                                         *)
(* PublishedStatus rests on StatusInv: what "fresh" says of the cached     *)
(* pool and of the copy a reconcile works on.  DeletesWhatItJudged rests   *)
(* on IdentityInv: an id names one reservation for ever, so the copy that  *)
(* was judged and the object that carries its id agree on their owner.     *)
(* LiveReservationKept rests on PodInv: the pod that was judged is an      *)
(* earlier state of the stored one or an earlier pod, and a pod does not   *)
(* recover.                                                                *)
(***************************************************************************)
EXTENDS Reconcilers, TLAPS

PoolFields == {"alloc", "finalizer", "deleting", "marker", "status"}
PoolShape(x) == x # None => DOMAIN x = PoolFields /\ DOMAIN x.alloc = Keys

RecFields == {"pc", "base", "fresh", "todo", "orphans", "pending", "items", "marker",
              "target", "err"}
RecShape(r) ==
  \/ r = Idle
  \/ /\ r.pc \in Working /\ DOMAIN r = RecFields
     /\ r.orphans \subseteq Keys /\ PoolShape(r.base)

\* What a copy with the stored resourceVersion says of the stored pool.
Faithful(r, p) ==
  /\ r.pc \in Working \ {"status"} /\ r.fresh => p = r.base
  /\ r.pc = "status" /\ r.fresh =>
       IF r.orphans # {} \/ r.marker # r.base.marker
       THEN p # None => \A k \in r.orphans : p.alloc[k] = None
       ELSE p = r.base

StatusInv ==
  /\ PoolShape(pool) /\ PoolShape(cpool) /\ RecShape(rec)
  /\ fresh => cpool = pool
  /\ Faithful(rec, pool)
-----------------------------------------------------------------------------
(* The copies of the pool.                                                 *)

LEMMA IdleFacts == RecShape(Idle) /\ Idle.pc = "idle" /\ \A p : Faithful(Idle, p)
BY DEF RecShape, Idle, Faithful, Working

\* A reconcile that goes on works on the same copy.
Progress(r) ==
  /\ r.pc \in Working \ {"status"} /\ DOMAIN r = RecFields
  /\ r.orphans \subseteq Keys /\ r.base = rec.base /\ r.fresh = rec.fresh

LEMMA ProgressKeeps ==
  ASSUME StatusInv, rec.pc \in Working \ {"status"}, Progress(rec'),
         UNCHANGED <<pool, cpool, fresh>>
  PROVE  StatusInv'
<1>1. PoolShape(rec.base)
  BY DEF StatusInv, RecShape, Idle, Working
<1>2. RecShape(rec')
  BY <1>1 DEF Progress, RecShape
<1>3. Faithful(rec', pool)
  BY DEF StatusInv, Faithful, Progress, Working
<1> QED
  BY <1>2, <1>3 DEF StatusInv

\* A reconcile that ends.
LEMMA EndKeeps ==
  ASSUME StatusInv, rec' = Idle, PoolShape(pool'), cpool' = cpool,
         (pool' = pool /\ fresh' = fresh) \/ fresh' = FALSE
  PROVE  StatusInv'
BY IdleFacts DEF StatusInv

\* A write of the pool by anybody else.
LEMMA OutdatedFacts ==
  ASSUME NEW r, RecShape(r)
  PROVE  /\ RecShape(Outdated(r)) /\ \A p : Faithful(Outdated(r), p)
         /\ Outdated(r).pc = r.pc
         /\ r.pc # "idle" => /\ Outdated(r).base = r.base /\ Outdated(r).target = r.target
                             /\ Outdated(r).orphans = r.orphans
<1>1. CASE r = Idle
  BY <1>1, IdleFacts DEF Outdated
<1>2. CASE r # Idle
  <2> DEFINE o == [r EXCEPT !.fresh = FALSE]
  <2>1. /\ r.pc \in Working /\ DOMAIN r = RecFields
        /\ r.orphans \subseteq Keys /\ PoolShape(r.base)
    BY <1>2 DEF RecShape
  <2>2. Outdated(r) = o
    BY <2>1 DEF Outdated, Working
  <2>3. /\ DOMAIN o = RecFields /\ o.pc = r.pc /\ o.base = r.base /\ o.target = r.target
        /\ o.orphans = r.orphans /\ o.fresh = FALSE
    BY <2>1 DEF RecFields
  <2> HIDE DEF o
  <2>4. RecShape(o)
    BY <2>1, <2>3 DEF RecShape
  <2>5. \A p : Faithful(o, p)
    BY <2>3 DEF Faithful
  <2> QED
    BY <2>2, <2>3, <2>4, <2>5
<1> QED
  BY <1>1, <1>2

LEMMA WriteKeeps ==
  ASSUME StatusInv, NEW p, WritePool(p), PoolShape(p), cpool' = cpool
  PROVE  StatusInv'
<1>1. CASE p = pool
  BY <1>1 DEF WritePool, StatusInv
<1>2. CASE p # pool
  <2>1. pool' = p /\ fresh' = FALSE /\ rec' = Outdated(rec)
    BY <1>2 DEF WritePool
  <2> QED
    BY <2>1, OutdatedFacts DEF StatusInv
<1> QED
  BY <1>1, <1>2

\* The plugin and the administrator write pools of the right shape.
LEMMA EntryShape ==
  ASSUME PoolShape(pool), pool # None, NEW k, NEW e
  PROVE  PoolShape([pool EXCEPT !.alloc[k] = e])
BY DEF PoolShape, PoolFields

LEMMA OthersKeepStatus ==
  ASSUME StatusInv, Cluster \/ Plugin \/ ReconcileOrip
  PROVE  StatusInv'
<1>1. ASSUME UNCHANGED <<pool, cpool, fresh, rec>> PROVE StatusInv'
  BY <1>1 DEF StatusInv, Faithful
<1>2. CASE \/ \E p \in Pods : CreatePod(p) \/ PodChanges(p)
           \/ SyncPods \/ SyncOrips \/ ReconcileOrip
  BY <1>1, <1>2, Zenon DEF CreatePod, PodChanges, SyncPods, SyncOrips, ReconcileOrip, OripJudge,
     OripDelete, OripReady, OripStart, world, caches
<1>3. CASE SyncPool
  BY <1>3 DEF SyncPool, StatusInv, world
<1>4. CASE Restart
  BY <1>4, EndKeeps DEF Restart, StatusInv, world, caches
<1>5. CASE DeletePool
  <2>1. PoolShape(IF pool.finalizer THEN [pool EXCEPT !.deleting = TRUE] ELSE None)
    BY <1>5 DEF StatusInv, PoolShape, PoolFields, DeletePool
  <2> QED
    BY <1>5, <2>1, WriteKeeps DEF DeletePool
<1>6. ASSUME NEW c, NEW p, NEW i, NEW k \in Keys, AddPool(c, p, i, k) PROVE StatusInv'
  <2> DEFINE q == [pool EXCEPT !.alloc[k] = [cid |-> c, podRef |-> p, ifName |-> i]]
  <2>1. pool # None /\ WritePool(q) /\ cpool' = cpool
    BY <1>6, Zenon DEF AddPool, Begins
  <2>2. PoolShape(q)
    BY <2>1, EntryShape, Zenon DEF StatusInv
  <2> HIDE DEF q
  <2> QED
    BY <2>1, <2>2, WriteKeeps, Zenon
<1>7. ASSUME NEW c, AddOrip(c) \/ Del(c) PROVE StatusInv'
  <2>1. cpool' = cpool /\ (UNCHANGED <<pool, fresh, rec>> \/ (Holds(c) /\ Release(c)))
    BY <1>7, Zenon DEF AddOrip, Del
  <2>2. CASE Holds(c) /\ Release(c)
    <3>1. PoolShape([pool EXCEPT !.alloc[att[c].key] = None])
      BY <2>2, EntryShape, Zenon DEF StatusInv, Holds
    <3> QED
      BY <2>1, <2>2, <3>1, WriteKeeps, Zenon DEF Release
  <2> QED
    BY <1>1, <2>1, <2>2, Zenon
<1>8. ASSUME NEW c, \/ AddRefused(c) \/ DelOrip(c)
                    \/ \E p \in Pods, i \in IfNames, k \in Keys : AddStale(c, p, i, k)
      PROVE  StatusInv'
  BY <1>1, <1>8, Zenon DEF AddRefused, DelOrip, AddStale, caches
<1> QED
  BY <1>2, <1>3, <1>4, <1>5, <1>6, <1>7, <1>8, Zenon DEF Cluster, Plugin

\* The steps of a reconcile before it writes the pool.
LEMMA WorkKeepsStatus ==
  ASSUME StatusInv,
         \/ Start \/ JudgeFails \/ ListFails \/ List \/ Cleaned \/ DeleteReservation
         \/ \E k \in Keys : Judge(k) \/ Refetch(k)
  PROVE  StatusInv'
<1>1. UNCHANGED <<pool, cpool, fresh>>
  BY Zenon DEF Start, JudgeFails, ListFails, List, Cleaned, DeleteReservation, Judge, Refetch,
     world, caches
<1>2. PoolShape(pool) /\ PoolShape(cpool)
  BY DEF StatusInv
<1>3. ASSUME rec.pc \in Working
      PROVE  DOMAIN rec = RecFields /\ rec.orphans \subseteq Keys
  BY <1>3 DEF StatusInv, RecShape, Idle, Working
<1>4. CASE rec' = Idle
  BY <1>1, <1>2, <1>4, EndKeeps
<1>5. CASE Start
  <2>1. /\ rec'.pc \in {"finish", "list", "patch", "judge"} /\ DOMAIN rec' = RecFields
        /\ rec'.base = cpool /\ rec'.fresh = fresh /\ rec'.orphans \subseteq Keys
    BY <1>5 DEF Start, RecFields, Used
  <2>2. RecShape(rec')
    BY <1>2, <2>1 DEF RecShape, Working
  <2>3. Faithful(rec', pool)
    BY <2>1 DEF Faithful, StatusInv
  <2> QED
    BY <1>1, <2>2, <2>3, Zenon DEF StatusInv
<1>6. ASSUME NEW k \in Keys, Judge(k) PROVE StatusInv'
  <2> DEFINE all == rec.orphans \cup (IF Orphaned(rec.base.alloc[k], k, cpods) THEN {k} ELSE {})
             pend == IF Pending(rec.base.alloc[k], k, cpods) THEN {k} ELSE {}
             pc == IF rec.todo # {k} THEN rec.pc ELSE IF all = {} THEN "patch" ELSE "list"
  <2>1. rec.pc = "judge"
    BY <1>6, Zenon DEF Judge
  <2>2. rec' = [rec EXCEPT !.todo = @ \ {k}, !.orphans = all, !.pending = @ \cup pend, !.pc = pc]
    BY <1>6, Zenon DEF Judge
  <2>3. DOMAIN rec = RecFields /\ rec.orphans \subseteq Keys
    BY <1>3, <2>1 DEF Working
  <2>4. pc \in {"judge", "patch", "list"} /\ all \subseteq Keys
    BY <2>1, <2>3
  <2> HIDE DEF all, pend, pc
  <2>5. Progress(rec')
    BY <2>2, <2>3, <2>4 DEF Progress, RecFields, Working
  <2> QED
    BY <1>1, <2>1, <2>5, ProgressKeeps DEF Working
<1>7. CASE List
  <2>1. rec.pc = "list"
    BY <1>7 DEF List
  <2>2. Progress(rec')
    BY <1>3, <1>7, <2>1 DEF List, Progress, RecFields, Working
  <2> QED
    BY <1>1, <2>1, <2>2, ProgressKeeps DEF Working
<1>8. ASSUME NEW k \in Keys, Refetch(k) PROVE StatusInv'
  <2>1. rec.pc = "refetch"
    BY <1>8, Zenon DEF Refetch
  <2>2. Progress(rec')
    BY <1>3, <1>8, <2>1, ZenonT(60) DEF Refetch, Progress, RecFields, Working
  <2> QED
    BY <1>1, <2>1, <2>2, ProgressKeeps DEF Working
<1>9. CASE DeleteReservation
  <2>1. rec.pc = "delete"
    BY <1>9, Zenon DEF DeleteReservation
  <2>2. Progress(rec')
    BY <1>3, <1>9, <2>1, Zenon DEF DeleteReservation, Progress, RecFields, Working
  <2> QED
    BY <1>1, <2>1, <2>2, ProgressKeeps DEF Working
<1>10. CASE Cleaned /\ rec' # Idle
  <2>1. rec.pc = "refetch"
    BY <1>10 DEF Cleaned
  <2>2. Progress(rec')
    BY <1>3, <1>10, <2>1 DEF Cleaned, Progress, RecFields, Working
  <2> QED
    BY <1>1, <2>1, <2>2, ProgressKeeps DEF Working
<1>11. JudgeFails \/ ListFails => rec' = Idle
  BY DEF JudgeFails, ListFails
<1> QED
  BY <1>4, <1>5, <1>6, <1>7, <1>8, <1>9, <1>10, <1>11, Zenon

\* The steps of a reconcile that write the pool.
LEMMA WritesKeepStatus ==
  ASSUME StatusInv, Finish \/ SpecPatch \/ SpecKept \/ StatusUpdate
  PROVE  StatusInv'
<1>1. cpool' = cpool /\ PoolShape(pool) /\ PoolShape(cpool)
  BY Zenon DEF StatusInv, Finish, SpecPatch, SpecKept, StatusUpdate, caches
<1>2. CASE Finish
  <2>1. rec' = Idle /\ ((pool' = pool /\ fresh' = fresh) \/ fresh' = FALSE)
    BY <1>2, Zenon DEF Finish
  <2>2. PoolShape(pool')
    BY <1>1, <1>2 DEF Finish, PoolShape, PoolFields
  <2> QED
    BY <1>1, <2>1, <2>2, EndKeeps, Zenon
<1>3. CASE StatusUpdate
  <2>1. rec' = Idle /\ ((pool' = pool /\ fresh' = fresh) \/ fresh' = FALSE)
    BY <1>3, Zenon DEF StatusUpdate
  <2>2. PoolShape(pool')
    BY <1>1, <1>3 DEF StatusUpdate, PoolShape, PoolFields
  <2> QED
    BY <1>1, <2>1, <2>2, EndKeeps, Zenon
<1>4. CASE SpecKept /\ rec' # Idle
  <2>1. /\ rec.pc = "patch" /\ ~SpecChanged /\ UNCHANGED <<pool, fresh>>
        /\ rec' = [rec EXCEPT !.pc = "status"]
    BY <1>4, Zenon DEF SpecKept, world, caches
  <2>2. /\ DOMAIN rec = RecFields /\ rec.orphans \subseteq Keys /\ PoolShape(rec.base)
        /\ rec.fresh => pool = rec.base
    BY <2>1 DEF StatusInv, RecShape, Idle, Faithful, Working
  <2>3. /\ rec'.pc = "status" /\ DOMAIN rec' = RecFields /\ rec'.orphans = rec.orphans
        /\ rec'.base = rec.base /\ rec'.marker = rec.marker /\ rec'.fresh = rec.fresh
    BY <2>1, <2>2 DEF RecFields
  <2>4. RecShape(rec') /\ Faithful(rec', pool)
    BY <2>1, <2>2, <2>3 DEF RecShape, Faithful, SpecChanged, Working
  <2> QED
    BY <1>1, <2>1, <2>4 DEF StatusInv
<1>5. CASE SpecPatch /\ rec' # Idle
  <2>1. /\ rec.pc = "patch" /\ SpecChanged /\ pool # None /\ pool' = MergePatch(pool)
        /\ fresh' = (IF pool' = pool THEN fresh ELSE FALSE)
        /\ rec' = [rec EXCEPT !.pc = "status", !.fresh = TRUE]
    BY <1>5, Zenon DEF SpecPatch
  <2>2. DOMAIN rec = RecFields /\ rec.orphans \subseteq Keys /\ PoolShape(rec.base)
    BY <2>1 DEF StatusInv, RecShape, Idle, Working
  <2>3. /\ rec'.pc = "status" /\ DOMAIN rec' = RecFields /\ rec'.orphans = rec.orphans
        /\ rec'.base = rec.base /\ rec'.marker = rec.marker
    BY <2>1, <2>2 DEF RecFields
  <2>4. PoolShape(pool') /\ \A k \in rec.orphans : pool'.alloc[k] = None
    BY <1>1, <2>1, <2>2 DEF MergePatch, removeAllocations, PoolShape, PoolFields
  <2>5. RecShape(rec') /\ Faithful(rec', pool')
    BY <2>1, <2>2, <2>3, <2>4 DEF RecShape, Faithful, SpecChanged, Working
  <2>6. fresh' => cpool' = pool'
    BY <1>1, <2>1, Zenon DEF StatusInv
  <2> QED
    BY <1>1, <2>4, <2>5, <2>6 DEF StatusInv
<1>6. CASE (SpecPatch \/ SpecKept) /\ rec' = Idle
  <2>1. UNCHANGED <<pool, fresh>>
    <3>1. rec.pc = "patch"
      BY <1>6, Zenon DEF SpecPatch, SpecKept
    <3>2. [rec EXCEPT !.pc = "status", !.fresh = TRUE] # Idle
      BY <3>1, Zenon DEF StatusInv, RecShape, Idle, Working, RecFields
    <3> QED
      BY <1>6, <3>2, Zenon DEF SpecPatch, SpecKept, world, caches
  <2> QED
    BY <1>1, <1>6, <2>1, EndKeeps
<1> QED
  BY <1>2, <1>3, <1>4, <1>5, <1>6

LEMMA NextStatus == StatusInv /\ [Next]_<<env, vars>> => StatusInv'
<1> SUFFICES ASSUME StatusInv, [Next]_<<env, vars>> PROVE StatusInv'
  OBVIOUS
<1>1. CASE UNCHANGED <<env, vars>>
  BY <1>1 DEF vars, StatusInv, Faithful
<1>2. CASE ReconcilePool \/ JudgeFails \/ ListFails
  BY <1>2, WorkKeepsStatus, WritesKeepStatus, Zenon DEF ReconcilePool
<1>3. CASE ReconcileOrip \/ Cluster \/ Plugin
  BY <1>3, OthersKeepStatus, Zenon
<1> QED
  BY <1>1, <1>2, <1>3, Zenon DEF Next

\* The plugin leaves the caches and the reservation reconciler alone, and the
\* pool reconciler but for the version of its copy.
LEMMA PluginFrame ==
  ASSUME Plugin
  PROVE  /\ UNCHANGED <<pods, cpods, cpool, corips, orec, svc>>
         /\ UNCHANGED <<pool, fresh, rec>> \/ \E p : WritePool(p)
<1>1. PICK c \in 1..MaxSandbox :
        \/ AddRefused(c) \/ AddOrip(c) \/ Del(c) \/ DelOrip(c)
        \/ \E p \in Pods, i \in IfNames, k \in Keys : AddStale(c, p, i, k) \/ AddPool(c, p, i, k)
  BY Zenon DEF Plugin
<1>2. CASE AddOrip(c)
  <2>1. UNCHANGED <<pods, cpods, cpool, corips, orec, svc>>
    BY <1>2, Zenon DEF AddOrip
  <2>2. UNCHANGED <<pool, fresh, rec>> \/ \E p : WritePool(p)
    BY <1>2, Zenon DEF AddOrip, Release
  <2> QED
    BY <2>1, <2>2
<1>3. CASE Del(c)
  <2>1. UNCHANGED <<pods, cpods, cpool, corips, orec, svc>>
    BY <1>3, Zenon DEF Del
  <2>2. UNCHANGED <<pool, fresh, rec>> \/ \E p : WritePool(p)
    BY <1>3, Zenon DEF Del, Release
  <2> QED
    BY <2>1, <2>2
<1>4. ASSUME NEW p \in Pods, NEW i \in IfNames, NEW k \in Keys, AddPool(c, p, i, k)
      PROVE  UNCHANGED <<pods, cpods, cpool, corips, orec, svc>> /\ \E q : WritePool(q)
  <2>1. UNCHANGED <<pods, cpods, cpool, corips, orec, svc>>
    BY <1>4, Zenon DEF AddPool
  <2>2. \E q : WritePool(q)
    BY <1>4, Zenon DEF AddPool
  <2> QED
    BY <2>1, <2>2
<1>5. ASSUME \/ AddRefused(c) \/ DelOrip(c)
             \/ \E p \in Pods, i \in IfNames, k \in Keys : AddStale(c, p, i, k)
      PROVE  UNCHANGED <<pods, cpods, cpool, corips, orec, svc, pool, fresh, rec>>
  BY <1>5, Zenon DEF AddRefused, DelOrip, AddStale, caches
<1> QED
  BY <1>1, <1>2, <1>3, <1>4, <1>5, Zenon

LEMMA InitStatus == Init => StatusInv
BY IdleFacts DEF Init, StatusInv, PoolShape, PoolFields

\* When PatchHelper writes a status, the orphans it reports as cleaned are gone
\* from the spec, and a status that reports none counts the allocations of the
\* stored spec, whatever was written between the reads and the update.
THEOREM StatusPublished == Spec => PublishedStatus
<1> DEFINE A == (rec.pc = "status" /\ pool' # pool /\ rec'.pc = "idle") =>
                  /\ \A k \in rec.orphans : pool.alloc[k] = None
                  /\ ~SpecChanged => pool'.status.used = Cardinality(Used(pool.alloc))
<1>1. StatusInv /\ [Next]_<<env, vars>> => [A]_vars
  <2> SUFFICES ASSUME StatusInv, Next, rec.pc = "status", pool' # pool, rec'.pc = "idle"
               PROVE  /\ \A k \in rec.orphans : pool.alloc[k] = None
                      /\ ~SpecChanged => pool'.status.used = Cardinality(Used(pool.alloc))
    BY DEF vars
  <2>1. RecShape(rec) /\ PoolShape(pool) /\ Faithful(rec, pool)
    BY DEF StatusInv
  <2>2. ASSUME NEW p, WritePool(p) PROVE FALSE
    BY <2>1, <2>2, OutdatedFacts DEF WritePool
  <2>3. StatusUpdate
    <3>1. ~(Start \/ List \/ Cleaned \/ DeleteReservation \/ Finish \/ SpecPatch \/ SpecKept
            \/ JudgeFails \/ ListFails \/ \E k \in Keys : Judge(k) \/ Refetch(k))
      BY Zenon DEF Start, List, Cleaned, DeleteReservation, Finish, SpecPatch, SpecKept, JudgeFails,
         ListFails, Judge, Refetch
    <3>2. ~(ReconcileOrip \/ Cluster)
      BY <2>2, Zenon DEF ReconcileOrip, OripJudge, OripDelete, OripReady, OripStart, Cluster,
         CreatePod, PodChanges, SyncPods, SyncPool, SyncOrips, Restart, DeletePool, world
    <3>3. ~Plugin
      BY <2>2, PluginFrame, Zenon
    <3> QED
      BY <3>1, <3>2, <3>3, Zenon DEF Next, ReconcilePool
  <2>4. pool # None /\ rec.fresh /\ pool' = [pool EXCEPT !.status = DesiredStatus]
    BY <2>3, Zenon DEF StatusUpdate, VersionMatches
  <2>5. pool'.status = DesiredStatus
    BY <2>1, <2>4 DEF PoolShape, PoolFields
  <2>6. \A k \in rec.orphans : pool.alloc[k] = None
    BY <2>1, <2>4 DEF Faithful
  <2>7. ASSUME ~SpecChanged PROVE pool'.status.used = Cardinality(Used(pool.alloc))
    <3>1. rec.orphans = {} /\ pool = rec.base
      BY <2>1, <2>4, <2>7 DEF Faithful, SpecChanged
    <3>2. Used(removeAllocations(rec.base.alloc, rec.orphans)) = Used(pool.alloc)
      BY <3>1 DEF Used, removeAllocations
    <3> QED
      BY <2>5, <3>2 DEF DesiredStatus, computePoolStats
  <2> QED
    BY <2>6, <2>7
<1> QED
  BY <1>1, InitStatus, NextStatus, PTL DEF Spec, PublishedStatus

-----------------------------------------------------------------------------
(* The identity of reservations.                                           *)

IdFields == {"pod", "orip", "restarts", "faults"}
IdsOK(i) == DOMAIN i = IdFields /\ i.pod \in Nat /\ i.orip \in Nat

ResFields == {"id", "podRef", "ifName", "podUID", "ready"}
OrecFields == {"pc", "key", "res", "pod"}
OrecShape(o) ==
  \/ o = Idle
  \/ /\ o.pc \in {"judge", "delete", "ready"} /\ DOMAIN o = OrecFields
     /\ o.key \in Keys /\ o.res # None

SameAs(x, y) == x.podRef = y.podRef /\ x.ifName = y.ifName /\ x.podUID = y.podUID

\* x's id was given, and what is stored under it has x's owner.
Known(x, os, n) ==
  /\ x.id \in 0..n
  /\ \A j \in Keys : os[j] # None /\ os[j].id = x.id => SameAs(os[j], x)

\* The same of the reservation a pool reconcile is about to delete: it names
\* the owner of the allocation that was judged.
Targeted(r, os, n) ==
  r.pc = "delete" =>
    /\ r.target.key \in Keys /\ r.target.id \in 0..n
    /\ \A j \in Keys : os[j] # None /\ os[j].id = r.target.id =>
         /\ os[j].podRef = r.base.alloc[r.target.key].podRef
         /\ os[j].ifName = r.base.alloc[r.target.key].ifName

Stored(os, n) ==
  /\ DOMAIN os = Keys
  /\ \A k \in Keys : os[k] # None => DOMAIN os[k] = ResFields /\ Known(os[k], os, n)

IdentityInv ==
  /\ IdsOK(ids) /\ Stored(orips, ids.orip)
  /\ DOMAIN corips = Keys
  /\ \A k \in Keys : corips[k] # None => Known(corips[k], orips, ids.orip)
  /\ OrecShape(orec) /\ (orec.pc # "idle" => Known(orec.res, orips, ids.orip))
  /\ Targeted(rec, orips, ids.orip)

\* What a step makes of the stored reservations: it keeps, updates or removes
\* them, or creates one under a new id.
Kept(os, n, qs, m) ==
  /\ m = n /\ DOMAIN qs = Keys
  /\ \A k \in Keys : qs[k] # None =>
       /\ os[k] # None /\ DOMAIN qs[k] = ResFields /\ qs[k].id = os[k].id
       /\ SameAs(qs[k], os[k])
Added(os, n, qs, m, key, x) ==
  /\ m = n + 1 /\ DOMAIN qs = Keys /\ DOMAIN x = ResFields /\ x.id = m
  /\ \A k \in Keys : qs[k] = IF k = key THEN x ELSE os[k]
Evolved(os, n, qs, m) == Kept(os, n, qs, m) \/ \E key, x : Added(os, n, qs, m, key, x)

LEMMA StoredEvolves ==
  ASSUME NEW os, NEW n \in Nat, NEW qs, NEW m, Stored(os, n), Evolved(os, n, qs, m)
  PROVE  /\ Stored(qs, m)
         /\ \A x : Known(x, os, n) => Known(x, qs, m)
         /\ \A r : Targeted(r, os, n) => Targeted(r, qs, m)
<1>1. ASSUME Kept(os, n, qs, m)
      PROVE  /\ Stored(qs, m)
             /\ \A x : Known(x, os, n) => Known(x, qs, m)
             /\ \A r : Targeted(r, os, n) => Targeted(r, qs, m)
  <2>1. \A x : Known(x, os, n) => Known(x, qs, m)
    BY <1>1, Zenon DEF Kept, Known, SameAs
  <2>2. \A r : Targeted(r, os, n) => Targeted(r, qs, m)
    BY <1>1 DEF Kept, Targeted, SameAs
  <2>3. ASSUME NEW k \in Keys, qs[k] # None PROVE Known(qs[k], qs, m)
    <3>1. Known(os[k], qs, m) /\ qs[k].id = os[k].id /\ SameAs(qs[k], os[k])
      BY <1>1, <2>1, <2>3 DEF Kept, Stored
    <3> QED
      BY <3>1 DEF Known, SameAs
  <2> QED
    BY <1>1, <2>1, <2>2, <2>3 DEF Stored, Kept
<1>2. ASSUME NEW key, NEW x, Added(os, n, qs, m, key, x)
      PROVE  /\ Stored(qs, m)
             /\ \A y : Known(y, os, n) => Known(y, qs, m)
             /\ \A r : Targeted(r, os, n) => Targeted(r, qs, m)
  <2>1. \A y : Known(y, os, n) => Known(y, qs, m)
    BY <1>2, SMT, Zenon DEF Added, Known
  <2>2. \A r : Targeted(r, os, n) => Targeted(r, qs, m)
    BY <1>2 DEF Added, Targeted
  <2>3. ASSUME NEW k \in Keys, qs[k] # None PROVE DOMAIN qs[k] = ResFields /\ Known(qs[k], qs, m)
    <3>1. CASE k = key
      <4>1. qs[k] = x /\ x.id = n + 1 /\ m = n + 1 /\ DOMAIN x = ResFields
        BY <1>2, <3>1 DEF Added
      <4>2. ASSUME NEW j \in Keys, qs[j] # None, qs[j].id = n + 1 PROVE j = key
        <5>1. CASE j # key
          <6>1. qs[j] = os[j] /\ os[j].id \in 0..n
            BY <1>2, <4>2, <5>1 DEF Added, Stored, Known
          <6> QED
            BY <4>2, <6>1
        <5> QED
          BY <5>1
      <4> QED
        BY <3>1, <4>1, <4>2 DEF Known, SameAs
    <3>2. CASE k # key
      <4>1. qs[k] = os[k]
        BY <1>2, <3>2 DEF Added
      <4> QED
        BY <2>1, <2>3, <4>1 DEF Stored
    <3> QED
      BY <3>1, <3>2
  <2> QED
    BY <1>2, <2>1, <2>2, <2>3 DEF Stored, Added
<1> QED
  BY <1>1, <1>2 DEF Evolved

\* The counters of a step.
LEMMA FaultIds ==
  ASSUME IdsOK(ids), Fault
  PROVE  IdsOK(ids') /\ ids'.orip = ids.orip /\ ids'.pod = ids.pod
BY DEF Fault, IdsOK, IdFields

\* The actions of a pool reconcile touch neither the caches nor the counters
\* of identities.
LEMMA RecActions ==
  ASSUME IdsOK(ids), ReconcilePool \/ JudgeFails \/ ListFails
  PROVE  /\ UNCHANGED <<pods, att, cpods, corips, orec>>
         /\ IdsOK(ids') /\ ids'.orip = ids.orip /\ ids'.pod = ids.pod
<1>1. UNCHANGED <<pods, att, cpods, corips, orec>>
  BY Zenon DEF ReconcilePool, JudgeFails, ListFails, Start, List, Cleaned, DeleteReservation, Finish,
     SpecPatch, SpecKept, StatusUpdate, Judge, Refetch, world, caches
<1>2. UNCHANGED ids \/ Fault
  BY Zenon DEF ReconcilePool, JudgeFails, ListFails, Start, List, Cleaned, DeleteReservation, Finish,
     SpecPatch, SpecKept, StatusUpdate, Judge, Refetch
<1> QED
  BY <1>1, <1>2, FaultIds

LEMMA OrecActions ==
  ASSUME IdsOK(ids), ReconcileOrip
  PROVE  /\ UNCHANGED <<pods, att, cpods, corips, rec>>
         /\ IdsOK(ids') /\ ids'.orip = ids.orip /\ ids'.pod = ids.pod
<1>1. UNCHANGED <<pods, att, cpods, corips, rec>>
  BY Zenon DEF ReconcileOrip, OripJudge, OripDelete, OripReady, OripStart, world, caches
<1>2. UNCHANGED ids \/ Fault
  BY Zenon DEF ReconcileOrip, OripJudge, OripDelete, OripReady, OripStart
<1> QED
  BY <1>1, <1>2, FaultIds

LEMMA Unmoved ==
  ASSUME IdsOK(ids), Stored(orips, ids.orip)
  PROVE  Kept(orips, ids.orip, orips, ids.orip)
BY DEF Kept, Stored, SameAs

LEMMA Removed ==
  ASSUME IdsOK(ids), Stored(orips, ids.orip), NEW k
  PROVE  Kept(orips, ids.orip, [orips EXCEPT ![k] = None], ids.orip)
BY DEF Kept, Stored, SameAs

LEMMA IdentityStep ==
  ASSUME IdentityInv, IdsOK(ids'), Evolved(orips, ids.orip, orips', ids'.orip),
         corips' = corips \/ corips' = orips,
         OrecShape(orec'), orec'.pc # "idle" => Known(orec'.res, orips, ids.orip),
         Targeted(rec', orips, ids.orip)
  PROVE  IdentityInv'
<1>1. ids.orip \in Nat /\ Stored(orips, ids.orip)
  BY DEF IdentityInv, IdsOK
<1>2. /\ Stored(orips', ids'.orip)
      /\ \A x : Known(x, orips, ids.orip) => Known(x, orips', ids'.orip)
      /\ \A r : Targeted(r, orips, ids.orip) => Targeted(r, orips', ids'.orip)
  BY <1>1, StoredEvolves, Zenon
<1>3. /\ DOMAIN corips' = Keys
      /\ \A k \in Keys : corips'[k] # None => Known(corips'[k], orips, ids.orip)
  BY <1>1, Zenon DEF IdentityInv, Stored
<1> QED
  BY <1>2, <1>3, Zenon DEF IdentityInv

\* A pool reconcile takes aim at a reservation it has just compared.
LEMMA TakesAim ==
  ASSUME RecShape(rec), ReconcilePool \/ JudgeFails \/ ListFails, rec'.pc = "delete"
  PROVE  \E k \in Keys : /\ SameOwner(rec.base.alloc[k], corips[k])
                         /\ rec'.target = [key |-> k, id |-> corips[k].id]
                         /\ rec'.base = rec.base
<1>1. rec' # Idle
  BY DEF Idle
<1>2. rec.pc # "idle" => DOMAIN rec = RecFields
  BY DEF RecShape, Idle
<1>3. ~(JudgeFails \/ ListFails \/ Finish \/ StatusUpdate)
  BY <1>1, Zenon DEF JudgeFails, ListFails, Finish, StatusUpdate
<1>4. ~Start
  BY DEF Start
<1>5. ~(List \/ Cleaned)
  BY <1>1, <1>2, Zenon DEF List, Cleaned, RecFields
<1>6. ~DeleteReservation
  BY <1>2, Zenon DEF DeleteReservation, RecFields
<1>7. ~(SpecPatch \/ SpecKept)
  BY <1>1, <1>2, Zenon DEF SpecPatch, SpecKept, RecFields
<1>8. ASSUME NEW k \in Keys PROVE ~Judge(k)
  BY <1>2, Zenon DEF Judge, RecFields
<1>9. PICK k \in Keys : Refetch(k)
  BY <1>3, <1>4, <1>5, <1>6, <1>7, <1>8, Zenon DEF ReconcilePool
<1>10. /\ SameOwner(rec.base.alloc[k], corips[k])
       /\ rec'.target = [key |-> k, id |-> corips[k].id] /\ rec'.base = rec.base
  BY <1>2, <1>9, Zenon DEF Refetch, RecFields
<1> QED
  BY <1>10

LEMMA RecOrips ==
  ASSUME IdsOK(ids), Stored(orips, ids.orip), ReconcilePool \/ JudgeFails \/ ListFails
  PROVE  Kept(orips, ids.orip, orips', ids'.orip)
<1>1. orips' = orips \/ \E k : orips' = [orips EXCEPT ![k] = None]
  BY Zenon DEF ReconcilePool, JudgeFails, ListFails, Start, List, Cleaned, DeleteReservation, Finish,
     SpecPatch, SpecKept, StatusUpdate, Judge, Refetch, world
<1> QED
  BY <1>1, RecActions, Unmoved, Removed

LEMMA RecIdentity ==
  ASSUME StatusInv, IdentityInv, ReconcilePool \/ JudgeFails \/ ListFails
  PROVE  IdentityInv'
<1>1. /\ UNCHANGED <<corips, orec>> /\ IdsOK(ids') /\ ids'.orip = ids.orip
  BY RecActions, Zenon DEF IdentityInv
<1>2. Kept(orips, ids.orip, orips', ids'.orip)
  BY RecOrips, Zenon DEF IdentityInv
<1>3. Targeted(rec', orips, ids.orip)
  <2> SUFFICES ASSUME rec'.pc = "delete" PROVE Targeted(rec', orips, ids.orip)
    BY DEF Targeted
  <2>1. PICK k \in Keys : /\ SameOwner(rec.base.alloc[k], corips[k])
                          /\ rec'.target = [key |-> k, id |-> corips[k].id]
                          /\ rec'.base = rec.base
    BY TakesAim, Zenon DEF StatusInv
  <2>2. Known(corips[k], orips, ids.orip)
    BY <2>1 DEF IdentityInv, SameOwner
  <2> QED
    BY <2>1, <2>2 DEF Targeted, Known, SameAs, SameOwner
<1> QED
  BY <1>1, <1>2, <1>3, IdentityStep, Zenon DEF IdentityInv, Evolved

LEMMA OrecOrips ==
  ASSUME IdsOK(ids), Stored(orips, ids.orip), OrecShape(orec), ReconcileOrip
  PROVE  Kept(orips, ids.orip, orips', ids'.orip)
<1>1. ids'.orip = ids.orip
  BY OrecActions
<1>2. CASE orips' = orips
  BY <1>1, <1>2, Unmoved
<1>3. ASSUME NEW k, orips' = [orips EXCEPT ![k] = None]
      PROVE  Kept(orips, ids.orip, orips', ids'.orip)
  BY <1>1, <1>3, Removed, Zenon
<1>4. CASE /\ orec.pc = "ready" /\ orips[orec.key] = orec.res
           /\ orips' = [orips EXCEPT ![orec.key].ready = TRUE]
  <2>1. orec.key \in Keys /\ orips[orec.key] # None
    BY <1>4, SMT, SMTT(60) DEF OrecShape, Idle
  <2> QED
    BY <1>1, <1>4, <2>1 DEF Kept, Stored, SameAs, ResFields
<1> QED
  BY <1>2, <1>3, <1>4, Zenon DEF ReconcileOrip, OripJudge, OripDelete, OripReady, OripStart, world

LEMMA OrecIdentity ==
  ASSUME IdentityInv, ReconcileOrip
  PROVE  IdentityInv'
<1>1. UNCHANGED <<corips, rec>> /\ IdsOK(ids') /\ ids'.orip = ids.orip
  BY OrecActions DEF IdentityInv
<1>2. IdsOK(ids) /\ Stored(orips, ids.orip) /\ OrecShape(orec)
  BY DEF IdentityInv
<1>3. Kept(orips, ids.orip, orips', ids'.orip)
  BY <1>2, OrecOrips
<1>4. OrecShape(orec') /\ (orec'.pc # "idle" => Known(orec'.res, orips, ids.orip))
  <2>1. CASE orec' = Idle
    BY <2>1, Zenon DEF OrecShape, Idle
  <2>2. ASSUME NEW k \in Keys, OripStart(k)
        PROVE  OrecShape(orec') /\ Known(orec'.res, orips, ids.orip)
    <3>1. corips[k] # None /\ orec' = [pc |-> "judge", key |-> k, res |-> corips[k], pod |-> None]
      BY <2>2 DEF OripStart
    <3>2. DOMAIN orec' = OrecFields /\ orec'.pc = "judge" /\ orec'.key = k /\ orec'.res = corips[k]
      BY <3>1 DEF OrecFields
    <3> QED
      BY <3>1, <3>2, Zenon DEF OrecShape, IdentityInv
  <2>3. CASE orec.pc = "judge" /\ \E y : \E pc \in {"delete", "ready"} :
               orec' = [orec EXCEPT !.pod = y, !.pc = pc]
    <3>1. DOMAIN orec = OrecFields /\ orec.key \in Keys /\ orec.res # None
      BY <1>2, <2>3 DEF OrecShape, Idle
    <3>2. /\ DOMAIN orec' = OrecFields /\ orec'.pc \in {"delete", "ready"}
          /\ orec'.key = orec.key /\ orec'.res = orec.res
      BY <2>3, <3>1 DEF OrecFields
    <3> QED
      BY <2>3, <3>1, <3>2 DEF OrecShape, IdentityInv
  <2>4. OripJudge /\ orec' # Idle =>
          orec.pc = "judge" /\ \E y : \E pc \in {"delete", "ready"} :
            orec' = [orec EXCEPT !.pod = y, !.pc = pc]
    <3> DEFINE y == PodOf(orec.res.podRef, cpods)
               pc == IF OripGone(orec.res, y) THEN "delete" ELSE "ready"
    <3>1. pc \in {"delete", "ready"}
      OBVIOUS
    <3>2. OripJudge /\ orec' # Idle => orec.pc = "judge" /\ orec' = [orec EXCEPT !.pod = y, !.pc = pc]
      BY Zenon DEF OripJudge
    <3> HIDE DEF y, pc
    <3> QED
      BY <3>1, <3>2, Zenon
  <2>5. OripDelete \/ OripReady => orec' = Idle
    BY DEF OripDelete, OripReady
  <2> QED
    BY <2>1, <2>2, <2>3, <2>4, <2>5, Zenon DEF ReconcileOrip
<1> QED
  BY <1>1, <1>3, <1>4, IdentityStep, Zenon DEF IdentityInv, Evolved

\* Nobody else's write of the pool changes what a reconcile aims at.
LEMMA AimKept ==
  ASSUME RecShape(rec), NEW os, NEW n, Targeted(rec, os, n), NEW p, WritePool(p)
  PROVE  Targeted(rec', os, n)
<1>1. rec' = rec \/ rec' = Outdated(rec)
  BY Zenon DEF WritePool
<1>2. Targeted(Outdated(rec), os, n)
  BY OutdatedFacts DEF Targeted
<1> QED
  BY <1>1, <1>2

LEMMA ClusterIdentity ==
  ASSUME StatusInv, IdentityInv, Cluster
  PROVE  IdentityInv'
<1>1. IdsOK(ids) /\ Stored(orips, ids.orip) /\ UNCHANGED orips
  BY Zenon DEF IdentityInv, Cluster, CreatePod, PodChanges, SyncPods, SyncPool, SyncOrips, Restart,
     DeletePool, world
<1>2. IdsOK(ids') /\ ids'.orip = ids.orip
  <2>1. \/ UNCHANGED ids \/ ids' = [ids EXCEPT !.pod = @ + 1]
        \/ ids' = [ids EXCEPT !.restarts = @ + 1]
    BY Zenon DEF Cluster, CreatePod, PodChanges, SyncPods, SyncPool, SyncOrips, Restart, DeletePool
  <2> QED
    BY <1>1, <2>1 DEF IdsOK, IdFields
<1>3. corips' = corips \/ corips' = orips
  BY Zenon DEF Cluster, CreatePod, PodChanges, SyncPods, SyncPool, SyncOrips, Restart, DeletePool,
     caches
<1>4. orec' = orec \/ orec' = Idle
  BY Zenon DEF Cluster, CreatePod, PodChanges, SyncPods, SyncPool, SyncOrips, Restart, DeletePool
<1>5. Targeted(rec', orips, ids.orip)
  <2>1. rec' = rec \/ rec' = Idle \/ \E p : WritePool(p)
    BY Zenon DEF Cluster, CreatePod, PodChanges, SyncPods, SyncPool, SyncOrips, Restart, DeletePool
  <2>2. Targeted(Idle, orips, ids.orip)
    BY DEF Targeted, Idle
  <2> QED
    BY <2>1, <2>2, AimKept DEF IdentityInv, StatusInv
<1>6. Evolved(orips, ids.orip, orips', ids'.orip)
  BY <1>1, <1>2, Unmoved DEF Evolved
<1>7. OrecShape(orec') /\ (orec'.pc # "idle" => Known(orec'.res, orips, ids.orip))
  BY <1>4, SMT, Zenon DEF IdentityInv, OrecShape, Idle
<1> QED
  BY <1>2, <1>3, <1>5, <1>6, <1>7, IdentityStep, Zenon

LEMMA PluginIdentity ==
  ASSUME StatusInv, IdentityInv, Plugin
  PROVE  IdentityInv'
<1>1. IdsOK(ids) /\ Stored(orips, ids.orip) /\ UNCHANGED <<corips, orec>>
  BY PluginFrame, Zenon DEF IdentityInv
<1>2. Targeted(rec', orips, ids.orip)
  <2>1. rec' = rec \/ \E p : WritePool(p)
    BY PluginFrame, Zenon
  <2> QED
    BY <2>1, AimKept DEF IdentityInv, StatusInv
<1>3. IdsOK(ids') /\ Evolved(orips, ids.orip, orips', ids'.orip)
  <2>1. CASE UNCHANGED <<ids, orips>>
    BY <1>1, <2>1, Unmoved DEF Evolved
  <2>2. ASSUME NEW k, ids' = ids, orips' = [orips EXCEPT ![k] = None]
        PROVE  IdsOK(ids') /\ Evolved(orips, ids.orip, orips', ids'.orip)
    BY <1>1, <2>2, Removed, Zenon DEF Evolved
  <2>4. ASSUME NEW a, ids' = [ids EXCEPT !.orip = @ + 1],
               orips' = [orips EXCEPT ![a.key] =
                 [id |-> ids.orip + 1, podRef |-> a.podRef, ifName |-> a.ifName,
                  podUID |-> a.uid, ready |-> FALSE]]
        PROVE  IdsOK(ids') /\ Evolved(orips, ids.orip, orips', ids'.orip)
    <3> DEFINE x == [id |-> ids.orip + 1, podRef |-> a.podRef, ifName |-> a.ifName,
                     podUID |-> a.uid, ready |-> FALSE]
    <3>1. IdsOK(ids') /\ ids'.orip = ids.orip + 1
      BY <1>1, <2>4 DEF IdsOK, IdFields
    <3>2. DOMAIN x = ResFields /\ x.id = ids.orip + 1
      BY DEF ResFields
    <3> HIDE DEF x
    <3>3. orips' = [orips EXCEPT ![a.key] = x]
      BY <2>4 DEF x
    <3>4. Added(orips, ids.orip, orips', ids'.orip, a.key, x)
      BY <1>1, <3>1, <3>2, <3>3 DEF Added, Stored
    <3> QED
      BY <3>1, <3>4, Zenon DEF Evolved
  <2>5. ASSUME NEW c, NEW p, NEW i, NEW k, AddStale(c, p, i, k) \/ AddPool(c, p, i, k)
        PROVE  IdsOK(ids') /\ Evolved(orips, ids.orip, orips', ids'.orip)
    <3>1. ids' = ids /\ (orips' = orips \/ orips' = [orips EXCEPT ![k] = None])
      BY <2>5, Zenon DEF AddStale, AddPool
    <3> QED
      BY <2>1, <2>2, <3>1
  <2>6. ASSUME NEW c, AddOrip(c)
        PROVE  IdsOK(ids') /\ Evolved(orips, ids.orip, orips', ids'.orip)
    BY <2>1, <2>4, <2>6, Zenon DEF AddOrip
  <2>7. ASSUME NEW c, AddRefused(c) \/ Del(c) \/ DelOrip(c)
        PROVE  IdsOK(ids') /\ Evolved(orips, ids.orip, orips', ids'.orip)
    <3>1. ids' = ids /\ (orips' = orips \/ orips' = [orips EXCEPT ![att[c].key] = None])
      BY <2>7, Zenon DEF AddRefused, Del, DelOrip
    <3> QED
      BY <2>1, <2>2, <3>1
  <2> QED
    BY <2>5, <2>6, <2>7, Zenon DEF Plugin
<1> QED
  BY <1>1, <1>2, <1>3, IdentityStep DEF IdentityInv

LEMMA NextIdentity == StatusInv /\ IdentityInv /\ [Next]_<<env, vars>> => IdentityInv'
<1> SUFFICES ASSUME StatusInv, IdentityInv, [Next]_<<env, vars>> PROVE IdentityInv'
  BY Zenon
<1>1. CASE UNCHANGED <<env, vars>>
  BY <1>1 DEF vars, IdentityInv
<1>2. CASE Next
  BY <1>2, RecIdentity, OrecIdentity, ClusterIdentity, PluginIdentity, Zenon DEF Next
<1> QED
  BY <1>1, <1>2

LEMMA InitIdentity == Init => IdentityInv
<1> SUFFICES ASSUME Init PROVE IdentityInv
  BY Zenon
<1>1. PICK o \in LegacyReservations : orips = [k \in Keys |-> o]
  BY Zenon DEF Init
<1>2. IdsOK(ids) /\ ids.orip = 0 /\ corips = orips /\ rec = Idle /\ orec = Idle
  BY DEF Init, IdsOK, IdFields
<1>3. o # None => DOMAIN o = ResFields /\ o.id = 0
  BY <1>1, Zenon DEF LegacyReservations, ResFields
<1>4. o # None => Known(o, orips, 0)
  BY <1>1, <1>3 DEF Known, SameAs
<1>5. Stored(orips, 0)
  BY <1>1, <1>3, <1>4 DEF Stored
<1> QED
  BY <1>1, <1>2, <1>4, <1>5 DEF IdentityInv, OrecShape, Idle, Targeted

\* Who ends a deletion: its own request, or a restart.
LEMMA PoolDeletesBy ==
  ASSUME StatusInv, [Next]_<<env, vars>>, PoolDeletes
  PROVE  DeleteReservation \/ Restart
<1>1. rec' # rec /\ RecShape(rec)
  BY DEF PoolDeletes, StatusInv
<1>2. Next
  BY <1>1 DEF vars
<1>3. ASSUME NEW p PROVE ~WritePool(p)
  BY <1>1, <1>3, OutdatedFacts, Zenon DEF WritePool, PoolDeletes
<1>4. ReconcilePool \/ JudgeFails \/ ListFails => DeleteReservation
  BY Zenon DEF PoolDeletes, ReconcilePool, Start, List, Cleaned, Finish, SpecPatch, SpecKept, StatusUpdate,
     JudgeFails, ListFails, Judge, Refetch
<1>5. ReconcileOrip \/ Cluster => Restart
  BY <1>1, <1>3, Zenon DEF ReconcileOrip, OripJudge, OripDelete, OripReady, OripStart, Cluster,
     CreatePod, PodChanges, SyncPods, SyncPool, SyncOrips, DeletePool
<1>6. ~Plugin
  BY <1>1, <1>3, PluginFrame, Zenon
<1> QED
  BY <1>2, <1>4, <1>5, <1>6, Zenon DEF Next

LEMMA OripDeletesBy ==
  ASSUME [Next]_<<env, vars>>, OripDeletes
  PROVE  OripDelete \/ Restart
<1>1. orec' # orec
  BY DEF OripDeletes
<1>2. Next
  BY <1>1 DEF vars
<1>3. ~(ReconcilePool \/ JudgeFails \/ ListFails)
  BY <1>1, Zenon DEF ReconcilePool, JudgeFails, ListFails, Start, List, Cleaned, DeleteReservation, Finish,
     SpecPatch, SpecKept, StatusUpdate, Judge, Refetch
<1>4. ReconcileOrip => OripDelete
  BY Zenon DEF OripDeletes, ReconcileOrip, OripJudge, OripReady, OripStart
<1>5. Cluster => Restart
  BY <1>1, Zenon DEF Cluster, CreatePod, PodChanges, SyncPods, SyncPool, SyncOrips, DeletePool
<1>6. ~Plugin
  BY <1>1, PluginFrame, Zenon
<1> QED
  BY <1>2, <1>3, <1>4, <1>5, <1>6, Zenon DEF Next

\* cleanupOverlappingReservations removes only a reservation of the podRef and
\* interface of the allocation it judged, deleteReservation only the object it
\* judged, whatever replaced them since they were read.
THEOREM JudgedDeleted == Spec => DeletesWhatItJudged
<1> DEFINE A == \A k \in Keys : orips'[k] # orips[k] =>
                  /\ PoolDeletes => /\ orips[k].podRef = rec.base.alloc[k].podRef
                                    /\ orips[k].ifName = rec.base.alloc[k].ifName
                  /\ OripDeletes => orips[k].id = orec.res.id
<1>1. StatusInv /\ IdentityInv /\ [Next]_<<env, vars>> => [A]_vars
  <2> SUFFICES ASSUME StatusInv, IdentityInv, [Next]_<<env, vars>>,
                      NEW k \in Keys, orips'[k] # orips[k]
               PROVE  /\ PoolDeletes => /\ orips[k].podRef = rec.base.alloc[k].podRef
                                        /\ orips[k].ifName = rec.base.alloc[k].ifName
                      /\ OripDeletes => orips[k].id = orec.res.id
    BY Zenon
  <2>1. ~Restart
    BY Zenon DEF Restart, world
  <2>2. DOMAIN orips = Keys
    BY Zenon DEF IdentityInv, Stored
  <2>3. ASSUME PoolDeletes
        PROVE  /\ orips[k].podRef = rec.base.alloc[k].podRef
               /\ orips[k].ifName = rec.base.alloc[k].ifName
    <3>1. DeleteReservation
      BY <2>1, <2>3, PoolDeletesBy, Zenon
    <3>2. /\ Precondition(rec.target.id, orips[rec.target.key])
          /\ orips' = [orips EXCEPT ![rec.target.key] = None]
      BY <3>1, Zenon DEF DeleteReservation
    <3>3. k = rec.target.key
      BY <2>2, <3>2, Zenon
    <3>4. Targeted(rec, orips, ids.orip) /\ rec.pc = "delete"
      BY <2>3 DEF IdentityInv, PoolDeletes
    <3> QED
      BY <3>2, <3>3, <3>4 DEF Targeted, Precondition
  <2>4. ASSUME OripDeletes PROVE orips[k].id = orec.res.id
    <3>1. OripDelete
      BY <2>1, <2>4, OripDeletesBy, Zenon
    <3>2. /\ Precondition(orec.res.id, orips[orec.key])
          /\ orips' = [orips EXCEPT ![orec.key] = None]
      BY <3>1, Zenon DEF OripDelete
    <3>3. k = orec.key
      BY <2>2, <3>2
    <3> QED
      BY <3>2, <3>3 DEF Precondition
  <2> QED
    BY <2>3, <2>4
<1> QED
  BY <1>1, InitStatus, NextStatus, InitIdentity, NextIdentity, PTL DEF Spec, DeletesWhatItJudged
-----------------------------------------------------------------------------
(* Pods, the pod cache, and the pod a reservation was judged by.           *)

PodFields == {"uid", "phase", "terminating", "disrupted", "nets"}

\* y is an earlier state of the stored pod x, or an earlier pod of its name.
Lagging(x, y, n) ==
  /\ x # None => DOMAIN x = PodFields /\ x.uid \in 1..n
  /\ y # None => y.uid \in 1..n
  /\ x # None /\ y # None =>
       x.uid >= y.uid /\ (x.uid = y.uid /\ Healthy(x) => Healthy(y))

\* What is known of the pod by which a reservation was judged to be deleted.
Condemned(o, y) == ~Healthy(y) \/ o.podUID # y.uid

PodInv ==
  /\ DOMAIN pods = Pods /\ DOMAIN cpods = Pods
  /\ \A p \in Pods : Lagging(pods[p], cpods[p], ids.pod)
  /\ orec.pc = "delete" =>
       /\ Condemned(orec.res, orec.pod)
       /\ orec.res.podRef \in Pods => Lagging(pods[orec.res.podRef], orec.pod, ids.pod)

\* What a step may make of a pod.
Turned(x, n, x1, m) ==
  \/ m = n /\ x1 = x
  \/ /\ m = n /\ x # None
     /\ x1 # None => DOMAIN x1 = PodFields /\ x1.uid = x.uid /\ (Healthy(x1) => Healthy(x))
  \/ /\ m = n + 1
     /\ x1 # x => x = None /\ DOMAIN x1 = PodFields /\ x1.uid = n + 1

LEMMA TurnedKeeps ==
  ASSUME NEW x, NEW y, NEW n \in Nat, NEW x1, NEW m, Turned(x, n, x1, m), Lagging(x, y, n)
  PROVE  Lagging(x1, y, m)
<1>1. m \in Nat
  BY DEF Turned
<1>2. Healthy(x) => x # None
  BY DEF Healthy
<1>3. Healthy(x1) => x1 # None
  BY DEF Healthy
<1> QED
  BY <1>1, <1>2, <1>3 DEF Turned, Lagging

\* The pods move, their cache and the reservation reconciler stay.
LEMMA PodsMove ==
  ASSUME IdsOK(ids), PodInv, UNCHANGED <<cpods, orec>>, DOMAIN pods' = Pods,
         \A p \in Pods : Turned(pods[p], ids.pod, pods'[p], ids'.pod)
  PROVE  PodInv'
<1>1. ids.pod \in Nat /\ \A p \in Pods : Lagging(pods[p], cpods[p], ids.pod)
  BY DEF IdsOK, PodInv
<1>2. \A p \in Pods : \A y : Lagging(pods[p], y, ids.pod) => Lagging(pods'[p], y, ids'.pod)
  BY <1>1, TurnedKeeps, Zenon
<1> QED
  BY <1>1, <1>2, Zenon DEF PodInv

\* The pods and the counter of their UIDs stay.
LEMMA PodsStay ==
  ASSUME PodInv, UNCHANGED pods, ids'.pod = ids.pod, cpods' = cpods \/ cpods' = pods,
         orec' = orec \/ orec'.pc # "delete"
  PROVE  PodInv'
<1>1. \A p \in Pods : Lagging(pods[p], cpods'[p], ids.pod)
  <2>1. \A p \in Pods : Lagging(pods[p], pods[p], ids.pod)
    BY DEF PodInv, Lagging
  <2> QED
    BY <2>1, Zenon DEF PodInv
<1> QED
  BY <1>1, Zenon DEF PodInv

\* Pods come, change and go.
LEMMA ClusterPods ==
  ASSUME IdsOK(ids), PodInv, Cluster
  PROVE  PodInv'
<1>1. /\ ids.pod \in Nat /\ DOMAIN pods = Pods /\ DOMAIN cpods = Pods
      /\ \A p \in Pods : Lagging(pods[p], cpods[p], ids.pod)
  BY Zenon DEF IdsOK, PodInv
<1>2. ASSUME NEW p \in Pods, CreatePod(p) PROVE PodInv'
  <2> DEFINE x == [uid |-> ids.pod + 1, phase |-> "Pending",
                   terminating |-> FALSE, disrupted |-> FALSE, nets |-> None]
  <2>1. /\ pods[p] = None /\ pods' = [pods EXCEPT ![p] = x]
        /\ UNCHANGED <<orec, cpods>>
        /\ ids' = [ids EXCEPT !.pod = @ + 1]
    BY <1>2, Zenon DEF CreatePod, caches
  <2>2. DOMAIN x = PodFields /\ x.uid = ids.pod + 1
    BY DEF PodFields
  <2> HIDE DEF x
  <2>3. ids'.pod = ids.pod + 1
    BY <1>1, <2>1 DEF IdsOK, IdFields
  <2>4. DOMAIN pods' = Pods /\ \A q \in Pods : pods'[q] = IF q = p THEN x ELSE pods[q]
    BY <1>1, <2>1
  <2>5. \A q \in Pods : Turned(pods[q], ids.pod, pods'[q], ids'.pod)
    BY <2>1, <2>2, <2>3, <2>4, Zenon DEF Turned
  <2> QED
    BY <1>1, <2>1, <2>4, <2>5, PodsMove
<1>3. ASSUME NEW p \in Pods, PodChanges(p) PROVE PodInv'
  <2>1. pods[p] # None /\ UNCHANGED <<orec, cpods, ids>>
    BY <1>3, Zenon DEF PodChanges, caches
  <2>2. DOMAIN pods[p] = PodFields
    BY <1>1, <2>1 DEF Lagging
  <2>3. \/ pods[p].phase = "Pending" /\ pods' = [pods EXCEPT ![p].phase = "Running"]
        \/ \E n : pods' = [pods EXCEPT ![p].nets = n]
        \/ pods[p].phase = "Running" /\ \E e : pods' = [pods EXCEPT ![p].phase = e]
        \/ pods' = [pods EXCEPT ![p].terminating = TRUE]
        \/ pods' = [pods EXCEPT ![p].disrupted = TRUE]
        \/ pods' = [pods EXCEPT ![p] = None]
    BY <1>3, Zenon DEF PodChanges
  <2>4. DOMAIN pods' = Pods /\ \A q \in Pods \ {p} : pods'[q] = pods[q]
    BY <1>1, <2>3
  <2>5. pods'[p] # None => /\ DOMAIN pods'[p] = PodFields /\ pods'[p].uid = pods[p].uid
                           /\ Healthy(pods'[p]) => Healthy(pods[p])
    <3>1. CASE pods[p].phase = "Pending" /\ pods' = [pods EXCEPT ![p].phase = "Running"]
      BY <1>1, <2>1, <2>2, <3>1 DEF Healthy, PodFields
    <3>2. ASSUME NEW n, pods' = [pods EXCEPT ![p].nets = n]
          PROVE  /\ DOMAIN pods'[p] = PodFields /\ pods'[p].uid = pods[p].uid
                 /\ Healthy(pods'[p]) => Healthy(pods[p])
      BY <1>1, <2>1, <2>2, <3>2 DEF Healthy, PodFields
    <3>3. ASSUME NEW e, pods[p].phase = "Running", pods' = [pods EXCEPT ![p].phase = e]
          PROVE  /\ DOMAIN pods'[p] = PodFields /\ pods'[p].uid = pods[p].uid
                 /\ Healthy(pods'[p]) => Healthy(pods[p])
      BY <1>1, <2>1, <2>2, <3>3 DEF Healthy, PodFields
    <3>4. CASE pods' = [pods EXCEPT ![p].terminating = TRUE]
      BY <1>1, <2>1, <2>2, <3>4 DEF Healthy, PodFields
    <3>5. CASE pods' = [pods EXCEPT ![p].disrupted = TRUE]
      BY <1>1, <2>1, <2>2, <3>5, Zenon DEF Healthy, PodFields
    <3>6. CASE pods' = [pods EXCEPT ![p] = None]
      BY <1>1, <3>6
    <3> QED
      BY <2>3, <3>1, <3>2, <3>3, <3>4, <3>5, <3>6, Zenon
  <2>6. \A q \in Pods : Turned(pods[q], ids.pod, pods'[q], ids'.pod)
    BY <2>1, <2>4, <2>5, Zenon DEF Turned
  <2> QED
    BY <1>1, <2>1, <2>4, <2>6, PodsMove
<1>4. CASE SyncPods \/ SyncPool \/ SyncOrips \/ Restart \/ DeletePool
  <2>1. UNCHANGED pods /\ (cpods' = cpods \/ cpods' = pods)
    BY <1>4, Zenon DEF SyncPods, SyncPool, SyncOrips, Restart, DeletePool, world, caches
  <2>2. ids'.pod = ids.pod
    <3>1. UNCHANGED ids \/ ids' = [ids EXCEPT !.restarts = @ + 1]
      BY <1>4, Zenon DEF SyncPods, SyncPool, SyncOrips, Restart, DeletePool
    <3> QED
      BY <3>1 DEF IdsOK, IdFields
  <2>3. orec' = orec \/ orec' = Idle
    BY <1>4, Zenon DEF SyncPods, SyncPool, SyncOrips, Restart, DeletePool
  <2>4. Idle.pc # "delete"
    BY DEF Idle
  <2> QED
    BY <2>1, <2>2, <2>3, <2>4, PodsStay, Zenon
<1> QED
  BY <1>2, <1>3, <1>4, Zenon DEF Cluster

\* A pod by which a reservation is judged to be deleted.
LEMMA GoneCondemned ==
  ASSUME NEW o, NEW y, OripGone(o, y)
  PROVE  Condemned(o, y)
BY Zenon DEF OripGone, Condemned, PodGone, Healthy, isPodMarkedForDeletion, isPodCompleted,
   isPodLostToNodeFailure

LEMMA OrecPods ==
  ASSUME IdentityInv, PodInv, ReconcileOrip
  PROVE  PodInv'
<1>1. UNCHANGED <<pods, cpods>> /\ ids'.pod = ids.pod
  BY OrecActions, Zenon DEF IdentityInv
<1>2. CASE orec'.pc # "delete"
  BY <1>1, <1>2, PodsStay
<1>3. CASE orec'.pc = "delete"
  <2> DEFINE y == PodOf(orec.res.podRef, cpods)
             pc == IF OripGone(orec.res, y) THEN "delete" ELSE "ready"
  <2>1. ~OripDelete /\ ~OripReady /\ \A k \in Keys : ~OripStart(k)
    BY <1>3 DEF OripDelete, OripReady, OripStart, Idle
  <2>2. OripJudge /\ orec' # Idle
    BY <1>3, <2>1 DEF ReconcileOrip, Idle
  <2>3. orec.pc = "judge" /\ orec' = [orec EXCEPT !.pod = y, !.pc = pc]
    BY <2>2, Zenon DEF OripJudge
  <2>4. DOMAIN orec = OrecFields
    BY <2>3 DEF IdentityInv, OrecShape, Idle
  <2>5. pc = "delete" => OripGone(orec.res, y)
    OBVIOUS
  <2>6. orec.res.podRef \in Pods => y = cpods[orec.res.podRef]
    BY Zenon DEF PodOf
  <2> HIDE DEF y, pc
  <2>7. orec'.res = orec.res /\ orec'.pod = y /\ orec'.pc = pc
    BY <2>3, <2>4 DEF OrecFields
  <2>8. Condemned(orec'.res, orec'.pod)
    BY <1>3, <2>5, <2>7, GoneCondemned, Zenon
  <2> QED
    BY <1>1, <2>6, <2>7, <2>8, Zenon DEF PodInv
<1> QED
  BY <1>2, <1>3

\* The pool reconciler and the plugin leave pods and their cache alone.
LEMMA OthersPods ==
  ASSUME IdsOK(ids), PodInv, ReconcilePool \/ JudgeFails \/ ListFails \/ Plugin
  PROVE  PodInv'
<1>1. CASE ReconcilePool \/ JudgeFails \/ ListFails
  BY <1>1, RecActions, PodsStay, Zenon
<1>2. CASE Plugin
  <2>1. UNCHANGED ids \/ ids' = [ids EXCEPT !.orip = @ + 1]
    <3>1. \A c : AddRefused(c) \/ Del(c) \/ DelOrip(c) => UNCHANGED ids
      BY Zenon DEF AddRefused, Del, DelOrip
    <3>2. ASSUME NEW c, NEW p, NEW i, NEW k, AddStale(c, p, i, k) \/ AddPool(c, p, i, k)
          PROVE  UNCHANGED ids
      BY <3>2, Zenon DEF AddStale, AddPool
    <3>3. \A c : AddOrip(c) => UNCHANGED ids \/ ids' = [ids EXCEPT !.orip = @ + 1]
      BY Zenon DEF AddOrip
    <3> QED
      BY <1>2, <3>1, <3>2, <3>3, Zenon DEF Plugin
  <2>2. ids'.pod = ids.pod
    BY <2>1 DEF IdsOK, IdFields
  <2>3. UNCHANGED <<pods, cpods, orec>>
    BY <1>2, PluginFrame, Zenon
  <2> QED
    BY <2>2, <2>3, PodsStay, Zenon
<1> QED
  BY <1>1, <1>2

LEMMA NextPods == IdentityInv /\ PodInv /\ [Next]_<<env, vars>> => PodInv'
<1> SUFFICES ASSUME IdentityInv, PodInv, [Next]_<<env, vars>> PROVE PodInv'
  BY Zenon
<1>1. IdsOK(ids)
  BY DEF IdentityInv
<1>2. CASE UNCHANGED <<env, vars>>
  <2>1. UNCHANGED <<pods, cpods, ids, orec>>
    BY <1>2 DEF vars
  <2> QED
    BY <2>1, PodsStay, Zenon
<1>3. CASE Next
  BY <1>1, <1>3, OthersPods, OrecPods, ClusterPods, Zenon DEF Next
<1> QED
  BY <1>2, <1>3

LEMMA InitPods == Init => PodInv
BY DEF Init, Idle, PodInv, Lagging

\* The reservation reconciler removes the reservation of a live pod only if the
\* pod cache it judged by had not caught up with that pod, whatever the cached
\* reservations hold, wherever a restart cuts a reconcile short, and though pods
\* and addresses of the same name come back.
THEOREM LiveKept == Spec => LiveReservationKept
<1> DEFINE A == OripDeletes => \A k \in Keys :
                  NamesLivePod(orips[k]) /\ orips'[k] # orips[k] =>
                    orec.pod = None \/ orec.pod.uid < orec.res.podUID
<1>1. IdentityInv /\ PodInv /\ [Next]_<<env, vars>> => [A]_vars
  <2> SUFFICES ASSUME IdentityInv, PodInv, [Next]_<<env, vars>>, OripDeletes, NEW k \in Keys,
                      NamesLivePod(orips[k]), orips'[k] # orips[k], orec.pod # None
               PROVE  orec.pod.uid < orec.res.podUID
    BY Zenon
  <2>1. ~Restart
    BY DEF Restart, world
  <2>2. OripDelete
    BY <2>1, OripDeletesBy, Zenon
  <2>3. /\ Precondition(orec.res.id, orips[orec.key])
        /\ orips' = [orips EXCEPT ![orec.key] = None]
    BY <2>2, Zenon DEF OripDelete
  <2>4. DOMAIN orips = Keys /\ orec.pc = "delete"
    BY DEF IdentityInv, Stored, OripDeletes
  <2>5. k = orec.key
    BY <2>3, <2>4, Zenon
  <2>6. Known(orec.res, orips, ids.orip)
    BY <2>4 DEF IdentityInv
  <2>7. SameAs(orips[k], orec.res)
    BY <2>3, <2>5, <2>6 DEF Known, Precondition
  <2> DEFINE x == pods[orec.res.podRef]
             y == orec.pod
  <2>8. orec.res.podRef \in Pods /\ Healthy(x) /\ x.uid = orec.res.podUID
    BY <2>7, Zenon DEF NamesLivePod, SameAs
  <2>9. Lagging(x, y, ids.pod) /\ Condemned(orec.res, y) /\ ids.pod \in Nat
    BY <2>4, <2>8, Zenon DEF PodInv, IdentityInv, IdsOK
  <2> HIDE DEF x, y
  <2>10. x # None /\ y # None
    BY <2>8 DEF Healthy, y
  <2>11. /\ x.uid \in 1..ids.pod /\ y.uid \in 1..ids.pod /\ x.uid >= y.uid
         /\ x.uid = y.uid /\ Healthy(x) => Healthy(y)
    BY <2>9, <2>10, Zenon DEF Lagging
  <2>12. x.uid # y.uid
    BY <2>8, <2>9, <2>11, Zenon DEF Condemned
  <2>13. y.uid < x.uid
    BY <2>9, <2>11, <2>12
  <2> QED
    BY <2>8, <2>13 DEF y
<1> QED
  BY <1>1, InitStatus, NextStatus, InitIdentity, NextIdentity, InitPods, NextPods, PTL
  DEF Spec, LiveReservationKept
=============================================================================
