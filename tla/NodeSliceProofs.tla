-------------------------- MODULE NodeSliceProofs --------------------------
(***************************************************************************)
(* Proofs about NodeSlice, for any number of nodes, NADs, slices and       *)
(* failures: no node ever holds two slices of a pool, and the slices that  *)
(* are published are those the NAD asks for.                               *)
(***************************************************************************)
EXTENDS NodeSlice, FiniteSetTheorems, TLAPS

\* A slot has a slice, any, and is free or has a node.
Slot(x) == [slice : {x.slice}, node : Nodes \cup {Free}]

\* The slots of an allocation list, and that no node has two of them.
Good(a) ==
  /\ DOMAIN a \subseteq Nat /\ IsFiniteSet(DOMAIN a) /\ a = [i \in DOMAIN a |-> a[i]]
  /\ \A i \in DOMAIN a : a[i] \in Slot(a[i])
  /\ \A i, j \in DOMAIN a : a[i].node = a[j].node => i = j \/ a[i].node = Free

GoodPool(p) ==
  DOMAIN p = {"range", "size", "owners", "alloc", "cond"} /\ Good(p.alloc)

\* NADs hold configurations, stored and cached.
ClusterInv ==
  /\ nodes \subseteq Nodes /\ cnodes \subseteq Nodes
  /\ nads \in [NADs -> Confs \cup {None}] /\ cnads \in [NADs -> Confs \cup {None}]
  /\ env \in Environments

\* The same for the stored pools and the cached ones, however old.
PoolInv ==
  /\ spools = [q \in PoolNames |-> spools[q]] /\ cspools = [q \in PoolNames |-> cspools[q]]
  /\ \A q \in PoolNames : /\ spools[q] = None \/ GoodPool(spools[q])
                          /\ cspools[q] = None \/ GoodPool(cspools[q])

\* What a reconcile in progress holds.
Reconciling(r) ==
  /\ DOMAIN r = {"pc", "nad", "conf", "nodes", "copy", "current", "changed", "stale", "todo",
                 "blocked", "want"}
  /\ r.conf \in Confs /\ r.conf.kind = "sliced" /\ r.nodes \subseteq Nodes
  /\ r.copy = None \/ GoodPool(r.copy)
  /\ r.pc \notin {"idle", "cleanup"} => GoodPool(r.copy)
  /\ DOMAIN r.want = {"alloc", "cond"} /\ Good(r.want.alloc)
  /\ r.pc = "assign" => r.todo \subseteq DOMAIN r.want.alloc

RecInv == rec = [pc |-> "idle"] \/ Reconciling(rec)

SliceInv == ClusterInv /\ PoolInv /\ RecInv
-----------------------------------------------------------------------------
(* Allocation lists                                                        *)

\* Members of a finite set of numbers have different places in it.
LEMMA RankInjective ==
  ASSUME NEW S \in SUBSET Nat, IsFiniteSet(S), NEW x \in S, NEW y \in S, Rank(S, x) = Rank(S, y)
  PROVE  x = y
<1>1. ASSUME NEW u \in S, NEW v \in S, u < v, Rank(S, u) = Rank(S, v) PROVE FALSE
  <2> DEFINE U == {z \in S : z <= u}
             V == {z \in S : z <= v}
  <2>0. u \in Nat /\ v \in Nat /\ \A z \in S : z \in Nat
    OBVIOUS
  <2>1. V \subseteq S /\ U \subseteq V /\ v \in V /\ v \notin U
    <3>1. \A z \in S : z <= u => z <= v
      BY <1>1, <2>0
    <3>2. v <= v /\ ~(v <= u)
      BY <1>1, <2>0
    <3> QED
      BY <3>1, <3>2, Zenon
  <2>2. IsFiniteSet(V)
    BY <2>1, FS_Subset
  <2>3. Cardinality(U) = Cardinality(V)
    BY <1>1 DEF Rank
  <2>4. U = V
    BY <2>1, <2>2, <2>3, FS_Subset
  <2> QED
    BY <2>1, <2>4
<1>2. x \in Nat /\ y \in Nat
  OBVIOUS
<1>3. ~(x < y) /\ ~(y < x)
  BY <1>1
<1> QED
  BY <1>2, <1>3

\* A node is not Free.
LEMMA NodeFacts == Nodes \subseteq Nat /\ IsFiniteSet(Nodes) /\ Free \notin Nodes
BY ConstantAssumption

\* A slot as makeAllocations and ensureNodeAssignments write it.
LEMMA SlotShape ==
  ASSUME NEW s, NEW n \in Nodes \cup {Free}
  PROVE  /\ [slice |-> s, node |-> n].slice = s /\ [slice |-> s, node |-> n].node = n
         /\ [slice |-> s, node |-> n] \in Slot([slice |-> s, node |-> n])
BY DEF Slot

\* makeAllocations gives no node two slices.
LEMMA MakeGood ==
  ASSUME NEW s, DOMAIN s \subseteq Nat, IsFiniteSet(DOMAIN s), NEW S \in SUBSET Nodes
  PROVE  Good(makeAllocations(s, S))
<1> DEFINE a == makeAllocations(s, S)
           P(i, n) == Rank(S, n) = i
           nd(i) == IF \E n \in S : P(i, n) THEN CHOOSE n \in S : P(i, n) ELSE Free
<1>1. DOMAIN a = DOMAIN s /\ a = [i \in DOMAIN a |-> a[i]]
  BY DEF makeAllocations
<1>2. \A i \in DOMAIN s : a[i] = [slice |-> s[i], node |-> nd(i)]
  BY DEF makeAllocations
<1>3. \A i \in DOMAIN s : nd(i) = Free \/ (nd(i) \in S /\ Rank(S, nd(i)) = i)
  OBVIOUS
<1> HIDE DEF a, nd
<1>4. \A i \in DOMAIN s : a[i].node = nd(i) /\ a[i] \in Slot(a[i])
  <2> TAKE i \in DOMAIN s
  <2>1. nd(i) \in Nodes \cup {Free}
    BY <1>3
  <2>2. a[i] = [slice |-> s[i], node |-> nd(i)]
    BY <1>2
  <2> QED
    BY <2>1, <2>2, SlotShape
<1>5. \A i, j \in DOMAIN s : a[i].node = a[j].node => i = j \/ a[i].node = Free
  BY <1>3, <1>4
<1>6. Good(a)
  BY <1>1, <1>4, <1>5 DEF Good
<1> QED
  BY <1>6 DEF a

\* repairAllocations keeps a list that fits, and adds free slots.
LEMMA RepairGood ==
  ASSUME NEW a, Good(a), NEW s, DOMAIN s \subseteq Nat, IsFiniteSet(DOMAIN s), NEW S \in SUBSET Nodes
  PROVE  Good(repairAllocations(a, s, S))
<1>1. CASE allocationsMatchSubnetPrefix(a, s)
  <2> DEFINE b == [i \in DOMAIN s |-> IF i \in DOMAIN a THEN a[i] ELSE [slice |-> s[i], node |-> Free]]
  <2>1. DOMAIN b = DOMAIN s /\ b = [i \in DOMAIN b |-> b[i]]
    OBVIOUS
  <2>2. \A i \in DOMAIN s : (b[i] = a[i] /\ i \in DOMAIN a) \/ b[i] = [slice |-> s[i], node |-> Free]
    OBVIOUS
  <2> HIDE DEF b
  <2>3. \A i \in DOMAIN s : /\ b[i] \in Slot(b[i])
                            /\ b[i].node = Free \/ (i \in DOMAIN a /\ b[i].node = a[i].node)
    <3> TAKE i \in DOMAIN s
    <3>1. CASE b[i] = a[i] /\ i \in DOMAIN a
      BY <3>1 DEF Good
    <3>2. CASE b[i] = [slice |-> s[i], node |-> Free]
      BY <3>2, SlotShape
    <3> QED
      BY <2>2, <3>1, <3>2, Zenon
  <2>4. \A i, j \in DOMAIN s : b[i].node = b[j].node => i = j \/ b[i].node = Free
    BY <2>3 DEF Good
  <2>5. Good(b)
    BY <2>1, <2>3, <2>4, Zenon DEF Good
  <2> QED
    BY <1>1, <2>5 DEF repairAllocations, b
<1>2. CASE ~allocationsMatchSubnetPrefix(a, s)
  BY <1>2, MakeGood, Zenon DEF repairAllocations
<1> QED
  BY <1>1, <1>2, Zenon

\* The free slots go to nodes that have none, each to another.
LEMMA AssignGood ==
  ASSUME NEW a, Good(a), NEW S \in SUBSET Nodes
  PROVE  Good(AssignFree(a, S))
<1> DEFINE new == S \ Holders(a)
           slots == FreeSlots(a)
           P(i, n) == Rank(new, n) = Rank(slots, i)
           b == AssignFree(a, S)
<1>1. DOMAIN b = DOMAIN a /\ b = [i \in DOMAIN b |-> b[i]]
  BY DEF AssignFree
<1>2. \A i \in DOMAIN a :
        b[i] = IF i \in slots /\ \E n \in new : P(i, n)
               THEN [a[i] EXCEPT !.node = CHOOSE n \in new : P(i, n)] ELSE a[i]
  BY DEF AssignFree
<1>3. /\ slots \subseteq DOMAIN a /\ slots \in SUBSET Nat /\ new \subseteq Nodes /\ Free \notin new
      /\ \A i \in DOMAIN a : a[i].node \notin new
  BY NodeFacts DEF FreeSlots, Holders, Good
<1>4. IsFiniteSet(slots)
  BY <1>3, FS_Subset, Zenon DEF Good
<1> HIDE DEF b, new, slots
<1>5. ASSUME NEW i \in DOMAIN a
      PROVE  \/ b[i] = a[i]
             \/ /\ i \in slots /\ b[i].node \in new /\ Rank(new, b[i].node) = Rank(slots, i)
                /\ b[i] = [slice |-> a[i].slice, node |-> b[i].node]
  <2>1. CASE i \in slots /\ \E n \in new : P(i, n)
    <3> DEFINE n0 == CHOOSE n \in new : P(i, n)
    <3>1. n0 \in new /\ P(i, n0)
      BY <2>1
    <3>2. b[i] = [a[i] EXCEPT !.node = n0]
      BY <1>2, <2>1
    <3>3. a[i] \in Slot(a[i])
      BY DEF Good
    <3>0. a[i] \in [slice : {a[i].slice}, node : Nodes \cup {Free}]
      BY <3>3 DEF Slot
    <3> HIDE DEF n0
    <3>4. b[i] = [slice |-> a[i].slice, node |-> n0] /\ b[i].node = n0
      BY <3>0, <3>2
    <3> QED
      BY <2>1, <3>1, <3>4
  <2>2. CASE ~(i \in slots /\ \E n \in new : P(i, n))
    BY <1>2, <2>2, Zenon
  <2> QED
    BY <2>1, <2>2, Zenon
<1>6. ASSUME NEW i \in DOMAIN a PROVE b[i] \in Slot(b[i])
  <2>1. CASE b[i] = a[i]
    BY <2>1 DEF Good
  <2>2. CASE b[i].node \in new /\ b[i] = [slice |-> a[i].slice, node |-> b[i].node]
    <3>1. b[i].node \in Nodes \cup {Free}
      BY <1>3, <2>2
    <3> QED
      BY <2>2, <3>1, SlotShape
  <2> QED
    BY <1>5, <2>1, <2>2
<1>7. ASSUME NEW i \in DOMAIN a, NEW j \in DOMAIN a, b[i].node = b[j].node, b[i].node # Free
      PROVE  i = j
  <2>1. CASE b[i].node \in new
    <3>1. i \in slots /\ j \in slots /\ Rank(slots, i) = Rank(slots, j)
      BY <1>3, <1>5, <1>7, <2>1, Zenon
    <3> QED
      BY <1>3, <1>4, <3>1, RankInjective, Zenon
  <2>2. CASE b[i].node \notin new
    <3>1. b[i] = a[i] /\ b[j] = a[j]
      BY <1>5, <1>7, <2>2, Zenon
    <3> QED
      BY <1>7, <3>1 DEF Good
  <2> QED
    BY <2>1, <2>2, Zenon
<1>8. \A i, j \in DOMAIN a : b[i].node = b[j].node => i = j \/ b[i].node = Free
  BY <1>7
<1>9. Good(b)
  BY <1>1, <1>6, <1>8 DEF Good
<1> QED
  BY <1>9 DEF b

\* A slot that is released is free.
LEMMA ReleaseGood ==
  ASSUME NEW a, Good(a), NEW i \in DOMAIN a
  PROVE  Good([a EXCEPT ![i].node = Free])
<1> DEFINE b == [a EXCEPT ![i].node = Free]
<1>1. a[i] \in Slot(a[i]) /\ a = [j \in DOMAIN a |-> a[j]]
  BY DEF Good
<1>2. DOMAIN b = DOMAIN a /\ b = [j \in DOMAIN b |-> b[j]]
  OBVIOUS
<1>3. \A j \in DOMAIN a : j # i => b[j] = a[j]
  BY <1>1
<1>4. b[i] = [a[i] EXCEPT !.node = Free]
  BY <1>1
<1>5. b[i] = [slice |-> a[i].slice, node |-> Free]
  BY <1>1, <1>4, Zenon DEF Slot
<1> HIDE DEF b
<1>6. \A j \in DOMAIN a : b[j] \in Slot(b[j])
  BY <1>3, <1>5, SlotShape DEF Good
<1>7. b[i].node = Free
  BY <1>5
<1>8. \A j, k \in DOMAIN a : b[j].node = b[k].node => j = k \/ b[j].node = Free
  BY <1>3, <1>7, Zenon DEF Good
<1>9. Good(b)
  BY <1>2, <1>6, <1>8, Zenon DEF Good
<1> QED
  BY <1>9, Zenon DEF b

\* The list of a new pool is empty.
LEMMA EmptyGood == Good(<<>>)
BY FS_EmptySet DEF Good
-----------------------------------------------------------------------------
(* Pools                                                                   *)

\* A write of one pool keeps all allocation lists good if it stores a good one.
LEMMA StoreGood ==
  ASSUME PoolInv, NEW q \in PoolNames, NEW p, p = None \/ GoodPool(p), Store(q, p)
  PROVE  PoolInv'
BY DEF PoolInv, Store

\* A pool stays good when only its owners or its spec changes.
LEMMA PoolOwners ==
  ASSUME NEW p, GoodPool(p), NEW o
  PROVE  GoodPool([p EXCEPT !.owners = o])
BY DEF GoodPool

LEMMA PoolSpec ==
  ASSUME NEW p, GoodPool(p), NEW x, NEW z
  PROVE  GoodPool([p EXCEPT !.range = x, !.size = z])
BY DEF GoodPool

\* The status that is written decides.
LEMMA PoolStatus ==
  ASSUME NEW p, GoodPool(p), NEW a, Good(a), NEW c
  PROVE  /\ GoodPool([p EXCEPT !.alloc = a, !.cond = c])
         /\ [p EXCEPT !.alloc = a, !.cond = c].alloc = a
BY DEF GoodPool

\* The pool of a reconcile is a pool, and its slices are numbered from one.
LEMMA ReconcileFacts ==
  ASSUME Reconciling(rec)
  PROVE  /\ Q \in PoolNames
         /\ DOMAIN Wanted \subseteq Nat /\ IsFiniteSet(DOMAIN Wanted)
<1>1. Q \in PoolNames
  BY DEF Reconciling, Q, PoolNames
<1>2. DOMAIN Wanted = 1..Len(Wanted) /\ Len(Wanted) \in Nat
  BY ConstantAssumption DEF Reconciling, Wanted
<1>3. IsFiniteSet(1..Len(Wanted)) /\ 1..Len(Wanted) \subseteq Nat
  BY <1>2, FS_Interval
<1> QED
  BY <1>1, <1>2, <1>3, Zenon
-----------------------------------------------------------------------------
(* The reconciler                                                          *)

\* A reconcile goes on with a good copy and a good status to write.
LEMMA GoOn ==
  ASSUME NEW r, Reconciling(r), NEW x, NEW p, GoodPool(p), NEW a, Good(a), NEW c
  PROVE  /\ Reconciling([r EXCEPT !.pc = "owned", !.current = x, !.copy = p])
         /\ Reconciling([r EXCEPT !.pc = "status", !.current = x, !.copy = p,
                                  !.want = [alloc |-> a, cond |-> c]])
         /\ GoodPool(r.copy) => Reconciling([r EXCEPT !.pc = "owned"])
         /\ GoodPool(r.copy) => Reconciling([r EXCEPT !.pc = "status", !.want = [alloc |-> a, cond |-> c]])
         /\ GoodPool(r.copy) => Reconciling([r EXCEPT !.pc = "rebuild", !.want = [alloc |-> a, cond |-> c]])
<1>1. Reconciling([r EXCEPT !.pc = "owned", !.current = x, !.copy = p])
  BY Zenon DEF Reconciling
<1>2. Reconciling([r EXCEPT !.pc = "status", !.current = x, !.copy = p, !.want = [alloc |-> a, cond |-> c]])
  BY DEF Reconciling
<1>3. ASSUME GoodPool(r.copy) PROVE Reconciling([r EXCEPT !.pc = "owned"])
  BY <1>3 DEF Reconciling
<1>4. ASSUME GoodPool(r.copy)
      PROVE  /\ Reconciling([r EXCEPT !.pc = "status", !.want = [alloc |-> a, cond |-> c]])
             /\ Reconciling([r EXCEPT !.pc = "rebuild", !.want = [alloc |-> a, cond |-> c]])
  BY <1>4, Zenon DEF Reconciling
<1> QED
  BY <1>1, <1>2, <1>3, <1>4

\* Reconcile reads the copy from the cache.
LEMMA BeginStep == ASSUME SliceInv, NEW d \in NADs, Begin(d) PROVE RecInv'
<1> DEFINE c == cnads[d]
           q == nodeSlicePoolName(c)
<1>1. CASE rec' = rec
  BY <1>1, Zenon DEF SliceInv, RecInv, Reconciling
<1>2. CASE Sliced(c) /\ ~checkMultiNADMismatch(d)
  <2>1. c \in Confs /\ c.kind = "sliced" /\ q \in PoolNames
    BY <1>2 DEF SliceInv, ClusterInv, Sliced, PoolNames
  <2>2. cspools[q] = None \/ GoodPool(cspools[q])
    BY <2>1, Zenon DEF SliceInv, PoolInv
  <2>3. PICK x, y, z : rec' = [pc |-> "cleanup", nad |-> d, conf |-> c, nodes |-> cnodes,
                             copy |-> cspools[q], current |-> x, changed |-> y, stale |-> z,
                             todo |-> {}, blocked |-> FALSE, want |-> [alloc |-> <<>>, cond |-> NoCond]]
    BY <1>2 DEF Begin
  <2>4. cnodes \subseteq Nodes
    BY DEF SliceInv, ClusterInv
  <2> HIDE DEF c, q
  <2>5. Reconciling(rec')
    BY <2>1, <2>2, <2>3, <2>4, EmptyGood, Zenon DEF Reconciling
  <2> QED
    BY <2>5, Zenon DEF RecInv
<1> QED
  BY <1>1, <1>2, Zenon DEF Begin

\* Pools the NAD owned before are deleted, or lose an owner.
LEMMA CleanupStep == ASSUME SliceInv, NEW q \in PoolNames, Cleanup(q) PROVE PoolInv' /\ RecInv'
<1>1. Reconciling(rec)
  BY DEF SliceInv, RecInv, Cleanup
<1>2. PICK p : (p = None \/ GoodPool(p)) /\ Store(q, p)
  <2>1. CASE rec.stale[q] = {}
    BY <2>1 DEF Cleanup
  <2>2. CASE rec.stale[q] # {}
    <3>1. GoodPool(spools[q]) /\ Store(q, [spools[q] EXCEPT !.owners = rec.stale[q]])
      BY <2>2 DEF Cleanup, SliceInv, PoolInv
    <3> QED
      BY <3>1, PoolOwners
  <2> QED
    BY <2>1, <2>2, Zenon
<1>3. PoolInv'
  BY <1>2, StoreGood DEF SliceInv
<1>4. PICK x : rec' = [rec EXCEPT !.stale = x]
  BY Zenon DEF Cleanup
<1>5. Reconciling(rec')
  BY <1>1, <1>4 DEF Reconciling
<1> QED
  BY <1>3, <1>5, Zenon DEF RecInv

\* createPool stores a pool without allocations, and those it will write are
\* good.
LEMMA CreateStep == ASSUME SliceInv, Create PROVE PoolInv' /\ RecInv'
<1>1. CASE spools[Q] # None
  BY <1>1 DEF Create, Done, NoRequest, caches, SliceInv, PoolInv, RecInv
<1>2. CASE spools[Q] = None
  <2> DEFINE p == [range |-> rec.conf.range, size |-> rec.conf.size, owners |-> {rec.nad},
                   alloc |-> <<>>, cond |-> NoCond]
             m == makeAllocations(Wanted, rec.nodes)
  <2>1. Reconciling(rec)
    BY DEF SliceInv, RecInv, Create
  <2>2. GoodPool(p)
    BY EmptyGood DEF GoodPool
  <2>3. rec.nodes \in SUBSET Nodes
    BY <2>1, Zenon DEF Reconciling
  <2>4. Good(m)
    BY <2>1, <2>3, ReconcileFacts, MakeGood, Zenon
  <2>5. /\ Store(Q, p)
        /\ rec' = [rec EXCEPT !.pc = "status", !.current = @ \cup {Q}, !.copy = p,
                     !.want = [alloc |-> m, cond |-> markReady("created")]]
    BY <1>2 DEF Create
  <2> HIDE DEF p, m
  <2>6. PoolInv'
    BY <2>1, <2>2, <2>5, ReconcileFacts, StoreGood, Zenon DEF SliceInv
  <2>7. Reconciling(rec')
    BY <2>1, <2>2, <2>4, <2>5, GoOn, Zenon
  <2> QED
    BY <2>6, <2>7 DEF RecInv
<1> QED
  BY <1>1, <1>2

\* ensureOwnerRef leaves the allocations alone.
LEMMA OwnerStep == ASSUME SliceInv, Owner PROVE PoolInv' /\ RecInv'
<1>1. Reconciling(rec)
  BY DEF SliceInv, RecInv, Owner
<1>2. GoodPool(rec.copy)
  BY <1>1, Zenon DEF Owner, Reconciling
<1>3. CASE rec.nad \in rec.copy.owners
  <2>1. rec' = [rec EXCEPT !.pc = "owned"] /\ PoolInv'
    BY <1>3 DEF Owner, NoRequest, caches, SliceInv, PoolInv
  <2>2. Reconciling(rec')
    BY <1>1, <1>2, <2>1, EmptyGood, GoOn, Zenon
  <2> QED
    BY <2>1, <2>2 DEF RecInv
<1>4. CASE rec.nad \notin rec.copy.owners /\ spools[Q] = None
  BY <1>4, Zenon DEF Owner, Done, NoRequest, caches, SliceInv, PoolInv, RecInv
<1>5. CASE rec.nad \notin rec.copy.owners /\ spools[Q] # None
  <2> DEFINE p == [spools[Q] EXCEPT !.owners = rec.copy.owners \cup {rec.nad}]
  <2>1. Q \in PoolNames
    BY <1>1, ReconcileFacts, Zenon
  <2>2. GoodPool(spools[Q])
    BY <1>5, <2>1 DEF SliceInv, PoolInv
  <2>3. GoodPool(p)
    BY <2>2, PoolOwners, Zenon
  <2>4. /\ Store(Q, p)
        /\ rec' = [rec EXCEPT !.pc = "owned", !.current = @ \cup {Q}, !.copy = p]
    BY <1>5, Zenon DEF Owner
  <2> HIDE DEF p
  <2>5. PoolInv'
    BY <2>1, <2>3, <2>4, StoreGood, Zenon DEF SliceInv
  <2>6. Reconciling(rec')
    BY <1>1, <2>3, <2>4, EmptyGood, GoOn, Zenon
  <2> QED
    BY <2>5, <2>6 DEF RecInv
<1> QED
  BY <1>3, <1>4, <1>5

\* updatePoolSpec writes the spec and prepares a good status.
LEMMA UpdatePoolSpecStep == ASSUME SliceInv, UpdatePoolSpec PROVE PoolInv' /\ RecInv'
<1> DEFINE m == makeAllocations(Wanted, rec.nodes)
           same == <<rec.conf.range, rec.conf.size>> = <<rec.copy.range, rec.copy.size>>
<1>1. Reconciling(rec)
  BY DEF SliceInv, RecInv, UpdatePoolSpec
<1>2. GoodPool(rec.copy) /\ rec.nodes \in SUBSET Nodes
  BY <1>1, Zenon DEF UpdatePoolSpec, Reconciling
<1>3. Good(m)
  BY <1>1, <1>2, ReconcileFacts, MakeGood, Zenon
<1>4. CASE same
  <2>1. /\ rec' = [rec EXCEPT !.pc = "status", !.want = [alloc |-> m, cond |-> markReady("updated")]]
        /\ NoRequest
    BY <1>4 DEF UpdatePoolSpec
  <2>2. PoolInv'
    BY <2>1 DEF NoRequest, caches, SliceInv, PoolInv
  <2> HIDE DEF m
  <2>3. Reconciling(rec')
    BY <1>1, <1>2, <1>3, <2>1, GoOn, Zenon
  <2> QED
    BY <2>2, <2>3 DEF RecInv
<1>5. CASE ~same /\ spools[Q] = None
  BY <1>5, Zenon DEF UpdatePoolSpec, Done, NoRequest, caches, SliceInv, PoolInv, RecInv
<1>6. CASE ~same /\ spools[Q] # None
  <2> DEFINE diff(f) == IF rec.conf[f] # rec.copy[f] THEN rec.conf[f] ELSE spools[Q][f]
             p == [spools[Q] EXCEPT !.range = diff("range"), !.size = diff("size")]
  <2>1. Q \in PoolNames
    BY <1>1, ReconcileFacts
  <2>2. GoodPool(spools[Q])
    BY <1>6, <2>1 DEF SliceInv, PoolInv
  <2>3. GoodPool(p)
    BY <2>2, PoolSpec, Zenon
  <2>4. /\ Store(Q, p)
        /\ rec' = [rec EXCEPT !.pc = "status", !.current = @ \cup {Q}, !.copy = p,
                     !.want = [alloc |-> m, cond |-> markReady("updated")]]
    BY <1>6 DEF UpdatePoolSpec
  <2> HIDE DEF p, m
  <2>5. PoolInv'
    BY <2>1, <2>3, <2>4, StoreGood, Zenon DEF SliceInv
  <2>6. Reconciling(rec')
    BY <1>1, <1>3, <2>3, <2>4, GoOn, Zenon
  <2> QED
    BY <2>5, <2>6 DEF RecInv
<1> QED
  BY <1>4, <1>5, <1>6, Zenon

\* rebuildPoolStatus prepares a good status.
LEMMA RebuildStep == ASSUME SliceInv, Rebuild PROVE RecInv'
<1> DEFINE m == repairAllocations(rec.copy.alloc, Wanted, rec.nodes)
<1>1. Reconciling(rec)
  BY DEF SliceInv, RecInv, Rebuild
<1>2. GoodPool(rec.copy) /\ Good(rec.copy.alloc) /\ rec.nodes \in SUBSET Nodes
  BY <1>1 DEF Rebuild, Reconciling, GoodPool
<1>3. Good(m)
  BY <1>1, <1>2, ReconcileFacts, RepairGood
<1>4. rec' = [rec EXCEPT !.pc = "rebuild", !.want = [alloc |-> m, cond |-> markReady("rebuilt")]]
  BY DEF Rebuild
<1> HIDE DEF m
<1>5. Reconciling(rec')
  BY <1>1, <1>2, <1>3, <1>4, GoOn, Zenon
<1> QED
  BY <1>5 DEF RecInv

\* ensureNodeAssignments starts from the allocations of the copy.
LEMMA StartGood ==
  ASSUME Reconciling(rec), NEW p, GoodPool(p)
  PROVE  Reconciling(StartAssignments(p))
<1>1. Good(p.alloc) /\ Gone(p.alloc, rec.nodes) \subseteq DOMAIN p.alloc
  BY DEF GoodPool, Gone
<1> QED
  BY <1>1 DEF Reconciling, StartAssignments

\* A slot is released, or kept.
LEMMA ReleaseStep ==
  ASSUME SliceInv, NEW i, releaseDeletedNodeSlice(i)
  PROVE  RecInv'
<1> DEFINE a == rec.want.alloc
<1>0. rec.pc = "assign" /\ i \in rec.todo
  BY Zenon DEF releaseDeletedNodeSlice
<1>1. Reconciling(rec)
  BY <1>0 DEF SliceInv, RecInv
<1>2. Good(a) /\ i \in DOMAIN a
  BY <1>0, <1>1 DEF Reconciling
<1>3. PICK x, y : /\ y = a[i].node \/ y = Free
                  /\ rec' = [rec EXCEPT !.todo = @ \ {i}, !.blocked = x, !.want.alloc[i].node = y]
  BY Zenon DEF releaseDeletedNodeSlice
<1> DEFINE b == [a EXCEPT ![i].node = y]
<1>4. Good(b) /\ DOMAIN b = DOMAIN a
  <2>1. CASE y = Free
    BY <1>2, <2>1, ReleaseGood, Zenon
  <2>2. CASE y = a[i].node
    <3>1. a[i] \in [slice : {a[i].slice}, node : Nodes \cup {Free}] /\ a = [k \in DOMAIN a |-> a[k]]
      BY <1>2 DEF Good, Slot
    <3>2. [a[i] EXCEPT !.node = y] = a[i]
      BY <2>2, <3>1, Zenon
    <3>3. b = a
      BY <3>1, <3>2, Zenon
    <3> QED
      BY <1>2, <3>3, Zenon
  <2> QED
    BY <1>3, <2>1, <2>2, Zenon
<1> DEFINE w == [rec.want EXCEPT !.alloc[i].node = y]
<1>5. DOMAIN w = {"alloc", "cond"} /\ w.alloc = b
  BY <1>1 DEF Reconciling
<1>6. rec' = [rec EXCEPT !.todo = @ \ {i}, !.blocked = x, !.want = w]
  BY <1>3
<1> HIDE DEF b, w
<1>7. Reconciling(rec')
  BY <1>0, <1>1, <1>4, <1>5, <1>6, Zenon DEF Reconciling
<1> QED
  BY <1>7 DEF RecInv

\* Nodes without a slice take the free slots.
LEMMA AssignStep == ASSUME SliceInv, Assign PROVE RecInv'
<1> DEFINE m == AssignFree(rec.want.alloc, rec.nodes)
<1>1. Reconciling(rec)
  BY DEF SliceInv, RecInv, Assign
<1>2. GoodPool(rec.copy) /\ Good(rec.want.alloc) /\ rec.nodes \in SUBSET Nodes
  BY <1>1, Zenon DEF Assign, Reconciling
<1>3. Good(m)
  BY <1>2, AssignGood
<1>4. \/ rec' = [pc |-> "idle"]
      \/ \E c : rec' = [rec EXCEPT !.pc = "status", !.want = [alloc |-> m, cond |-> c]]
  BY Zenon DEF Assign, Done
<1> HIDE DEF m
<1>5. ASSUME NEW c, rec' = [rec EXCEPT !.pc = "status", !.want = [alloc |-> m, cond |-> c]]
      PROVE  Reconciling(rec')
  BY <1>1, <1>2, <1>3, <1>5, GoOn, Zenon
<1> QED
  BY <1>4, <1>5, Zenon DEF RecInv

\* The status that is written is the one prepared.
LEMMA UpdateStatusStep == ASSUME SliceInv, UpdateStatus PROVE PoolInv' /\ RecInv'
<1>1. Reconciling(rec)
  BY DEF SliceInv, RecInv, UpdateStatus
<1>2. GoodPool(rec.copy) /\ Good(rec.want.alloc) /\ Q \in PoolNames
  BY <1>1, ReconcileFacts, Zenon DEF UpdateStatus, Reconciling
<1>3. CASE ~(spools[Q] # None /\ Q \in rec.current)
  BY <1>3 DEF UpdateStatus, Done, NoRequest, caches, SliceInv, PoolInv, RecInv
<1>4. CASE spools[Q] # None /\ Q \in rec.current
  <2> DEFINE a == rec.want.alloc
             c == rec.want.cond
             p == [rec.copy EXCEPT !.alloc = a, !.cond = c]
             s == [spools[Q] EXCEPT !.alloc = p.alloc, !.cond = p.cond]
  <2>0. Good(a)
    BY <1>2
  <2> HIDE DEF a, c
  <2>1. GoodPool(p) /\ p.alloc = a
    BY <1>2, <2>0, PoolStatus, Zenon
  <2>2. GoodPool(spools[Q])
    BY <1>2, <1>4 DEF SliceInv, PoolInv
  <2>3. Good(p.alloc)
    BY <2>0, <2>1, Zenon
  <2>4. Store(Q, s) /\ (rec' = StartAssignments(p) \/ rec' = [pc |-> "idle"])
    BY <1>4 DEF UpdateStatus, Done, a, c
  <2> HIDE DEF p
  <2>5. GoodPool(s)
    BY <2>2, <2>3, PoolStatus, Zenon
  <2> HIDE DEF s
  <2>6. PoolInv'
    BY <1>2, <2>4, <2>5, StoreGood, Zenon DEF SliceInv
  <2>7. rec' = [pc |-> "idle"] \/ Reconciling(rec')
    BY <1>1, <2>1, <2>4, StartGood, Zenon
  <2> QED
    BY <2>6, <2>7, Zenon DEF RecInv
<1> QED
  BY <1>3, <1>4, Zenon
-----------------------------------------------------------------------------
(* All steps                                                               *)

\* The invariant holds in the initial states.
LEMMA InitInv == Init => SliceInv
<1> SUFFICES ASSUME Init PROVE SliceInv
  BY Zenon
<1>1. ClusterInv
  BY ConstantAssumption, Zenon DEF Init, ClusterInv
<1>2. PoolInv
  BY DEF Init, PoolInv
<1>3. RecInv
  BY DEF Init, RecInv
<1> QED
  BY <1>1, <1>2, <1>3 DEF SliceInv

\* NADs and nodes change, and the caches follow.
LEMMA ClusterStep == ASSUME SliceInv, UNCHANGED env, Cluster PROVE SliceInv'
<1>1. ASSUME NEW d \in NADs, EditNAD(d) PROVE ClusterInv'
  <2>1. PICK c \in Confs \cup {None} : nads' = [nads EXCEPT ![d] = c]
    BY <1>1, ConstantAssumption, Zenon DEF EditNAD, SliceInv, ClusterInv
  <2> QED
    BY <1>1, <2>1 DEF EditNAD, SliceInv, ClusterInv, caches
<1>2. ASSUME NEW n \in Nodes, NodeJoins(n) \/ NodeLeaves(n) PROVE ClusterInv'
  BY <1>2 DEF NodeJoins, NodeLeaves, SliceInv, ClusterInv, caches
<1>3. ASSUME NEW q \in PoolNames, Collect(q) PROVE SliceInv'
  <2>1. ClusterInv'
    BY <1>3 DEF Collect, SliceInv, ClusterInv
  <2>2. PoolInv'
    BY <1>3, Zenon DEF Collect, SliceInv, PoolInv
  <2>3. CASE rec' = rec
    BY <2>1, <2>2, <2>3 DEF SliceInv, RecInv, Reconciling
  <2>4. CASE rec.pc # "idle"
    <3>1. Reconciling(rec) /\ rec' = [rec EXCEPT !.current = @ \ {q}]
      BY <1>3, <2>4, SMT, Zenon DEF Collect, SliceInv, RecInv
    <3>2. Reconciling(rec')
      BY <3>1, Zenon DEF Reconciling
    <3> QED
      BY <2>1, <2>2, <3>2 DEF SliceInv, RecInv
  <2> QED
    BY <1>3, <2>3, <2>4 DEF Collect
<1>4. ASSUME SyncNodes \/ SyncNADs \/ SyncPools \/ SyncIPPools PROVE ClusterInv' /\ PoolInv' /\ rec' = rec
  <2>1. ClusterInv'
    BY <1>4, Zenon DEF SyncNodes, SyncNADs, SyncPools, SyncIPPools, SliceInv, ClusterInv
  <2>2. PoolInv'
    BY <1>4 DEF SyncNodes, SyncNADs, SyncPools, SyncIPPools, SliceInv, PoolInv
  <2> QED
    BY <1>4, <2>1, <2>2, Zenon DEF SyncNodes, SyncNADs, SyncPools, SyncIPPools
<1>5. ASSUME NEW d \in NADs, EditNAD(d) PROVE PoolInv' /\ rec' = rec
  BY <1>5 DEF EditNAD, SliceInv, PoolInv, caches
<1>6. ASSUME NEW n \in Nodes, NodeJoins(n) \/ NodeLeaves(n) PROVE PoolInv' /\ rec' = rec
  BY <1>6, Zenon DEF NodeJoins, NodeLeaves, SliceInv, PoolInv, caches
<1>7. ASSUME rec' = rec PROVE RecInv'
  BY <1>7, Zenon DEF SliceInv, RecInv, Reconciling
<1> QED
  BY <1>1, <1>2, <1>3, <1>4, <1>5, <1>6, <1>7, ZenonT(60) DEF Cluster, SliceInv

\* The plugin only reads pools.
LEMMA PluginStep == ASSUME SliceInv, UNCHANGED env, Plugin PROVE SliceInv'
<1>1. UNCHANGED <<nodes, nads, spools, cnodes, cnads, cspools, rec>>
  BY Zenon DEF Plugin, StartPod, AddLookup, AddCommit, Del, RemoveOrphans, caches
<1> QED
  BY <1>1 DEF SliceInv, ClusterInv, PoolInv, RecInv, Reconciling

\* The operator restarts or a request fails.
LEMMA FaultStep == ASSUME SliceInv, UNCHANGED env, Restart \/ Fail PROVE SliceInv'
<1>1. rec' = [pc |-> "idle"]
  BY DEF Restart, Fail, Done
<1>2. ClusterInv'
  BY Zenon DEF Restart, Fail, caches, SliceInv, ClusterInv
<1>3. PoolInv'
  BY Zenon DEF Restart, Fail, caches, SliceInv, PoolInv
<1> QED
  BY <1>1, <1>2, <1>3, Zenon DEF SliceInv, RecInv

\* Every step of a reconcile.
LEMMA ReconcileStep == ASSUME SliceInv, UNCHANGED env, Reconcile PROVE SliceInv'
<1>1. ClusterInv'
  <2>1. UNCHANGED <<nodes, nads, cnodes, cnads>>
    BY Zenon DEF Reconcile, Begin, Cleanup, CleanupConflict, Create, Owner, UpdatePoolSpec, Rebuild,
       EnsureNodeAssignments, releaseDeletedNodeSlice, Assign, UpdateStatus, Store, NoRequest, caches
  <2> QED
    BY <2>1, Zenon DEF SliceInv, ClusterInv
<1>2. ASSUME UNCHANGED <<spools, cspools>> PROVE PoolInv'
  BY <1>2, Zenon DEF SliceInv, PoolInv
<1>3. ASSUME NEW d \in NADs, Begin(d) PROVE PoolInv' /\ RecInv'
  BY <1>2, <1>3, BeginStep, Zenon DEF Begin, caches
<1>4. ASSUME NEW q \in PoolNames, CleanupConflict(q) PROVE PoolInv' /\ RecInv'
  BY <1>2, <1>4, Zenon DEF CleanupConflict, Done, NoRequest, caches, RecInv
<1>5. ASSUME Rebuild PROVE PoolInv' /\ RecInv'
  BY <1>2, <1>5, RebuildStep, Zenon DEF Rebuild, NoRequest, caches
<1>6. ASSUME EnsureNodeAssignments PROVE PoolInv' /\ RecInv'
  <2>1. Reconciling(rec)
    BY <1>6 DEF EnsureNodeAssignments, SliceInv, RecInv
  <2>2. GoodPool(rec.copy) /\ rec' = StartAssignments(rec.copy)
    BY <1>6, <2>1 DEF EnsureNodeAssignments, Reconciling
  <2>3. Reconciling(rec')
    BY <2>1, <2>2, StartGood, Zenon
  <2> QED
    BY <1>2, <1>6, <2>3, Zenon DEF EnsureNodeAssignments, NoRequest, caches, RecInv
<1>7. ASSUME NEW i, releaseDeletedNodeSlice(i) PROVE PoolInv' /\ RecInv'
  BY <1>2, <1>7, ReleaseStep, Zenon DEF releaseDeletedNodeSlice, caches
<1>8. ASSUME Assign PROVE PoolInv' /\ RecInv'
  BY <1>2, <1>8, AssignStep, Zenon DEF Assign, NoRequest, caches
<1>9. PoolInv' /\ RecInv'
  BY <1>3, <1>4, <1>5, <1>6, <1>7, <1>8, CleanupStep, CreateStep, OwnerStep, UpdatePoolSpecStep,
     UpdateStatusStep, ZenonT(60) DEF Reconcile
<1> QED
  BY <1>1, <1>9 DEF SliceInv

\* Every step keeps the invariant.
LEMMA NextInv == ASSUME SliceInv, [Next]_<<env, exposed, vars>> PROVE SliceInv'
<1>1. CASE Next
  BY <1>1, ReconcileStep, ClusterStep, PluginStep, FaultStep, Zenon DEF Next
<1>2. CASE UNCHANGED <<env, exposed, vars>>
  BY <1>2 DEF vars, SliceInv, ClusterInv, PoolInv, RecInv, Reconciling
<1> QED
  BY <1>1, <1>2, Zenon

\* No node ever holds two slices of a pool, in the status stored by any sequence
\* of creations, re-slicings, repairs, releases and assignments, by reconciles
\* that read stale caches, fail or are cut short (NodeSliceReconciler.Reconcile).
THEOREM NoNodeTwice == Spec => []OneSlicePerNode
<1>1. SliceInv => OneSlicePerNode
  BY Zenon DEF SliceInv, PoolInv, GoodPool, Good, OneSlicePerNode
<1> QED
  BY <1>1, InitInv, NextInv, PTL DEF Spec
-----------------------------------------------------------------------------
(* The slices that are published                                           *)

\* A list is a sequence; it has the slices s, in order.
Listed(a) == DOMAIN a = 1..Len(a) /\ Len(a) \in Nat
Fits(a, s) == DOMAIN a = DOMAIN s /\ \A i \in DOMAIN s : a[i].slice = s[i]

\* Stored and cached lists are sequences, and a fresh copy is the stored pool.
ListInv ==
  /\ \A q \in PoolNames : /\ spools[q] = None \/ Listed(spools[q].alloc)
                          /\ cspools[q] = None \/ Listed(cspools[q].alloc)
  /\ fresh \subseteq PoolNames /\ \A q \in fresh : cspools[q] = spools[q]

\* The pool has the range and slice size of the configuration.
AsAsked(p, c) == p.range = c.range /\ p.size = c.size

\* What a reconcile r may rely on when p is what is stored: it has no other
\* version of p than p itself, the status it prepares has the slices of its NAD,
\* and, if it started from the operator's last write, its copy has the range and
\* slice size of its NAD unless it is yet to write them.
Planned(r, p, stale) ==
  /\ r.pc # "idle" /\ DOMAIN r.stale \subseteq PoolNames \ {nodeSlicePoolName(r.conf)}
  /\ nodeSlicePoolName(r.conf) \in r.current => p = r.copy
  /\ r.pc = "cleanup" => r.copy = None \/ Listed(r.copy.alloc)
  /\ r.pc # "cleanup" => Listed(r.copy.alloc)
  /\ r.pc \in {"status", "rebuild", "assign"} => Fits(r.want.alloc, Subnets(r.conf.range, r.conf.size))
  /\ ~stale =>
       /\ nodeSlicePoolName(r.conf) \in r.current \/ p = None
       /\ r.pc = "cleanup" => r.copy = None \/ r.changed \/ AsAsked(r.copy, r.conf)
       /\ r.pc = "owned" => r.changed \/ AsAsked(r.copy, r.conf)
       /\ r.pc \in {"status", "rebuild", "assign"} => AsAsked(r.copy, r.conf)

PlanInv == rec = [pc |-> "idle"] \/ Planned(rec, spools[Q], env.stalePools)

\* What PublishedSlicesMatchSpec says of a step.
Publishes ==
  \A q \in PoolNames :
    spools[q] # None /\ spools'[q] # None /\ spools'[q].alloc # spools[q].alloc =>
      /\ DOMAIN spools'[q].alloc = DOMAIN Wanted
      /\ \A i \in DOMAIN Wanted : spools'[q].alloc[i].slice = Wanted[i]
      /\ ~env.stalePools =>
           <<spools[q].range, spools[q].size>> = <<rec.conf.range, rec.conf.size>>

\* A function on 1..n is a sequence.
LEMMA ListedOf ==
  ASSUME NEW n \in Nat, NEW f, f = [i \in DOMAIN f |-> f[i]], DOMAIN f = 1..n
  PROVE  Listed(f)
<1> DEFINE R == {f[i] : i \in 1..n}
<1>1. f \in [1..n -> R]
  OBVIOUS
<1>2. f \in Seq(R)
  BY <1>1
<1> QED
  BY <1>2 DEF Listed

LEMMA EmptyListed == Listed(<<>>)
BY DEF Listed

\* A list with the slices of a sequence is a sequence.
LEMMA FitsListed ==
  ASSUME NEW a, Good(a), NEW s, Listed(s), Fits(a, s)
  PROVE  Listed(a)
<1>1. a = [i \in DOMAIN a |-> a[i]] /\ DOMAIN a = 1..Len(s) /\ Len(s) \in Nat
  BY DEF Good, Listed, Fits
<1> QED
  BY <1>1, ListedOf, Zenon

\* makeAllocations and repairAllocations build a list with the given slices.
LEMMA MakeFits == ASSUME NEW s, NEW S PROVE Fits(makeAllocations(s, S), s)
BY DEF Fits, makeAllocations

LEMMA RepairFits == ASSUME NEW a, NEW s, NEW S PROVE Fits(repairAllocations(a, s, S), s)
<1>1. CASE allocationsMatchSubnetPrefix(a, s)
  <2> DEFINE b == [i \in DOMAIN s |-> IF i \in DOMAIN a THEN a[i] ELSE [slice |-> s[i], node |-> Free]]
  <2>1. \A i \in DOMAIN a : a[i].slice = s[i]
    BY <1>1 DEF allocationsMatchSubnetPrefix
  <2>2. Fits(b, s)
    BY <2>1, Zenon DEF Fits
  <2> QED
    BY <1>1, <2>2, Zenon DEF repairAllocations
<1>2. CASE ~allocationsMatchSubnetPrefix(a, s)
  BY <1>2, MakeFits, Zenon DEF repairAllocations
<1> QED
  BY <1>1, <1>2, Zenon

\* A list that needs no rebuild has the slices.
LEMMA KeepFits ==
  ASSUME NEW a, Listed(a), NEW s, Listed(s), ~allocationsNeedRebuild(a, s)
  PROVE  Fits(a, s)
BY Zenon DEF Fits, Listed, allocationsNeedRebuild, allocationsMatchSubnetPrefix

\* Assigning and releasing nodes leaves the slices alone.
LEMMA NodeKeepsSlice ==
  ASSUME NEW x, x \in Slot(x), NEW n
  PROVE  [x EXCEPT !.node = n].slice = x.slice
BY DEF Slot

LEMMA AssignFits ==
  ASSUME NEW a, Good(a), NEW s, Fits(a, s), NEW S
  PROVE  Fits(AssignFree(a, S), s)
<1> DEFINE b == AssignFree(a, S)
<1>1. DOMAIN b = DOMAIN a
  BY DEF AssignFree
<1>2. \A i \in DOMAIN a : b[i] = a[i] \/ \E n : b[i] = [a[i] EXCEPT !.node = n]
  BY Zenon DEF AssignFree
<1> HIDE DEF b
<1>3. \A i \in DOMAIN a : b[i].slice = a[i].slice
  <2> TAKE i \in DOMAIN a
  <2>1. a[i] \in Slot(a[i])
    BY DEF Good
  <2>2. CASE b[i] = a[i]
    BY <2>2
  <2>3. ASSUME NEW n, b[i] = [a[i] EXCEPT !.node = n] PROVE b[i].slice = a[i].slice
    BY <2>1, <2>3, NodeKeepsSlice, ZenonT(60)
  <2> QED
    BY <1>2, <2>2, <2>3, Zenon
<1>4. Fits(b, s)
  BY <1>1, <1>3 DEF Fits
<1> QED
  BY <1>4 DEF b

LEMMA ReleaseFits ==
  ASSUME NEW a, Good(a), NEW s, Fits(a, s), NEW i \in DOMAIN a, NEW n
  PROVE  Fits([a EXCEPT ![i].node = n], s)
<1> DEFINE b == [a EXCEPT ![i].node = n]
<1>1. DOMAIN b = DOMAIN a
  OBVIOUS
<1>2. a[i] \in Slot(a[i]) /\ a = [j \in DOMAIN a |-> a[j]]
  BY DEF Good
<1>3. \A j \in DOMAIN a : j # i => b[j] = a[j]
  BY <1>2, Zenon
<1>4. b[i] = [a[i] EXCEPT !.node = n]
  BY <1>2, Zenon
<1>5. b[i].slice = a[i].slice
  BY <1>2, <1>4, NodeKeepsSlice, Zenon
<1> HIDE DEF b
<1>6. Fits(b, s)
  BY <1>1, <1>3, <1>5, Zenon DEF Fits
<1> QED
  BY <1>6 DEF b

\* The slices of a NAD are a sequence.
LEMMA WantedListed == ASSUME Reconciling(rec) PROVE Listed(Wanted)
BY ConstantAssumption DEF Reconciling, Wanted, Listed

\* A write of pool q keeps the lists sequences if it stores one.
LEMMA StoreListed ==
  ASSUME ListInv, PoolInv, NEW q \in PoolNames, NEW p, p = None \/ Listed(p.alloc), Store(q, p)
  PROVE  /\ ListInv'
         /\ spools'[q] = p
         /\ \A o \in PoolNames : o # q => spools'[o] = spools[o]
<1>1. /\ spools'[q] = p
      /\ \A o \in PoolNames : o # q => spools'[o] = spools[o]
  BY DEF Store, PoolInv
<1>2. cspools' = cspools /\ fresh' = fresh \ {q}
  BY DEF Store
<1>3. PoolNames' = PoolNames
  BY DEF PoolNames
<1>4. fresh' \subseteq PoolNames /\ \A o \in fresh' : cspools'[o] = spools'[o]
  BY <1>1, <1>2, Zenon DEF ListInv
<1>5. \A o \in PoolNames : /\ spools'[o] = None \/ Listed(spools'[o].alloc)
                           /\ cspools'[o] = None \/ Listed(cspools'[o].alloc)
  BY <1>1, <1>2, Zenon DEF ListInv
<1> QED
  BY <1>1, <1>4, <1>5, Zenon DEF ListInv

\* A write of pool q that leaves its allocations alone publishes nothing.
LEMMA QuietStore ==
  ASSUME NEW q \in PoolNames, spools'[q] = None \/ spools[q] = None \/ spools'[q].alloc = spools[q].alloc,
         \A o \in PoolNames : o # q => spools'[o] = spools[o]
  PROVE  Publishes
BY Zenon DEF Publishes

\* Steps that write no pool, go on with the same reconcile or end it.
LEMMA NoStore == ASSUME spools' = spools PROVE Publishes
BY Zenon DEF Publishes

LEMMA ListFrame == ASSUME ListInv, UNCHANGED <<spools, cspools, fresh>> PROVE ListInv'
BY DEF ListInv

LEMMA PlanFrame == ASSUME PlanInv, UNCHANGED <<rec, spools, env>> PROVE PlanInv'
BY Zenon DEF PlanInv, Q

PublishInv == SliceInv /\ ListInv /\ PlanInv

\* Reconcile starts from the cached pool.
LEMMA BeginPlan == ASSUME PublishInv, UNCHANGED env, NEW d \in NADs, Begin(d) PROVE PlanInv'
<1> DEFINE c == cnads[d]
           q == nodeSlicePoolName(c)
           ch == cspools[q] # None /\ <<cspools[q].range, cspools[q].size>> # <<c.range, c.size>>
           st == [p \in {p \in PoolNames \ {q} : cspools[p] # None /\ d \in cspools[p].owners} |->
                    cspools[p].owners \ {d}]
<1>0. spools' = spools
  BY DEF Begin
<1>1. CASE rec' = rec
  BY <1>0, <1>1, PlanFrame, Zenon DEF PublishInv
<1>2. CASE Sliced(c) /\ ~checkMultiNADMismatch(d)
  <2>1. c \in Confs /\ c.kind = "sliced" /\ q \in PoolNames
    BY <1>2, Zenon DEF PublishInv, SliceInv, ClusterInv, Sliced, PoolNames
  <2>2. rec' = [pc |-> "cleanup", nad |-> d, conf |-> c, nodes |-> cnodes,
                copy |-> cspools[q], current |-> fresh, changed |-> ch, stale |-> st,
                todo |-> {}, blocked |-> FALSE, want |-> [alloc |-> <<>>, cond |-> NoCond]]
    BY <1>2, Zenon DEF Begin
  <2>3. cspools[q] = None \/ Listed(cspools[q].alloc)
    BY <2>1, Zenon DEF PublishInv, ListInv
  <2>4. (q \in fresh => cspools[q] = spools[q]) /\ (~env.stalePools => q \in fresh)
    BY <2>1, Zenon DEF PublishInv, ListInv, Begin
  <2>5. cspools[q] = None \/ ch \/ AsAsked(cspools[q], c)
    BY Zenon DEF AsAsked
  <2>6. DOMAIN st \subseteq PoolNames \ {q}
    BY Zenon
  <2> HIDE DEF ch, st
  <2>7. /\ rec'.pc = "cleanup" /\ rec'.conf = c /\ rec'.copy = cspools[q] /\ rec'.current = fresh
        /\ rec'.stale = st
    BY <2>2
  <2>8. rec'.changed <=> ch
    BY <2>2, Zenon
  <2> HIDE DEF c
  <2>9. Planned(rec', spools[q], env.stalePools)
    BY <2>3, <2>4, <2>5, <2>6, <2>7, <2>8, ZenonT(60) DEF Planned
  <2> QED
    BY <1>0, <2>7, <2>9, Zenon DEF PlanInv, Q
<1> QED
  BY <1>1, <1>2, ZenonT(60) DEF Begin

\* Pools the NAD owned before are others than the one it has now.
LEMMA CleanupPlan ==
  ASSUME PublishInv, UNCHANGED env, NEW q \in PoolNames, Cleanup(q)
  PROVE  ListInv' /\ PlanInv' /\ Publishes
<1>1. Reconciling(rec) /\ Planned(rec, spools[Q], env.stalePools) /\ Q \in PoolNames
  BY ReconcileFacts DEF PublishInv, SliceInv, RecInv, PlanInv, Cleanup
<1>2. q # Q
  BY <1>1, Zenon DEF Planned, Cleanup, Q
<1>3. PICK p : Store(q, p) /\ (p = None \/ (Listed(p.alloc) /\ p.alloc = spools[q].alloc))
  <2>1. CASE rec.stale[q] = {}
    BY <2>1 DEF Cleanup
  <2>2. CASE rec.stale[q] # {}
    <3> DEFINE p == [spools[q] EXCEPT !.owners = rec.stale[q]]
    <3>1. spools[q] # None /\ Store(q, p)
      BY <2>2 DEF Cleanup
    <3>2. GoodPool(spools[q]) /\ Listed(spools[q].alloc)
      BY <3>1 DEF PublishInv, SliceInv, PoolInv, ListInv
    <3>3. p.alloc = spools[q].alloc
      BY <3>2 DEF GoodPool
    <3> HIDE DEF p
    <3> QED
      BY <3>1, <3>2, <3>3, Zenon
  <2> QED
    BY <2>1, <2>2, Zenon
<1>4. /\ ListInv' /\ spools'[q] = p
      /\ \A o \in PoolNames : o # q => spools'[o] = spools[o]
  BY <1>3, StoreListed, Zenon DEF PublishInv, SliceInv
<1>5. Publishes
  BY <1>3, <1>4, QuietStore, Zenon
<1>6. rec' = [rec EXCEPT !.stale = [o \in DOMAIN rec.stale \ {q} |-> rec.stale[o]]]
  BY Zenon DEF Cleanup
<1>7. /\ rec'.pc = rec.pc /\ rec'.conf = rec.conf /\ rec'.copy = rec.copy /\ rec'.current = rec.current
      /\ rec'.want = rec.want /\ rec'.changed = rec.changed /\ DOMAIN rec'.stale \subseteq DOMAIN rec.stale
  BY <1>1, <1>6 DEF Reconciling
<1>8. Planned(rec', spools[Q], env.stalePools)
  BY <1>1, <1>7, Zenon DEF Planned
<1>9. Q' = Q /\ spools'[Q] = spools[Q]
  BY <1>1, <1>2, <1>4, <1>7, Zenon DEF Q
<1> QED
  BY <1>4, <1>5, <1>8, <1>9, Zenon DEF PlanInv

\* A reconcile r goes on when p is stored: nothing but its phase, its copy, its
\* versions and the status it prepares has changed.
LEMMA GoesOn ==
  ASSUME Reconciling(rec), Planned(rec, spools[Q], env.stalePools), Q \in PoolNames,
         UNCHANGED env, NEW p, spools'[Q] = p,
         rec'.conf = rec.conf, rec'.stale = rec.stale,
         \/ rec'.copy = p /\ Q \in rec'.current
         \/ rec'.copy = rec.copy /\ rec'.current = rec.current /\ p = spools[Q],
         Listed(rec'.copy.alloc),
         rec'.pc \in {"status", "rebuild", "assign"} => Fits(rec'.want.alloc, Wanted),
         ~env.stalePools => \/ AsAsked(rec'.copy, rec.conf)
                            \/ rec'.pc = "owned" /\ rec'.changed,
         rec'.pc \in {"owned", "status", "rebuild", "assign"}
  PROVE  PlanInv'
<1>1. Q' = Q
  BY Zenon DEF Q
<1>2. DOMAIN rec'.stale \subseteq PoolNames \ {Q}
  BY Zenon DEF Planned, Q
<1>3. Q \in rec'.current => p = rec'.copy
  BY Zenon DEF Planned, Q
<1>4. ~env.stalePools => Q \in rec'.current \/ p = None
  BY Zenon DEF Planned, Q
<1>5. Planned(rec', p, env.stalePools)
  BY <1>2, <1>3, <1>4, Zenon DEF Planned, Q, Wanted
<1> QED
  BY <1>1, <1>5, Zenon DEF PlanInv

\* A reconcile that is going on, its pool and its slices.
LEMMA PlanFacts ==
  ASSUME PublishInv, rec.pc # "idle"
  PROVE  /\ Reconciling(rec) /\ Planned(rec, spools[Q], env.stalePools) /\ Q \in PoolNames
         /\ Listed(Wanted) /\ rec.nodes \in SUBSET Nodes
<1>1. Reconciling(rec) /\ Planned(rec, spools[Q], env.stalePools)
  BY DEF PublishInv, SliceInv, RecInv, PlanInv
<1> QED
  BY <1>1, ReconcileFacts, WantedListed, Zenon DEF Reconciling

\* A reconcile that ends leaves nothing to rely on.
LEMMA Ends == ASSUME rec' = [pc |-> "idle"] PROVE PlanInv'
BY DEF PlanInv

\* createPool stores the range and slice size of the NAD.
LEMMA CreatePlan == ASSUME PublishInv, UNCHANGED env, Create PROVE ListInv' /\ PlanInv' /\ Publishes
<1>1. CASE spools[Q] # None
  <2>1. rec' = [pc |-> "idle"] /\ UNCHANGED <<spools, cspools, fresh>>
    BY <1>1, Zenon DEF Create, Done, NoRequest, caches
  <2> QED
    BY <2>1, Ends, ListFrame, NoStore, Zenon DEF PublishInv
<1>2. CASE spools[Q] = None
  <2> DEFINE p == [range |-> rec.conf.range, size |-> rec.conf.size, owners |-> {rec.nad},
                   alloc |-> <<>>, cond |-> NoCond]
             m == makeAllocations(Wanted, rec.nodes)
  <2>1. /\ Reconciling(rec) /\ Planned(rec, spools[Q], env.stalePools) /\ Q \in PoolNames
    BY PlanFacts, Zenon DEF Create
  <2>2. p.alloc = <<>> /\ AsAsked(p, rec.conf) /\ Fits(m, Wanted)
    BY MakeFits DEF AsAsked
  <2>3. /\ Store(Q, p)
        /\ rec' = [rec EXCEPT !.pc = "status", !.current = @ \cup {Q}, !.copy = p,
                     !.want = [alloc |-> m, cond |-> markReady("created")]]
    BY <1>2 DEF Create
  <2> HIDE DEF p, m
  <2>4. Listed(p.alloc)
    BY <2>2, EmptyListed, Zenon
  <2>5. ListInv' /\ spools'[Q] = p /\ \A o \in PoolNames : o # Q => spools'[o] = spools[o]
    BY <2>1, <2>3, <2>4, StoreListed, Zenon DEF PublishInv, SliceInv
  <2>6. Publishes
    BY <1>2, <2>1, <2>5, QuietStore, Zenon
  <2>7. /\ rec'.conf = rec.conf /\ rec'.stale = rec.stale /\ rec'.copy = p /\ Q \in rec'.current
        /\ rec'.pc = "status" /\ rec'.want.alloc = m
    BY <2>1, <2>3, Zenon DEF Reconciling
  <2>8. PlanInv'
    BY <2>1, <2>2, <2>4, <2>5, <2>7, GoesOn, Zenon
  <2> QED
    BY <2>5, <2>6, <2>8, Zenon
<1> QED
  BY <1>1, <1>2, Zenon

\* ensureOwnerRef leaves range, slice size and allocations alone.
LEMMA OwnerPlan == ASSUME PublishInv, UNCHANGED env, Owner PROVE ListInv' /\ PlanInv' /\ Publishes
<1>1. /\ Reconciling(rec) /\ Planned(rec, spools[Q], env.stalePools) /\ Q \in PoolNames
      /\ rec.pc = "cleanup" /\ rec.copy # None
  BY PlanFacts DEF Owner
<1>2. Listed(rec.copy.alloc) /\ (env.stalePools \/ rec.changed \/ AsAsked(rec.copy, rec.conf))
  BY <1>1, Zenon DEF Planned
<1>3. CASE rec.nad \in rec.copy.owners
  <2>1. rec' = [rec EXCEPT !.pc = "owned"] /\ UNCHANGED <<spools, cspools, fresh>>
    BY <1>3, Zenon DEF Owner, NoRequest, caches
  <2>2. /\ rec'.conf = rec.conf /\ rec'.stale = rec.stale /\ rec'.copy = rec.copy
        /\ rec'.current = rec.current /\ rec'.pc = "owned" /\ rec'.changed = rec.changed
    BY <1>1, <2>1, Zenon DEF Reconciling
  <2>3. env.stalePools \/ AsAsked(rec'.copy, rec.conf) \/ rec'.changed
    BY <1>2, <2>2, Zenon
  <2>4. PlanInv'
    BY <1>1, <1>2, <2>1, <2>2, <2>3, GoesOn, Zenon
  <2> QED
    BY <2>1, <2>4, ListFrame, NoStore, Zenon DEF PublishInv
<1>4. CASE rec.nad \notin rec.copy.owners /\ spools[Q] = None
  <2>1. rec' = [pc |-> "idle"] /\ UNCHANGED <<spools, cspools, fresh>>
    BY <1>4, Zenon DEF Owner, Done, NoRequest, caches
  <2> QED
    BY <2>1, Ends, ListFrame, NoStore DEF PublishInv
<1>5. CASE rec.nad \notin rec.copy.owners /\ spools[Q] # None
  <2> DEFINE p == [spools[Q] EXCEPT !.owners = rec.copy.owners \cup {rec.nad}]
  <2>1. GoodPool(spools[Q]) /\ Listed(spools[Q].alloc)
    BY <1>1, <1>5, Zenon DEF PublishInv, SliceInv, PoolInv, ListInv
  <2>2. p.alloc = spools[Q].alloc /\ p.range = spools[Q].range /\ p.size = spools[Q].size
    BY <2>1 DEF GoodPool
  <2>3. Store(Q, p) /\ rec' = [rec EXCEPT !.pc = "owned", !.current = @ \cup {Q}, !.copy = p]
    BY <1>5 DEF Owner
  <2> HIDE DEF p
  <2>4. ListInv' /\ spools'[Q] = p /\ \A o \in PoolNames : o # Q => spools'[o] = spools[o]
    BY <1>1, <2>1, <2>2, <2>3, StoreListed, Zenon DEF PublishInv, SliceInv
  <2>5. Publishes
    BY <1>1, <2>2, <2>4, QuietStore, Zenon
  <2>6. /\ rec'.conf = rec.conf /\ rec'.stale = rec.stale /\ rec'.copy = p
        /\ Q \in rec'.current /\ rec'.pc = "owned" /\ rec'.changed = rec.changed
    BY <1>1, <2>3, Zenon DEF Reconciling
  <2>7. env.stalePools \/ spools[Q] = rec.copy
    BY <1>1, <1>5, Zenon DEF Planned, Q
  <2>8. env.stalePools \/ AsAsked(rec.copy, rec.conf) => AsAsked(p, rec.conf) \/ env.stalePools
    BY <2>2, <2>7 DEF AsAsked
  <2>9. env.stalePools \/ AsAsked(rec'.copy, rec.conf) \/ rec'.changed
    BY <1>2, <2>6, <2>8, Zenon
  <2>10. PlanInv'
    BY <1>1, <2>1, <2>2, <2>4, <2>6, <2>9, GoesOn, Zenon
  <2> QED
    BY <2>4, <2>5, <2>10
<1> QED
  BY <1>3, <1>4, <1>5, Zenon

\* updatePoolSpec stores the range and slice size before it prepares the status.
LEMMA UpdatePoolSpecPlan ==
  ASSUME PublishInv, UNCHANGED env, UpdatePoolSpec
  PROVE  ListInv' /\ PlanInv' /\ Publishes
<1> DEFINE m == makeAllocations(Wanted, rec.nodes)
           same == <<rec.conf.range, rec.conf.size>> = <<rec.copy.range, rec.copy.size>>
<1>1. /\ Reconciling(rec) /\ Planned(rec, spools[Q], env.stalePools) /\ Q \in PoolNames
      /\ rec.pc = "owned"
  BY PlanFacts, Zenon DEF UpdatePoolSpec
<1>2. Listed(rec.copy.alloc) /\ Fits(m, Wanted)
  BY <1>1, MakeFits DEF Planned
<1>3. CASE same
  <2>1. /\ rec' = [rec EXCEPT !.pc = "status", !.want = [alloc |-> m, cond |-> markReady("updated")]]
        /\ UNCHANGED <<spools, cspools, fresh>>
    BY <1>3, Zenon DEF UpdatePoolSpec, NoRequest, caches
  <2> HIDE DEF m
  <2>2. /\ rec'.conf = rec.conf /\ rec'.stale = rec.stale /\ rec'.copy = rec.copy
        /\ rec'.current = rec.current /\ rec'.pc = "status" /\ rec'.want.alloc = m
    BY <1>1, <2>1, Zenon DEF Reconciling
  <2>3. AsAsked(rec.copy, rec.conf)
    BY <1>3 DEF AsAsked
  <2>4. PlanInv'
    BY <1>1, <1>2, <2>1, <2>2, <2>3, GoesOn, ZenonT(60)
  <2> QED
    BY <2>1, <2>4, ListFrame, NoStore, Zenon DEF PublishInv
<1>4. CASE ~same /\ spools[Q] = None
  <2>1. rec' = [pc |-> "idle"] /\ UNCHANGED <<spools, cspools, fresh>>
    BY <1>4, Zenon DEF UpdatePoolSpec, Done, NoRequest, caches
  <2> QED
    BY <2>1, Ends, ListFrame, NoStore DEF PublishInv
<1>5. CASE ~same /\ spools[Q] # None
  <2> DEFINE diff(f) == IF rec.conf[f] # rec.copy[f] THEN rec.conf[f] ELSE spools[Q][f]
             p == [spools[Q] EXCEPT !.range = diff("range"), !.size = diff("size")]
  <2>1. GoodPool(spools[Q]) /\ Listed(spools[Q].alloc)
    BY <1>1, <1>5 DEF PublishInv, SliceInv, PoolInv, ListInv
  <2>2. p.alloc = spools[Q].alloc /\ p.range = diff("range") /\ p.size = diff("size")
    BY <2>1 DEF GoodPool
  <2>3. /\ Store(Q, p)
        /\ rec' = [rec EXCEPT !.pc = "status", !.current = @ \cup {Q}, !.copy = p,
                     !.want = [alloc |-> m, cond |-> markReady("updated")]]
    BY <1>5 DEF UpdatePoolSpec
  <2>4. spools[Q] = rec.copy => diff("range") = rec.conf.range /\ diff("size") = rec.conf.size
    OBVIOUS
  <2> HIDE DEF p, m, diff
  <2>5. ListInv' /\ spools'[Q] = p /\ \A o \in PoolNames : o # Q => spools'[o] = spools[o]
    BY <1>1, <2>1, <2>2, <2>3, StoreListed, Zenon DEF PublishInv, SliceInv
  <2>6. Publishes
    BY <1>1, <2>2, <2>5, QuietStore, Zenon
  <2>7. /\ rec'.conf = rec.conf /\ rec'.stale = rec.stale /\ rec'.copy = p
        /\ Q \in rec'.current /\ rec'.pc = "status" /\ rec'.want.alloc = m
    BY <1>1, <2>3, Zenon DEF Reconciling
  <2>8. env.stalePools \/ AsAsked(p, rec.conf)
    BY <1>1, <1>5, <2>2, <2>4, Zenon DEF Planned, Q, AsAsked
  <2>9. PlanInv'
    BY <1>1, <1>2, <2>1, <2>2, <2>5, <2>7, <2>8, GoesOn, ZenonT(60)
  <2> QED
    BY <2>5, <2>6, <2>9
<1> QED
  BY <1>3, <1>4, <1>5, Zenon

\* rebuildPoolStatus prepares all slices.
LEMMA RebuildPlan == ASSUME PublishInv, UNCHANGED env, Rebuild PROVE PlanInv'
<1> DEFINE m == repairAllocations(rec.copy.alloc, Wanted, rec.nodes)
<1>1. /\ Reconciling(rec) /\ Planned(rec, spools[Q], env.stalePools) /\ Q \in PoolNames
      /\ rec.pc = "owned"
  BY PlanFacts DEF Rebuild
<1>2. ~rec.changed
  BY Zenon DEF Rebuild
<1>3. Listed(rec.copy.alloc) /\ (env.stalePools \/ AsAsked(rec.copy, rec.conf))
  BY <1>1, <1>2, Zenon DEF Planned
<1>4. Fits(m, Wanted)
  BY RepairFits
<1>5. /\ rec' = [rec EXCEPT !.pc = "rebuild", !.want = [alloc |-> m, cond |-> markReady("rebuilt")]]
      /\ spools' = spools
  BY Zenon DEF Rebuild, NoRequest
<1> HIDE DEF m
<1>6. /\ rec'.conf = rec.conf /\ rec'.stale = rec.stale /\ rec'.copy = rec.copy
      /\ rec'.current = rec.current /\ rec'.pc = "rebuild" /\ rec'.want.alloc = m
  BY <1>1, <1>5, Zenon DEF Reconciling
<1> QED
  BY <1>1, <1>3, <1>4, <1>5, <1>6, GoesOn, Zenon

\* ensureNodeAssignments starts from a copy with all slices.
LEMMA EnsurePlan == ASSUME PublishInv, UNCHANGED env, EnsureNodeAssignments PROVE PlanInv'
<1>1. /\ Reconciling(rec) /\ Planned(rec, spools[Q], env.stalePools) /\ Q \in PoolNames
      /\ rec.pc = "owned" /\ Listed(Wanted)
  BY PlanFacts DEF EnsureNodeAssignments
<1>2. ~rec.changed
  BY Zenon DEF EnsureNodeAssignments
<1>3. Listed(rec.copy.alloc) /\ (env.stalePools \/ AsAsked(rec.copy, rec.conf))
  BY <1>1, <1>2, Zenon DEF Planned
<1>4. Fits(rec.copy.alloc, Wanted)
  BY <1>1, <1>3, KeepFits DEF EnsureNodeAssignments
<1>5. rec' = StartAssignments(rec.copy) /\ spools' = spools
  BY Zenon DEF EnsureNodeAssignments, NoRequest
<1>6. /\ rec'.conf = rec.conf /\ rec'.stale = rec.stale /\ rec'.copy = rec.copy
      /\ rec'.current = rec.current /\ rec'.pc = "assign" /\ rec'.want.alloc = rec.copy.alloc
  BY <1>1, <1>5, Zenon DEF Reconciling, StartAssignments
<1> QED
  BY <1>1, <1>3, <1>4, <1>5, <1>6, GoesOn, Zenon

\* Releasing a slot leaves the slices alone.
LEMMA ReleasePlan ==
  ASSUME PublishInv, UNCHANGED env, NEW i, releaseDeletedNodeSlice(i)
  PROVE  PlanInv'
<1> DEFINE a == rec.want.alloc
<1>0. rec.pc = "assign" /\ i \in rec.todo /\ spools' = spools
  BY Zenon DEF releaseDeletedNodeSlice
<1>1. Reconciling(rec) /\ Planned(rec, spools[Q], env.stalePools) /\ Q \in PoolNames
  BY <1>0, PlanFacts, Zenon
<1>2. Good(a) /\ i \in DOMAIN a
  BY <1>0, <1>1, Zenon DEF Reconciling
<1>3. /\ Listed(rec.copy.alloc) /\ (env.stalePools \/ AsAsked(rec.copy, rec.conf))
      /\ Fits(a, Wanted)
  BY <1>0, <1>1 DEF Planned, Wanted
<1>4. PICK x, y : rec' = [rec EXCEPT !.todo = @ \ {i}, !.blocked = x, !.want.alloc[i].node = y]
  BY Zenon DEF releaseDeletedNodeSlice
<1> DEFINE b == [a EXCEPT ![i].node = y]
           w == [rec.want EXCEPT !.alloc[i].node = y]
<1>5. Fits(b, Wanted)
  BY <1>2, <1>3, ReleaseFits
<1>6. w.alloc = b
  BY <1>1 DEF Reconciling
<1>7. rec' = [rec EXCEPT !.todo = @ \ {i}, !.blocked = x, !.want = w]
  BY <1>4
<1> HIDE DEF b, w
<1>8. /\ rec'.conf = rec.conf /\ rec'.stale = rec.stale /\ rec'.copy = rec.copy
      /\ rec'.current = rec.current /\ rec'.pc = "assign" /\ rec'.want.alloc = b
  BY <1>0, <1>1, <1>6, <1>7, Zenon DEF Reconciling
<1> QED
  BY <1>0, <1>1, <1>3, <1>5, <1>8, GoesOn, Zenon

\* Serving nodes leaves the slices alone.
LEMMA AssignPlan == ASSUME PublishInv, UNCHANGED env, Assign PROVE PlanInv'
<1> DEFINE m == AssignFree(rec.want.alloc, rec.nodes)
<1>1. /\ Reconciling(rec) /\ Planned(rec, spools[Q], env.stalePools) /\ Q \in PoolNames
      /\ rec.pc = "assign"
  BY PlanFacts, Zenon DEF Assign
<1>2. /\ Listed(rec.copy.alloc) /\ (env.stalePools \/ AsAsked(rec.copy, rec.conf))
      /\ Fits(rec.want.alloc, Wanted) /\ Good(rec.want.alloc)
  BY <1>1 DEF Planned, Wanted, Reconciling
<1>3. Fits(m, Wanted)
  BY <1>2, AssignFits
<1>4. /\ \/ rec' = [pc |-> "idle"]
         \/ \E c : rec' = [rec EXCEPT !.pc = "status", !.want = [alloc |-> m, cond |-> c]]
      /\ spools' = spools
  BY Zenon DEF Assign, Done, NoRequest
<1> HIDE DEF m
<1>5. ASSUME NEW c, rec' = [rec EXCEPT !.pc = "status", !.want = [alloc |-> m, cond |-> c]]
      PROVE  PlanInv'
  <2>1. /\ rec'.conf = rec.conf /\ rec'.stale = rec.stale /\ rec'.copy = rec.copy
        /\ rec'.current = rec.current /\ rec'.pc = "status" /\ rec'.want.alloc = m
    BY <1>1, <1>5, Zenon DEF Reconciling
  <2> QED
    BY <1>1, <1>2, <1>3, <1>4, <2>1, GoesOn, Zenon
<1> QED
  BY <1>4, <1>5, Ends, Zenon

\* The status is written over the version it was computed from.
LEMMA UpdateStatusPlan ==
  ASSUME PublishInv, UNCHANGED env, UpdateStatus
  PROVE  ListInv' /\ PlanInv' /\ Publishes
<1>1. /\ Reconciling(rec) /\ Planned(rec, spools[Q], env.stalePools) /\ Q \in PoolNames
      /\ rec.pc \in {"status", "rebuild"} /\ Listed(Wanted)
  BY PlanFacts, Zenon DEF UpdateStatus
<1>2. /\ GoodPool(rec.copy) /\ Good(rec.want.alloc) /\ Fits(rec.want.alloc, Wanted)
      /\ env.stalePools \/ AsAsked(rec.copy, rec.conf)
  BY <1>1, Zenon DEF Planned, Wanted, Reconciling
<1>3. CASE ~(spools[Q] # None /\ Q \in rec.current)
  <2>1. rec' = [pc |-> "idle"] /\ UNCHANGED <<spools, cspools, fresh>>
    BY <1>3, Zenon DEF UpdateStatus, Done, NoRequest, caches
  <2> QED
    BY <2>1, Ends, ListFrame, NoStore DEF PublishInv
<1>4. CASE spools[Q] # None /\ Q \in rec.current
  <2> DEFINE a == rec.want.alloc
             c == rec.want.cond
             p == [rec.copy EXCEPT !.alloc = a, !.cond = c]
  <2>1. spools[Q] = rec.copy
    BY <1>1, <1>4 DEF Planned, Q
  <2>2. /\ p.alloc = a /\ p.cond = c /\ p.range = rec.copy.range /\ p.size = rec.copy.size
    BY <1>2 DEF GoodPool
  <2>3. Store(Q, [spools[Q] EXCEPT !.alloc = p.alloc, !.cond = p.cond])
    BY <1>4, Zenon DEF UpdateStatus
  <2>4. Store(Q, p)
    BY <2>1, <2>2, <2>3, Zenon
  <2>5. rec' = StartAssignments(p) \/ rec' = [pc |-> "idle"]
    BY <1>4, Zenon DEF UpdateStatus, Done
  <2>6. Listed(a) /\ Fits(a, Wanted)
    BY <1>1, <1>2, FitsListed, Zenon
  <2> HIDE DEF p, a, c
  <2>7. ListInv' /\ spools'[Q] = p /\ \A o \in PoolNames : o # Q => spools'[o] = spools[o]
    BY <1>1, <2>2, <2>4, <2>6, StoreListed, Zenon DEF PublishInv, SliceInv
  <2>8. env.stalePools \/ (spools[Q].range = rec.conf.range /\ spools[Q].size = rec.conf.size)
    BY <1>2, <2>1 DEF AsAsked
  <2>9. Publishes
    BY <2>2, <2>6, <2>7, <2>8, Zenon DEF Publishes, Fits
  <2>10. CASE rec' = StartAssignments(p)
    <3>1. /\ rec'.conf = rec.conf /\ rec'.stale = rec.stale /\ rec'.copy = p
          /\ rec'.current = rec.current /\ rec'.pc = "assign" /\ rec'.want.alloc = p.alloc
      BY <1>1, <2>10, Zenon DEF Reconciling, StartAssignments
    <3>2. env.stalePools \/ AsAsked(p, rec.conf)
      BY <1>2, <2>2 DEF AsAsked
    <3> QED
      BY <1>1, <1>4, <2>2, <2>6, <2>7, <2>9, <3>1, <3>2, GoesOn, ZenonT(60)
  <2> QED
    BY <2>5, <2>7, <2>9, <2>10, Ends, ZenonT(60)
<1> QED
  BY <1>3, <1>4

\* The garbage collector's deletion makes every copy of the pool an old one.
LEMMA CollectPlan ==
  ASSUME PublishInv, UNCHANGED env, NEW q \in PoolNames, Collect(q)
  PROVE  ListInv' /\ PlanInv' /\ Publishes
<1>1. spools'[q] = None /\ \A o \in PoolNames : o # q => spools'[o] = spools[o]
  BY DEF Collect, PublishInv, SliceInv, PoolInv
<1>2. cspools' = cspools /\ fresh' = fresh \ {q}
  BY Zenon DEF Collect
<1>3. ListInv'
  BY <1>1, <1>2, Zenon DEF PublishInv, ListInv
<1>4. Publishes
  BY <1>1, QuietStore
<1>5. CASE rec.pc = "idle"
  <2>1. rec = [pc |-> "idle"] /\ rec' = rec
    BY <1>5 DEF PublishInv, PlanInv, Planned, Collect
  <2> QED
    BY <1>3, <1>4, <2>1, Ends, Zenon
<1>6. CASE rec.pc # "idle"
  <2>1. Reconciling(rec) /\ Planned(rec, spools[Q], env.stalePools) /\ Q \in PoolNames
    BY <1>6, PlanFacts, Zenon
  <2>2. rec' = [rec EXCEPT !.current = @ \ {q}]
    BY <1>6 DEF Collect
  <2>3. /\ rec'.pc = rec.pc /\ rec'.conf = rec.conf /\ rec'.copy = rec.copy /\ rec'.stale = rec.stale
        /\ rec'.current = rec.current \ {q} /\ rec'.want = rec.want /\ rec'.changed = rec.changed
    BY <2>1, <2>2 DEF Reconciling
  <2>4. Q' = Q
    BY <2>3, Zenon DEF Q
  <2>5. /\ Q \in rec'.current => spools'[Q] = rec.copy
        /\ ~env.stalePools => Q \in rec'.current \/ spools'[Q] = None
    BY <1>1, <2>1, <2>3, Zenon DEF Planned, Q
  <2>6. Planned(rec', spools'[Q], env.stalePools)
    BY <2>1, <2>3, <2>5, Zenon DEF Planned, Q
  <2> QED
    BY <1>3, <1>4, <2>4, <2>6, Zenon DEF PlanInv
<1> QED
  BY <1>5, <1>6

\* The other events of the cluster write no pool.
LEMMA ClusterPlan ==
  ASSUME PublishInv, UNCHANGED env, Cluster
  PROVE  ListInv' /\ PlanInv' /\ Publishes
<1>1. ASSUME NEW d \in NADs, EditNAD(d) PROVE UNCHANGED <<rec, spools, cspools, fresh>>
  BY <1>1, Zenon DEF EditNAD, caches
<1>2. ASSUME NEW n \in Nodes, NodeJoins(n) \/ NodeLeaves(n) PROVE UNCHANGED <<rec, spools, cspools, fresh>>
  BY <1>2, Zenon DEF NodeJoins, NodeLeaves, caches
<1>3. ASSUME SyncNodes \/ SyncNADs \/ SyncIPPools PROVE UNCHANGED <<rec, spools, cspools, fresh>>
  BY <1>3, Zenon DEF SyncNodes, SyncNADs, SyncIPPools
<1>4. ASSUME SyncPools PROVE ListInv' /\ UNCHANGED <<rec, spools>>
  BY <1>4 DEF SyncPools, PublishInv, ListInv
<1>5. ASSUME UNCHANGED <<rec, spools>> PROVE PlanInv' /\ Publishes
  BY <1>5, PlanFrame, NoStore, Zenon DEF PublishInv
<1>6. ASSUME UNCHANGED <<spools, cspools, fresh>> PROVE ListInv'
  BY <1>6, ListFrame, Zenon DEF PublishInv
<1> QED
  BY <1>1, <1>2, <1>3, <1>4, <1>5, <1>6, CollectPlan, ZenonT(60) DEF Cluster

\* Every step of a reconcile.
LEMMA ReconcilePlan ==
  ASSUME PublishInv, UNCHANGED env, Reconcile
  PROVE  ListInv' /\ PlanInv' /\ Publishes
<1>1. ASSUME UNCHANGED <<spools, cspools, fresh>> PROVE ListInv' /\ Publishes
  BY <1>1, ListFrame, NoStore, Zenon DEF PublishInv
<1>2. ASSUME NEW d \in NADs, Begin(d) PROVE ListInv' /\ PlanInv' /\ Publishes
  BY <1>1, <1>2, BeginPlan, ZenonT(60) DEF Begin, caches
<1>3. ASSUME NEW q \in PoolNames, CleanupConflict(q) PROVE ListInv' /\ PlanInv' /\ Publishes
  BY <1>1, <1>3, Ends, Zenon DEF CleanupConflict, Done, NoRequest, caches
<1>4. ASSUME Rebuild \/ EnsureNodeAssignments \/ Assign PROVE ListInv' /\ PlanInv' /\ Publishes
  <2>1. UNCHANGED <<spools, cspools, fresh>>
    BY <1>4, Zenon DEF Rebuild, EnsureNodeAssignments, Assign, NoRequest, caches
  <2> QED
    BY <1>1, <1>4, <2>1, RebuildPlan, EnsurePlan, AssignPlan, ZenonT(60)
<1>5. ASSUME NEW i, releaseDeletedNodeSlice(i) PROVE ListInv' /\ PlanInv' /\ Publishes
  <2>1. UNCHANGED <<spools, cspools, fresh>>
    BY <1>5, Zenon DEF releaseDeletedNodeSlice, caches
  <2> QED
    BY <1>1, <1>5, <2>1, ReleasePlan, Zenon
<1> QED
  BY <1>2, <1>3, <1>4, <1>5, CleanupPlan, CreatePlan, OwnerPlan, UpdatePoolSpecPlan, UpdateStatusPlan, ZenonT(60)
  DEF Reconcile

\* Every step keeps the invariant and publishes the slices of the stored range.
LEMMA NextPublishes ==
  ASSUME PublishInv, Next
  PROVE  PublishInv' /\ Publishes
<1>0. UNCHANGED env /\ SliceInv /\ SliceInv'
  BY NextInv DEF Next, PublishInv
<1>1. ASSUME Plugin PROVE ListInv' /\ PlanInv' /\ Publishes
  <2>1. UNCHANGED <<rec, spools, cspools, fresh>>
    BY <1>1, Zenon DEF Plugin, StartPod, AddLookup, AddCommit, Del, RemoveOrphans, caches
  <2> QED
    BY <1>0, <2>1, ListFrame, PlanFrame, NoStore, ZenonT(60) DEF PublishInv
<1>2. ASSUME Restart \/ Fail PROVE ListInv' /\ PlanInv' /\ Publishes
  <2>1. rec' = [pc |-> "idle"] /\ spools' = spools
    BY <1>2, Zenon DEF Restart, Fail, Done
  <2>2. UNCHANGED <<cspools, fresh>> \/ (cspools' = spools /\ fresh' = PoolNames)
    BY <1>2, Zenon DEF Restart, Fail, caches
  <2>3. ListInv'
    BY <2>1, <2>2, Zenon DEF PublishInv, ListInv
  <2> QED
    BY <2>1, <2>3, Ends, NoStore, Zenon
<1>3. ListInv' /\ PlanInv' /\ Publishes
  BY <1>0, <1>1, <1>2, ClusterPlan, ReconcilePlan, Zenon DEF Next
<1> QED
  BY <1>0, <1>3, Zenon DEF PublishInv

\* Allocations that are published are all slices of the range and slice size of
\* the NAD that is reconciled and, when no reconcile starts from a pool older
\* than the operator's own last write, of those stored at that moment: whatever
\* NADs are created, edited or deleted and whichever request fails in between
\* (createPool, updatePoolSpec, rebuildPoolStatus, ensureNodeAssignments).
THEOREM SlicesPublished == Spec => PublishedSlicesMatchSpec
<1>1. Init => PublishInv
  <2> SUFFICES ASSUME Init PROVE PublishInv
    OBVIOUS
  <2>1. ListInv /\ PlanInv
    BY Zenon DEF Init, ListInv, PlanInv
  <2> QED
    BY <2>1, InitInv, Zenon DEF PublishInv
<1>2. PublishInv /\ [Next]_<<env, exposed, vars>> => PublishInv'
  <2> SUFFICES ASSUME PublishInv, [Next]_<<env, exposed, vars>> PROVE PublishInv'
    OBVIOUS
  <2>1. CASE Next
    BY <2>1, NextPublishes, Zenon
  <2>2. CASE UNCHANGED <<env, exposed, vars>>
    BY <2>2, NextInv, ListFrame, PlanFrame, Zenon DEF vars, PublishInv
  <2> QED
    BY <2>1, <2>2
<1>3. PublishInv /\ [Next]_<<env, exposed, vars>> => [Publishes]_vars
  <2> SUFFICES ASSUME PublishInv, [Next]_<<env, exposed, vars>> PROVE [Publishes]_vars
    OBVIOUS
  <2>1. CASE Next
    BY <2>1, NextPublishes
  <2> QED
    BY <2>1
<1> QED
  BY <1>1, <1>2, <1>3, PTL DEF Spec, PublishedSlicesMatchSpec, Publishes
=============================================================================
