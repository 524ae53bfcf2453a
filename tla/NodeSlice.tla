----------------------------- MODULE NodeSlice -----------------------------
(***************************************************************************)
(* Fast IPAM: the NodeSliceReconciler of internal/controller, which divides *)
(* the range of a NetworkAttachmentDefinition (NAD) into slices and gives  *)
(* every node one, and the CNI plugins that allocate from the slice of     *)
(* their node.                                                             *)
(*                                                                         *)
(* As in Reconcilers, the operator reads informer caches and writes to the *)
(* API server; "fresh" and rec.current say which copies of a NodeSlicePool *)
(* still have the stored resourceVersion.  The plugin reads the API server *)
(* itself.  Slices are sets of addresses, nodes are numbered in the order  *)
(* of their names.  Overlapping-range reservations are switched off, so    *)
(* the slices alone keep addresses apart.                                  *)
(***************************************************************************)
EXTENDS Naturals, FiniteSets, Sequences

CONSTANTS
  Nodes, NADs,
  Confs,             \* configurations a NAD may hold
  Subnets(_, _),     \* the slices of a range for a slice size, in order
  Unnamed,           \* the empty network_name
  Pods, Free, None,
  Environments       \* what env may be

ASSUME ConstantAssumption ==
  /\ Nodes \subseteq Nat /\ IsFiniteSet(Nodes) /\ Pods \subseteq Nat
  /\ Free \notin Nodes /\ None \notin Nodes /\ None \notin Confs
  /\ \A c \in Confs : c.kind = "sliced" =>
       DOMAIN Subnets(c.range, c.size) = 1..Len(Subnets(c.range, c.size))
       /\ Len(Subnets(c.range, c.size)) \in Nat
  /\ \A e \in Environments : e.start \subseteq Nodes /\ e.nodes \subseteq Nodes /\ e.confs \subseteq Confs

\* The environment says what may happen, and bounds it:
\*   start, nodes: nodes of the cluster at the start, and all there may be,
\*   stalePools: a reconcile may start before its last write is cached,
\*   rejoin: a node that left may come back under its name,
\*   nads, confs, pods: the NADs and pods there are, what a NAD may hold,
\*   edits, moves, faults: NAD edits, node events and failures.
VARIABLES
  env,        \* the environment, constant
  nodes, nads, spools, ippools,      \* objects of the API server
  cnodes, cnads, cspools, cippools,  \* the informer caches
  fresh,      \* NodeSlicePools whose cached copy is the stored one
  att,        \* att[p]: the attachment of pod p
  queue,      \* the workqueue: NADs to reconcile
  rec,        \* the reconcile in progress
  used,       \* edits, moves and faults so far, nodes that left, NADs deleted
  exposed     \* history: pods that slices do not protect, see Unseen, Resliced

plugin == <<ippools, att>>
caches == <<cnodes, cnads, cspools, cippools, fresh>>
vars == <<nodes, nads, spools, ippools, cnodes, cnads, cspools, cippools, fresh,
          att, queue, rec, used>>
-----------------------------------------------------------------------------
(* Names and allocations                                                   *)

\* nadIPAMConfig: "other" is a NAD of another plugin or without a slice size,
\* "bad" one whose configuration does not parse or has too many slices.
Sliced(c) == c # None /\ c.kind = "sliced"
nodeSlicePoolName(c) == IF c.net # Unnamed THEN c.net ELSE c.range
PoolNames == {nodeSlicePoolName(c) : c \in {d \in Confs : d.kind = "sliced"}}
Slices == UNION {{Subnets(c.range, c.size)[i] : i \in DOMAIN Subnets(c.range, c.size)} :
                   c \in {d \in Confs : d.kind = "sliced"}}
nodeSliceIPPoolName(net, n, s) == <<net, n, s>>
IPPoolNames ==
  UNION {{c.net} \X Nodes \X {Subnets(c.range, c.size)[i] : i \in DOMAIN Subnets(c.range, c.size)} :
           c \in {d \in Confs : d.kind = "sliced"}}

\* The place of x in the set S, counted from one.
Rank(S, x) == Cardinality({y \in S : y <= x})

\* Nodes get the slices in order; the nodes beyond the last slice get none.
makeAllocations(subnets, S) ==
  [i \in DOMAIN subnets |->
     [slice |-> subnets[i],
      node |-> IF \E n \in S : Rank(S, n) = i THEN CHOOSE n \in S : Rank(S, n) = i ELSE Free]]

allocationsMatchSubnetPrefix(alloc, subnets) ==
  /\ Len(alloc) <= Len(subnets)
  /\ \A i \in DOMAIN alloc : alloc[i].slice = subnets[i]

allocationsNeedRebuild(alloc, subnets) ==
  Len(alloc) # Len(subnets) \/ ~allocationsMatchSubnetPrefix(alloc, subnets)

repairAllocations(alloc, subnets, S) ==
  IF allocationsMatchSubnetPrefix(alloc, subnets)
  THEN [i \in DOMAIN subnets |-> IF i \in DOMAIN alloc THEN alloc[i]
                                 ELSE [slice |-> subnets[i], node |-> Free]]
  ELSE makeAllocations(subnets, S)

Holders(alloc) == {alloc[i].node : i \in DOMAIN alloc} \ {Free}
FreeSlots(alloc) == {i \in DOMAIN alloc : alloc[i].node = Free}

\* Mutant: nodes that have a slice count as new.
AssignTwice(alloc, S) ==
  LET slots == FreeSlots(alloc)
  IN [i \in DOMAIN alloc |->
        IF i \in slots /\ \E n \in S : Rank(S, n) = Rank(slots, i)
        THEN [alloc[i] EXCEPT !.node = CHOOSE n \in S : Rank(S, n) = Rank(slots, i)] ELSE alloc[i]]

\* Nodes without a slice take the free slots in order.
AssignFree(alloc, S) ==
  LET new == S \ Holders(alloc)
      slots == FreeSlots(alloc)
  IN [i \in DOMAIN alloc |->
        IF i \in slots /\ \E n \in new : Rank(new, n) = Rank(slots, i)
        THEN [alloc[i] EXCEPT !.node = CHOOSE n \in new : Rank(new, n) = Rank(slots, i)]
        ELSE alloc[i]]

\* The Ready, Reconciling and Stalled conditions, each with a status and a
\* message, which may name a node.
Says(status, m) == [status |-> status, msg |-> m]
NoCond == [ready |-> None, reconciling |-> None, stalled |-> None]
markReady(m) == [ready |-> Says("True", <<m, Free>>), reconciling |-> Says("False", <<m, Free>>),
                 stalled |-> Says("False", <<m, Free>>)]
markStalled(n) == [ready |-> Says("False", <<"full", n>>), reconciling |-> Says("False", <<"full", n>>),
                   stalled |-> Says("True", <<"full", n>>)]
markReconciling(c) == [c EXCEPT !.ready = Says("Unknown", <<"waiting", Free>>),
                                !.reconciling = Says("True", <<"waiting", Free>>)]

Init ==
  /\ env \in Environments /\ nodes = env.start /\ cnodes = nodes
  /\ nads = [d \in NADs |-> None] /\ cnads = nads
  /\ spools = [q \in PoolNames |-> None] /\ cspools = spools
  /\ ippools = [q \in IPPoolNames |-> None] /\ cippools = ippools
  /\ fresh = PoolNames
  /\ att = [p \in Pods |-> None]
  /\ queue = {} /\ rec = [pc |-> "idle"]
  /\ used = [edits |-> 0, moves |-> 0, faults |-> 0, left |-> {}, deleted |-> {}]
  /\ exposed = {}
-----------------------------------------------------------------------------
(* The cluster                                                             *)

\* A NAD is created, edited or deleted; one of the same name that is created
\* again would have another UID and is another member of NADs.
EditNAD(d) ==
  /\ used.edits < env.edits /\ d \notin used.deleted /\ d \in env.nads
  /\ \E c \in env.confs \cup {None} :
       /\ c # nads[d] /\ nads' = [nads EXCEPT ![d] = c]
       /\ used' = [used EXCEPT !.edits = @ + 1,
                     !.deleted = IF c = None THEN @ \cup {d} ELSE @]
  /\ UNCHANGED <<nodes, spools, plugin, caches, queue, rec>>

NodeJoins(n) ==
  /\ n \in env.nodes \ nodes /\ used.moves < env.moves
  /\ n \in used.left => env.rejoin
  /\ nodes' = nodes \cup {n}
  /\ used' = [used EXCEPT !.moves = @ + 1]
  /\ UNCHANGED <<nads, spools, plugin, caches, queue, rec>>

\* The Node object goes; pods of the node and calls of its plugin may go on.
NodeLeaves(n) ==
  /\ n \in nodes /\ used.moves < env.moves
  /\ nodes' = nodes \ {n}
  /\ used' = [used EXCEPT !.moves = @ + 1, !.left = @ \cup {n}]
  /\ UNCHANGED <<nads, spools, plugin, caches, queue, rec>>

\* The API server's garbage collector removes a pool all of whose owners are
\* gone.
Collect(q) ==
  /\ spools[q] # None /\ \A d \in spools[q].owners : nads[d] = None
  /\ spools' = [spools EXCEPT ![q] = None]
  /\ fresh' = fresh \ {q}
  /\ rec' = IF rec.pc = "idle" THEN rec ELSE [rec EXCEPT !.current = @ \ {q}]
  /\ UNCHANGED <<nodes, nads, plugin, cnodes, cnads, cspools, cippools, queue, used>>

\* Informer events.  Node updates are filtered out; a node that comes or goes
\* makes mapNodeToNADs enqueue every cached NAD; a changed NAD is enqueued; a
\* changed NodeSlicePool enqueues nothing.
SyncNodes ==
  /\ cnodes # nodes /\ cnodes' = nodes
  /\ queue' = queue \cup {d \in NADs : cnads[d] # None}
  /\ UNCHANGED <<nodes, nads, spools, plugin, cnads, cspools, cippools, fresh, rec, used>>

SyncNADs ==
  /\ cnads # nads /\ cnads' = nads
  /\ queue' = queue \cup {d \in NADs : cnads[d] # nads[d]}
  /\ UNCHANGED <<nodes, nads, spools, plugin, cnodes, cspools, cippools, fresh, rec, used>>

SyncPools ==
  /\ fresh # PoolNames /\ fresh' = PoolNames /\ cspools' = spools
  /\ UNCHANGED <<nodes, nads, spools, plugin, cnodes, cnads, cippools, queue, rec, used>>

SyncIPPools ==
  /\ cippools # ippools /\ cippools' = ippools
  /\ UNCHANGED <<nodes, nads, spools, plugin, cnodes, cnads, cspools, fresh, queue, rec, used>>

\* The operator dies and starts again: caches are listed anew and every NAD is
\* reconciled.
Restart ==
  /\ rec.pc # "idle" /\ used.faults < env.faults
  /\ used' = [used EXCEPT !.faults = @ + 1]
  /\ rec' = [pc |-> "idle"]
  /\ cnodes' = nodes /\ cnads' = nads /\ cspools' = spools /\ cippools' = ippools
  /\ fresh' = PoolNames
  /\ queue' = {d \in NADs : nads[d] # None}
  /\ UNCHANGED <<nodes, nads, spools, plugin>>
-----------------------------------------------------------------------------
(* The reconciler                                                          *)

Done(again) ==
  /\ rec' = [pc |-> "idle"]
  /\ queue' = IF again THEN queue \cup {rec.nad} ELSE queue

\* checkMultiNADMismatch: another NAD that resolves to the same pool has
\* another range or slice size, or does not parse.
checkMultiNADMismatch(d) ==
  \E o \in NADs \ {d} :
    /\ cnads[o] # None
    /\ \/ cnads[o].kind = "bad"
       \/ /\ cnads[o].kind = "sliced"
          /\ nodeSlicePoolName(cnads[o]) = nodeSlicePoolName(cnads[d])
          /\ <<cnads[o].range, cnads[o].size>> # <<cnads[d].range, cnads[d].size>>

\* Reconcile up to its first request: everything read comes from the caches.
\* An error puts the NAD back in the queue.
Begin(d) ==
  LET c == cnads[d]
      q == nodeSlicePoolName(c)
      owned == {p \in PoolNames \ {q} : cspools[p] # None /\ d \in cspools[p].owners}
  IN /\ rec.pc = "idle" /\ d \in queue
     /\ env.stalePools \/ fresh = PoolNames
     /\ IF Sliced(c)
        THEN IF checkMultiNADMismatch(d)
             THEN UNCHANGED <<rec, queue>>
             ELSE /\ queue' = queue \ {d}
                  /\ rec' = [pc |-> "cleanup", nad |-> d, conf |-> c, nodes |-> cnodes,
                             copy |-> cspools[q], current |-> fresh,
                             changed |-> cspools[q] # None /\ <<cspools[q].range, cspools[q].size>> # <<c.range, c.size>>,
                             stale |-> [p \in owned |-> cspools[p].owners \ {d}],
                             todo |-> {}, blocked |-> FALSE, want |-> [alloc |-> <<>>, cond |-> NoCond]]
        ELSE /\ queue' = IF c # None /\ c.kind = "bad" THEN queue ELSE queue \ {d}
             /\ UNCHANGED rec
     /\ UNCHANGED <<nodes, nads, spools, plugin, caches, used>>

\* A request that writes NodeSlicePool q.  The answer brings the stored object
\* and its version into the reconciler's copy.
Store(q, p) ==
  /\ spools' = [spools EXCEPT ![q] = p]
  /\ fresh' = fresh \ {q}
  /\ UNCHANGED <<nodes, nads, plugin, cnodes, cnads, cspools, cippools, used>>
NoRequest == UNCHANGED <<nodes, nads, spools, plugin, caches, used>>

Q == nodeSlicePoolName(rec.conf)
Wanted == Subnets(rec.conf.range, rec.conf.size)

\* cleanupStaleOwnedPools: pools the NAD owned under an earlier configuration
\* are deleted, or lose it as an owner.
Cleanup(q) ==
  /\ rec.pc = "cleanup" /\ q \in DOMAIN rec.stale
  /\ IF rec.stale[q] = {}
     THEN Store(q, None)
     ELSE /\ q \in rec.current /\ spools[q] # None
          /\ Store(q, [spools[q] EXCEPT !.owners = rec.stale[q]])
  /\ rec' = [rec EXCEPT !.stale = [p \in DOMAIN rec.stale \ {q} |-> rec.stale[p]]]
  /\ UNCHANGED queue

CleanupConflict(q) ==
  /\ rec.pc = "cleanup" /\ q \in DOMAIN rec.stale /\ rec.stale[q] # {}
  /\ q \notin rec.current \/ spools[q] = None
  /\ Done(TRUE) /\ NoRequest

\* createPool: the server drops the status of a created object.
Create ==
  /\ rec.pc = "cleanup" /\ DOMAIN rec.stale = {} /\ rec.copy = None
  /\ IF spools[Q] # None
     THEN Done(TRUE) /\ NoRequest
     ELSE LET p == [range |-> rec.conf.range, size |-> rec.conf.size, owners |-> {rec.nad},
                    alloc |-> <<>>, cond |-> NoCond]
          IN /\ Store(Q, p)
             /\ rec' = [rec EXCEPT !.pc = "status", !.current = @ \cup {Q}, !.copy = p,
                          !.want = [alloc |-> makeAllocations(Wanted, rec.nodes), cond |-> markReady("created")]]
             /\ UNCHANGED queue

\* ensureOwnerRef replaces the list of owners, whatever the stored one is.
Owner ==
  /\ rec.pc = "cleanup" /\ DOMAIN rec.stale = {} /\ rec.copy # None
  /\ IF rec.nad \in rec.copy.owners
     THEN /\ rec' = [rec EXCEPT !.pc = "owned"]
          /\ UNCHANGED queue /\ NoRequest
     ELSE IF spools[Q] = None
     THEN Done(TRUE) /\ NoRequest
     ELSE LET p == [spools[Q] EXCEPT !.owners = rec.copy.owners \cup {rec.nad}]
          IN /\ Store(Q, p)
             /\ rec' = [rec EXCEPT !.pc = "owned", !.current = @ \cup {Q}, !.copy = p]
             /\ UNCHANGED queue

\* Mutant: the status is written although the spec is not.
UpdateStatusOnly ==
  /\ rec.pc = "owned" /\ rec.changed
  /\ rec' = [rec EXCEPT !.pc = "status", !.want = [alloc |-> makeAllocations(Wanted, rec.nodes), cond |-> markReady("updated")]]
  /\ UNCHANGED queue /\ NoRequest

\* updatePoolSpec: the spec is patched first, with the fields that differ from
\* the copy and without a version, then the status.
UpdatePoolSpec ==
  /\ rec.pc = "owned" /\ rec.changed
  /\ LET want == [alloc |-> makeAllocations(Wanted, rec.nodes), cond |-> markReady("updated")]
         diff(f) == IF rec.conf[f] # rec.copy[f] THEN rec.conf[f] ELSE spools[Q][f]
         p == [spools[Q] EXCEPT !.range = diff("range"), !.size = diff("size")]
     IN IF <<rec.conf.range, rec.conf.size>> = <<rec.copy.range, rec.copy.size>>
        THEN /\ rec' = [rec EXCEPT !.pc = "status", !.want = want]
             /\ UNCHANGED queue /\ NoRequest
        ELSE IF spools[Q] = None
        THEN Done(TRUE) /\ NoRequest
        ELSE /\ Store(Q, p)
             /\ rec' = [rec EXCEPT !.pc = "status", !.current = @ \cup {Q}, !.copy = p, !.want = want]
             /\ UNCHANGED queue

\* rebuildPoolStatus repairs a status that does not fit the slices.
Rebuild ==
  /\ rec.pc = "owned" /\ ~rec.changed
  /\ allocationsNeedRebuild(rec.copy.alloc, Wanted)
  /\ rec' = [rec EXCEPT !.pc = "rebuild",
               !.want = [alloc |-> repairAllocations(rec.copy.alloc, Wanted, rec.nodes), cond |-> markReady("rebuilt")]]
  /\ UNCHANGED queue /\ NoRequest

Gone(alloc, S) == {i \in DOMAIN alloc : alloc[i].node \notin S \cup {Free}}
StartAssignments(p) ==
  [rec EXCEPT !.pc = "assign", !.copy = p, !.todo = Gone(p.alloc, rec.nodes),
     !.want = [alloc |-> p.alloc, cond |-> p.cond]]

EnsureNodeAssignments ==
  /\ rec.pc = "owned" /\ ~rec.changed
  /\ ~allocationsNeedRebuild(rec.copy.alloc, Wanted)
  /\ rec' = StartAssignments(rec.copy)
  /\ UNCHANGED queue /\ NoRequest

\* Mutant: the slice is given up whatever the IPPool holds.
releaseAlways(i) ==
  LET a == rec.want.alloc[i]
      q == nodeSliceIPPoolName(rec.conf.net, a.node, a.slice)
  IN /\ rec.pc = "assign" /\ i \in rec.todo /\ \A j \in rec.todo : i <= j
     /\ rec' = [rec EXCEPT !.todo = @ \ {i}, !.want.alloc[i].node = Free]
     /\ ippools' = IF cippools[q] # None THEN [ippools EXCEPT ![q] = None] ELSE ippools
     /\ UNCHANGED <<nodes, nads, spools, att, caches, queue, used>>

\* releaseDeletedNodeSlice for one slot of a node that is gone: the slot stays
\* taken while the cached IPPool of that node and slice has allocations; an
\* empty IPPool is deleted, without a precondition.
releaseDeletedNodeSlice(i) ==
  LET a == rec.want.alloc[i]
      q == nodeSliceIPPoolName(rec.conf.net, a.node, a.slice)
      keep == cippools[q] # None /\ cippools[q] # {}
  IN /\ rec.pc = "assign" /\ i \in rec.todo /\ \A j \in rec.todo : i <= j
     /\ rec' = [rec EXCEPT !.todo = @ \ {i}, !.blocked = @ \/ keep,
                  !.want.alloc[i].node = IF keep THEN @ ELSE Free]
     /\ ippools' = IF cippools[q] = {} THEN [ippools EXCEPT ![q] = None] ELSE ippools
     /\ UNCHANGED <<nodes, nads, spools, att, caches, queue, used>>

\* Mutant: a blocked reconcile is not repeated.
AssignOnce ==
  LET alloc == AssignFree(rec.want.alloc, rec.nodes)
      unserved == rec.nodes \ Holders(alloc)
      want == [alloc |-> alloc,
               cond |-> IF rec.blocked THEN markReconciling(rec.want.cond)
                        ELSE IF unserved = {} THEN markReady("assigned")
                        ELSE markStalled(CHOOSE n \in unserved : \A m \in unserved : m <= n)]
  IN /\ rec.pc = "assign" /\ rec.todo = {}
     /\ IF want = [alloc |-> rec.copy.alloc, cond |-> rec.copy.cond]
        THEN Done(FALSE)
        ELSE rec' = [rec EXCEPT !.pc = "status", !.want = want, !.blocked = FALSE] /\ UNCHANGED queue
     /\ NoRequest

\* The nodes without a slice are served, then the status is written if it
\* differs from the copy.
Assign ==
  LET alloc == AssignFree(rec.want.alloc, rec.nodes)
      unserved == rec.nodes \ Holders(alloc)
      want == [alloc |-> alloc,
               cond |-> IF rec.blocked THEN markReconciling(rec.want.cond)
                        ELSE IF unserved = {} THEN markReady("assigned")
                        ELSE markStalled(CHOOSE n \in unserved : \A m \in unserved : m <= n)]
  IN /\ rec.pc = "assign" /\ rec.todo = {}
     /\ IF want = [alloc |-> rec.copy.alloc, cond |-> rec.copy.cond]
        THEN Done(rec.blocked)
        ELSE rec' = [rec EXCEPT !.pc = "status", !.want = want] /\ UNCHANGED queue
     /\ NoRequest

\* PatchHelper's Status().Update, with the version of the copy.
UpdateStatus ==
  /\ rec.pc \in {"status", "rebuild"}
  /\ IF spools[Q] # None /\ Q \in rec.current
     THEN LET p == [rec.copy EXCEPT !.alloc = rec.want.alloc, !.cond = rec.want.cond]
          IN /\ Store(Q, [spools[Q] EXCEPT !.alloc = p.alloc, !.cond = p.cond])
             /\ IF rec.pc = "rebuild"
                THEN rec' = StartAssignments(p) /\ UNCHANGED queue
                ELSE Done(rec.blocked)
     ELSE Done(TRUE) /\ NoRequest

\* A request fails: the reconcile returns the error and is repeated.
Fail ==
  /\ rec.pc # "idle" /\ used.faults < env.faults
  /\ used' = [used EXCEPT !.faults = @ + 1]
  /\ Done(TRUE)
  /\ UNCHANGED <<nodes, nads, spools, plugin, caches>>
-----------------------------------------------------------------------------
(* The CNI plugin                                                          *)

\* GetNodeSlicePoolRange: the first slice of the stored status that is
\* assigned to the node.
SlotsOf(c, n) ==
  LET p == spools[nodeSlicePoolName(c)]
  IN IF p = None THEN {} ELSE {i \in DOMAIN p.alloc : p.alloc[i].node = n}
GetNodeSlicePoolRange(c, n) ==
  spools[nodeSlicePoolName(c)].alloc[CHOOSE i \in SlotsOf(c, n) : \A j \in SlotsOf(c, n) : i <= j].slice

\* A pod is bound to a node and attached to the network of a NAD.
StartPod(p, n, d) ==
  /\ att[p] = None /\ n \in nodes /\ Sliced(nads[d])
  /\ \A q \in env.pods : q < p => att[q] # None    \* pods are numbered as they start
  /\ att' = [att EXCEPT ![p] = [st |-> "adding", node |-> n, conf |-> nads[d], pool |-> None, addr |-> 0]]
  /\ UNCHANGED <<nodes, nads, spools, ippools, caches, queue, rec, used>>

\* An attempt of the retry loop looks up the slice and gets its IPPool, or
\* creates it and tries again.  A node without a slice makes ADD fail: it is
\* called again.
AddLookup(p) ==
  LET a == att[p]
      q == nodeSliceIPPoolName(a.conf.net, a.node, GetNodeSlicePoolRange(a.conf, a.node))
  IN /\ a # None /\ a.st = "adding" /\ SlotsOf(a.conf, a.node) # {}
     /\ att' = [att EXCEPT ![p].st = "pool", ![p].pool = q]
     /\ UNCHANGED <<nodes, nads, spools, ippools, caches, queue, rec, used>>

Lowest(S) == CHOOSE x \in S : \A y \in S : x <= y

\* The pool's resourceVersion makes reading it and adding the entry one step.
AddCommit(p) ==
  LET a == att[p]
      q == a.pool
      room == q[3] \ {e.addr : e \in ippools[q]}
  IN /\ a # None /\ a.st = "pool"
     /\ IF ippools[q] = None
        THEN /\ ippools' = [ippools EXCEPT ![q] = {}]
             /\ att' = [att EXCEPT ![p].st = "adding", ![p].pool = None]
        ELSE /\ room # {}
             /\ ippools' = [ippools EXCEPT ![q] = @ \cup {[addr |-> Lowest(room), pod |-> p]}]
             /\ att' = [att EXCEPT ![p].st = "up", ![p].addr = Lowest(room)]
     /\ UNCHANGED <<nodes, nads, spools, caches, queue, rec, used>>

\* The pod ends.  Its DEL looks for the entry in the slice the node has now; it
\* may also never be called.
Del(p) ==
  LET a == att[p]
      q == nodeSliceIPPoolName(a.conf.net, a.node, GetNodeSlicePoolRange(a.conf, a.node))
  IN /\ a # None /\ a.st = "up"
     /\ att' = [att EXCEPT ![p].st = "gone"]
     /\ \/ /\ SlotsOf(a.conf, a.node) # {} /\ ippools[q] # None
           /\ ippools' = [ippools EXCEPT ![q] = {e \in @ : e.pod # p}]
        \/ UNCHANGED ippools
     /\ UNCHANGED <<nodes, nads, spools, caches, queue, rec, used>>

\* The IPPool reconciler (module Reconcilers) removes entries of ended pods.
Orphans(q) == {e \in ippools[q] : att[e.pod].st = "gone"}
RemoveOrphans(q) ==
  /\ ippools[q] # None /\ Orphans(q) # {}
  /\ ippools' = [ippools EXCEPT ![q] = @ \ Orphans(q)]
  /\ UNCHANGED <<nodes, nads, spools, att, caches, queue, rec, used>>
-----------------------------------------------------------------------------
Reconcile ==
  \/ \E d \in NADs : Begin(d)
  \/ \E q \in PoolNames : Cleanup(q) \/ CleanupConflict(q)
  \/ Create \/ Owner \/ UpdatePoolSpec \/ Rebuild \/ EnsureNodeAssignments
  \/ \E i \in 1..Cardinality(Slices) : releaseDeletedNodeSlice(i)
  \/ Assign \/ UpdateStatus

Cluster ==
  \/ \E d \in NADs : EditNAD(d)
  \/ \E n \in Nodes : NodeJoins(n) \/ NodeLeaves(n)
  \/ \E q \in PoolNames : Collect(q)
  \/ SyncNodes \/ SyncNADs \/ SyncPools \/ SyncIPPools

Plugin ==
  \/ \E p \in env.pods, n \in Nodes, d \in NADs : StartPod(p, n, d)
  \/ \E p \in Pods : AddLookup(p) \/ AddCommit(p) \/ Del(p)
  \/ \E q \in IPPoolNames : RemoveOrphans(q)

\* A pod whose entry is not in the operator's IPPool cache, on a node the
\* operator takes for gone: the node has left, or came after the node cache or
\* the reconcile in progress last saw the nodes.
Attached(p) == att[p] # None /\ att[p].st \in {"adding", "pool", "up"}
Recorded(p) == /\ att[p].pool # None /\ cippools[att[p].pool] # None
               /\ \E e \in cippools[att[p].pool] : e.pod = p
Unseen(p) ==
  /\ Attached(p) /\ ~Recorded(p)
  /\ \/ att[p].node \notin nodes \cap cnodes
     \/ rec.pc # "idle" /\ att[p].node \notin rec.nodes

\* Pods with a slice of a NodeSlicePool whose slices are all assigned anew:
\* the pool was created, its spec changed, or its status did not fit the spec.
Resliced ==
  IF /\ rec.pc \in {"status", "rebuild"}
     /\ spools'[Q] # spools[Q] /\ spools'[Q] # None
     /\ \/ rec.want.cond \in {markReady("created"), markReady("updated")}
        \/ rec.pc = "rebuild" /\ ~allocationsMatchSubnetPrefix(rec.copy.alloc, Wanted)
  THEN {p \in Pods : Attached(p) /\ att[p].pool # None /\ nodeSlicePoolName(att[p].conf) = Q}
  ELSE {}

Next ==
  /\ UNCHANGED env
  /\ Reconcile \/ Cluster \/ Plugin \/ Restart \/ Fail
  /\ exposed' = exposed \cup Resliced \cup {p \in Pods : Unseen(p)'}

\* Informers deliver, the IPPool reconciler and the garbage collector run, and
\* the workqueue serves every NAD.  Nothing makes pods end.
Fairness ==
  /\ WF_vars(SyncNodes \/ SyncNADs) /\ WF_vars(SyncPools)
  /\ WF_vars(SyncIPPools \/ \E q \in IPPoolNames : RemoveOrphans(q))
  /\ WF_vars(\E q \in PoolNames : Collect(q))
  /\ WF_vars(Reconcile) /\ \A d \in NADs : SF_vars(Begin(d))

Spec == Init /\ [][Next]_<<env, exposed, vars>>
FairSpec == Spec /\ Fairness
-----------------------------------------------------------------------------
Statuses == {None} \cup [status : {"True", "False", "Unknown"},
                        msg : {"created", "updated", "rebuilt", "assigned", "full", "waiting"} \X (Nodes \cup {Free})]
NodeSlicePool ==
  [range : {c.range : c \in Confs}, size : {c.size : c \in Confs}, owners : SUBSET NADs,
   alloc : Seq([slice : Slices, node : Nodes \cup {Free}]),
   cond : [ready : Statuses, reconciling : Statuses, stalled : Statuses]]

TypeOK ==
  /\ nodes \subseteq Nodes /\ cnodes \subseteq Nodes
  /\ \A d \in NADs : nads[d] \in Confs \cup {None} /\ cnads[d] \in Confs \cup {None}
  /\ \A q \in PoolNames : spools[q] \in NodeSlicePool \cup {None} /\ cspools[q] \in NodeSlicePool \cup {None}
  /\ \A q \in IPPoolNames : ippools[q] = None \/ \A e \in ippools[q] : e.addr \in q[3] /\ e.pod \in Pods
  /\ fresh \subseteq PoolNames /\ queue \subseteq NADs
  /\ \A q \in fresh : cspools[q] = spools[q]

Up(p) == att[p] # None /\ att[p].st = "up"

\* Running pods that have their slices from one NodeSlicePool never share an
\* address, though nodes leave with running pods and come back: a slice changes
\* hands only when nothing is recorded in it (releaseDeletedNodeSlice,
\* ensureNodeAssignments).  Excepted are pods that were attached while the
\* operator took their node for gone and its IPPool cache did not have their
\* entry (Unseen), and pods attached before the range was sliced anew
\* (Resliced).
UniqueAddress ==
  \A p, q \in Pods \ exposed :
    p # q /\ Up(p) /\ Up(q) /\ nodeSlicePoolName(att[p].conf) = nodeSlicePoolName(att[q].conf)
      => att[p].addr # att[q].addr

\* No node ever holds two slices of a pool, of which GetNodeSlicePoolRange
\* would only see the first: makeAllocations, repairAllocations and
\* ensureNodeAssignments never assign a node twice.
OneSlicePerNode ==
  \A q \in PoolNames : spools[q] # None =>
    \A i, j \in DOMAIN spools[q].alloc :
      spools[q].alloc[i].node = spools[q].alloc[j].node => i = j \/ spools[q].alloc[i].node = Free

\* Whenever allocations are published, they are all slices of the range and
\* slice size of the NAD that is reconciled, in order; and these are the range
\* and slice size stored at that moment, unless the reconcile read a
\* NodeSlicePool older than the operator's own last write: PatchHelper writes
\* the status only after the spec, and with the version of the object it was
\* computed from (createPool, updatePoolSpec, rebuildPoolStatus,
\* ensureNodeAssignments).
PublishedSlicesMatchSpec ==
  [][\A q \in PoolNames :
       spools[q] # None /\ spools'[q] # None /\ spools'[q].alloc # spools[q].alloc =>
         /\ DOMAIN spools'[q].alloc = DOMAIN Wanted
         /\ \A i \in DOMAIN Wanted : spools'[q].alloc[i].slice = Wanted[i]
         /\ ~env.stalePools =>
              <<spools[q].range, spools[q].size>> = <<rec.conf.range, rec.conf.size>>]_vars

Conflicting(d) == \E o \in NADs \ {d} : nads[o] # None /\
  \/ nads[o].kind = "bad"
  \/ nads[o].kind = "sliced" /\ nodeSlicePoolName(nads[o]) = nodeSlicePoolName(nads[d])
     /\ <<nads[o].range, nads[o].size>> # <<nads[d].range, nads[d].size>>

HasEntries(c, a) == LET q == nodeSliceIPPoolName(c.net, a.node, a.slice)
                    IN ippools[q] # None /\ ippools[q] # {}

\* The pool of a NAD has its range and slices; slots of nodes that are gone are
\* free unless addresses of the slice are still recorded; and no node lacks a
\* slice while one is free.
Settled(d) ==
  LET c == nads[d]
      p == spools[nodeSlicePoolName(c)]
      s == Subnets(c.range, c.size)
  IN /\ p # None /\ <<p.range, p.size>> = <<c.range, c.size>> /\ d \in p.owners
     /\ Len(p.alloc) = Len(s) /\ \A i \in DOMAIN s : p.alloc[i].slice = s[i]
     /\ \A i \in Gone(p.alloc, nodes) : HasEntries(c, p.alloc[i])
     /\ nodes \subseteq Holders(p.alloc) \/ FreeSlots(p.alloc) = {}
     /\ \A q \in PoolNames \ {nodeSlicePoolName(c)} : spools[q] # None => d \notin spools[q].owners

\* Once nodes and NADs stop changing, every pool ends up as its NADs and the
\* nodes ask, whatever reconcile was cut short in between (Reconcile,
\* rebuildPoolStatus, the requeue of ensureNodeAssignments), as long as no
\* reconcile reads a NodeSlicePool older than the operator's own last write.
SlicesSettle ==
  <>[](~env.stalePools => \A d \in NADs : Sliced(nads[d]) /\ ~Conflicting(d) => Settled(d))

-----------------------------------------------------------------------------
(* What the repository says of the code and TLC refutes; see README.md.    *)

\* Nothing is queued or in progress and the caches are up to date: the
\* operator does nothing more until a node or a NAD changes (or the informers
\* replay all NADs, every ten hours).
AtRest == rec.pc = "idle" /\ queue = {} /\ cnodes = nodes /\ cnads = nads /\ fresh = PoolNames

\* An operator at rest has reflected every node and NAD event it was sent
\* (SetupNodeSliceReconciler, ensureNodeAssignments).
SettledAtRest ==
  AtRest => \A d \in NADs : Sliced(nads[d]) /\ ~Conflicting(d) => Settled(d)

\* At rest a node without a slice of a pool that has none free is reported:
\* the pool is Stalled (ensureNodeAssignments, markStalled).
FullPoolReported ==
  AtRest => \A q \in PoolNames : spools[q] # None =>
    \/ nodes \subseteq Holders(spools[q].alloc) \/ FreeSlots(spools[q].alloc) # {}
    \/ spools[q].cond # NoCond /\ spools[q].cond.stalled.status = "True"

\* The slice of a removed node is not given to another one while the IPPool of
\* that node and slice has allocations (releaseDeletedNodeSlice).
RemovedNodeSliceKept ==
  [][\A d \in NADs : Sliced(nads[d]) =>
       LET q == nodeSlicePoolName(nads[d])
       IN spools[q] # None /\ spools'[q] # None /\ spools[q].range = spools'[q].range =>
            \A i \in Gone(spools[q].alloc, nodes) \cap DOMAIN spools'[q].alloc :
              HasEntries(nads[d], spools[q].alloc[i]) => spools'[q].alloc[i] = spools[q].alloc[i]]_vars
=============================================================================
