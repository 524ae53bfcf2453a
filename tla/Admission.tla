----------------------------- MODULE Admission -----------------------------
(***************************************************************************)
(* The validating webhooks (internal/webhook, internal/validation) and the *)
(* writers whose objects they judge: users through the API server, and the *)
(* plugin and the operator, whose service accounts the webhooks'           *)
(* matchConditions let through.  While no replica serves the webhooks,     *)
(* failurePolicy Ignore lets everyone through.  What the reconcilers       *)
(* repair of such writes is the same as in Reconcilers and NodeSlice, in   *)
(* one step each.                                                          *)
(*                                                                         *)
(* A podRef is a pod, or Empty, NoSlash (it does not split in two parts    *)
(* with text) or Blank (a part of it is white space).  A CIDR is as in     *)
(* Prefixes; a slice size is a number or Bad.                              *)
(***************************************************************************)
EXTENDS Prefixes

CONSTANTS
  MaxNodeSliceSubnets, MaxPrefix,   \* 16384, 128
  Pods, Empty, NoSlash, Blank,
  Keys, BadKey,        \* offsets, and a key that is none
  PoolRange,           \* the range of the network's IPPool
  NADs,                \* [range, size] the slicing NAD may ask for
  UserPools, UserSlicePools, UserReservations,   \* what users write
  None,
  MaxEdits, MaxOutages

VARIABLES
  pods,         \* the pods that exist
  nad,          \* what the NAD asks for
  ippool,       \* None, or [range, allocations]
  slicepool,    \* None, or [range, size]
  reservation,  \* None, or [podRef, ifName, containerID, podUID]
  serving,      \* a replica serves the webhooks
  edits, outages

vars == <<pods, nad, ippool, slicepool, reservation, serving, edits, outages>>
-----------------------------------------------------------------------------
(* internal/validation: TRUE is no error.                                  *)

\* net.ParseCIDR: the address may have bits past the prefix.
ValidateCIDR(cidr) == cidr \notin {Empty, Bad}

ValidatePodRef(podRef, required) ==
  IF podRef = Empty THEN ~required ELSE podRef \notin {NoSlash, Blank}

ValidateSliceSize(size) == size \notin {Empty, Bad} /\ 1 =< size /\ size =< MaxPrefix

ValidateSliceSizeForRange(size, cidr) ==
  /\ ValidateSliceSize(size) /\ ValidateCIDR(cidr)
  /\ size =< Width(cidr) /\ size >= cidr.bits
-----------------------------------------------------------------------------
(* internal/webhook                                                        *)

\* Mutant: an offset is positive.
KeyAboveZero(key) == key # BadKey /\ key > 0

validateAllocationKey(key) == key # BadKey

\* An empty podRef is only warned about.
validateIPPool(pool) ==
  /\ ValidateCIDR(pool.range)
  /\ \A key \in DOMAIN pool.allocations :
       validateAllocationKey(key) /\ ValidatePodRef(pool.allocations[key], FALSE)

IPPoolValidateUpdate(old, pool) == old.range = pool.range /\ validateIPPool(pool)

validateNodeSlicePool(pool) == ValidateCIDR(pool.range) /\ ValidateSliceSizeForRange(pool.size, pool.range)

NodeSlicePoolValidateUpdate(old, pool) ==
  old.range = pool.range /\ old.size = pool.size /\ validateNodeSlicePool(pool)

validateOverlappingRange(res) == ValidatePodRef(res.podRef, TRUE)

OverlappingRangeValidateUpdate(old, res) ==
  /\ old.podRef = res.podRef /\ old.ifName = res.ifName
  /\ old.containerID = res.containerID /\ old.podUID = res.podUID
  /\ validateOverlappingRange(res)

\* The API server asks whoever serves; deletes are always allowed.
Admit(allowed) == serving => allowed
-----------------------------------------------------------------------------
(* Users                                                                   *)

Edit == edits < MaxEdits /\ edits' = edits + 1

UserWritesPool ==
  /\ Edit
  /\ \E new \in UserPools \cup {None} :
       /\ new # ippool /\ ippool' = new
       /\ new # None => Admit(IF ippool = None THEN validateIPPool(new) ELSE IPPoolValidateUpdate(ippool, new))
  /\ UNCHANGED <<pods, nad, slicepool, reservation, serving, outages>>

UserWritesSlicePool ==
  /\ Edit
  /\ \E new \in UserSlicePools \cup {None} :
       /\ new # slicepool /\ slicepool' = new
       /\ new # None => Admit(IF slicepool = None THEN validateNodeSlicePool(new)
                              ELSE NodeSlicePoolValidateUpdate(slicepool, new))
  /\ UNCHANGED <<pods, nad, ippool, reservation, serving, outages>>

UserWritesReservation ==
  /\ Edit
  /\ \E new \in UserReservations \cup {None} :
       /\ new # reservation /\ reservation' = new
       /\ new # None => Admit(IF reservation = None THEN validateOverlappingRange(new)
                              ELSE OverlappingRangeValidateUpdate(reservation, new))
  /\ UNCHANGED <<pods, nad, ippool, slicepool, serving, outages>>

UserEditsNAD ==
  /\ Edit
  /\ nad' \in NADs \ {nad}
  /\ UNCHANGED <<pods, ippool, slicepool, reservation, serving, outages>>

Outage ==
  /\ serving /\ outages < MaxOutages
  /\ serving' = FALSE /\ outages' = outages + 1
  /\ UNCHANGED <<pods, nad, ippool, slicepool, reservation, edits>>

Served ==
  /\ ~serving /\ serving' = TRUE
  /\ UNCHANGED <<pods, nad, ippool, slicepool, reservation, edits, outages>>
-----------------------------------------------------------------------------
(* The plugin                                                              *)

\* The list a pool is read into: entries under other keys are not in it.
Listed == DOMAIN ippool.allocations \ {BadKey}

\* ADD of pod p: the pool if there is none, else an entry, with which the list
\* replaces the stored map, and the reservation.  A range that does not parse
\* fails it.
Add(p) ==
  /\ p \in pods
  /\ IF ippool = None THEN ippool' = [range |-> PoolRange, allocations |-> <<>>] /\ UNCHANGED reservation
     ELSE /\ ippool.range # Bad /\ \A key \in Listed : ippool.allocations[key] # p
          /\ \E key \in Keys \ Listed :
               ippool' = [ippool EXCEPT !.allocations = [k \in Listed \cup {key} |-> IF k = key THEN p ELSE @[k]]]
          /\ reservation' = IF reservation # None THEN reservation
                            ELSE [podRef |-> p, ifName |-> 1, containerID |-> 1, podUID |-> 1]
  /\ UNCHANGED <<pods, nad, slicepool, serving, edits, outages>>

PodDeleted(p) ==
  /\ p \in pods /\ pods' = pods \ {p}
  /\ UNCHANGED <<nad, ippool, slicepool, reservation, serving, edits, outages>>
-----------------------------------------------------------------------------
(* The operator                                                            *)

\* parsePodRef does not look at white space.
parsePodRef(podRef) == podRef \notin {Empty, NoSlash}

\* Mutant: an entry without a pod is skipped, as a reservation is.
OrphanedIfNamed(podRef) == podRef # Empty /\ (~parsePodRef(podRef) \/ podRef \notin pods)

Orphaned(podRef) == podRef = Empty \/ ~parsePodRef(podRef) \/ podRef \notin pods

\* The IPPool reconciler removes entries without a pod.
ReconcilePool ==
  /\ ippool # None
  /\ LET kept == {key \in DOMAIN ippool.allocations : ~Orphaned(ippool.allocations[key])}
     IN  /\ kept # DOMAIN ippool.allocations
         /\ ippool' = [ippool EXCEPT !.allocations = [key \in kept |-> @[key]]]
  /\ UNCHANGED <<pods, nad, slicepool, reservation, serving, edits, outages>>

\* The reservation reconciler skips a reservation with an empty podRef.
ReconcileReservation ==
  /\ reservation # None /\ reservation.podRef # Empty
  /\ ~parsePodRef(reservation.podRef) \/ reservation.podRef \notin pods
  /\ reservation' = None
  /\ UNCHANGED <<pods, nad, ippool, slicepool, serving, edits, outages>>

\* The NodeSlice reconciler creates the pool or gives it the NAD's range and
\* size, if the NAD can be divided.
ReconcileSlices ==
  /\ divideRangeBySize(nad.range, nad.size, MaxNodeSliceSubnets) # <<>>
  /\ slicepool # nad /\ slicepool' = nad
  /\ UNCHANGED <<pods, nad, ippool, reservation, serving, edits, outages>>
-----------------------------------------------------------------------------
Init ==
  /\ pods = Pods /\ nad \in NADs
  /\ ippool = None /\ slicepool = None /\ reservation = None
  /\ serving = TRUE /\ edits = 0 /\ outages = 0

Next ==
  \/ UserWritesPool \/ UserWritesSlicePool \/ UserWritesReservation \/ UserEditsNAD
  \/ Outage \/ Served
  \/ \E p \in Pods : Add(p) \/ PodDeleted(p)
  \/ ReconcilePool \/ ReconcileReservation \/ ReconcileSlices

Spec == Init /\ [][Next]_vars
-----------------------------------------------------------------------------
Admissible ==
  /\ ippool # None => IPPoolValidateUpdate(ippool, ippool)
  /\ slicepool # None => NodeSlicePoolValidateUpdate(slicepool, slicepool)
  /\ reservation # None => OverlappingRangeValidateUpdate(reservation, reservation)

\* As long as the webhooks are served, every stored object can be written back
\* as it is, with a label or a finalizer changed: what the plugin and the
\* operator store past the webhooks, the webhooks would admit.
StoredIsAdmissible == outages = 0 => Admissible

\* What an outage leaves in the end: no entry and no named reservation but a
\* running pod's, and slices as the NAD asks.
Repaired ==
  /\ ippool # None => \A key \in DOMAIN ippool.allocations : ippool.allocations[key] \in pods
  /\ reservation # None => reservation.podRef \in pods \cup {Empty}
  /\ divideRangeBySize(nad.range, nad.size, MaxNodeSliceSubnets) # <<>> => slicepool = nad

-----------------------------------------------------------------------------
(* What the repository says of the code and TLC refutes; see README.md.    *)

\* What was written during an outage and would not have been admitted does
\* not stay.
OutageRepaired == <>[]Admissible

\* The webhook admits a NodeSlicePool exactly if the reconciler can divide its
\* range (the package comment of validation: "consistent validation").
SameVerdict ==
  slicepool # None =>
    (validateNodeSlicePool(slicepool) <=>
       divideRangeBySize(slicepool.range, slicepool.size, MaxNodeSliceSubnets) # <<>>)
=============================================================================
