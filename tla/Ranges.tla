------------------------------- MODULE Ranges -------------------------------
(***************************************************************************)
(* From a configured range to what is published of its pools: the operator *)
(* divides the range into slices (pkg/iphelpers), calls of the plugin      *)
(* allocate in the pool of a slice, and the IPPool reconciler computes the *)
(* status of the pool from its entries and the reservations it lists.      *)
(* When the status is recomputed is in Reconcilers; here it is a function  *)
(* of the pool, so that it is judged in every state a pool can be in.      *)
(***************************************************************************)
EXTENDS Prefixes, FiniteSets

CONSTANTS
  MaxInt32,             \* 2^31 - 1
  MaxNodeSliceSubnets,  \* 16384
  Configured,           \* the ranges that occur, [cidr, size]
  Modes,                \* [L3, RangeStart, RangeEnd, OmitRanges, overlapping] of the network, EnableL3 of the pool
  serviceCIDRs,         \* the list given with --service-cidr
  Others,               \* addresses [v6, ip] another network also reserves
  ReadAs,               \* IPv6 addresses whose names read as IPv4 addresses, and as which (see Names)
  MaxEntries,           \* bound on the entries of all pools together
  Nil

VARIABLES
  conf,          \* the range and the modes
  slices,        \* the CIDRs of the pools
  allocations,   \* the offsets in each pool
  reservations   \* OverlappingRangeIPReservations, [network, v6, ip]

vars == <<conf, slices, allocations, reservations>>
-----------------------------------------------------------------------------
\* Allocate on the pool p.  Only its IPAddOffset looks at where the family
\* ends; here that depends on p.
Alloc(p) == INSTANCE Allocate WITH pool <- Interval(p), MaxIP <- 2 ^ Width6 - 1, Unparsed <- Bad,
              CIDRs <- {}, Confs <- {}, Pools <- {}, allocations <- {}, conf <- 0, pc <- 0, ip <- 0,
              pos <- 0, result <- 0
-----------------------------------------------------------------------------
(* iphelpers                                                               *)

IPAddOffset(p, x, offset) == IF x + offset > 2 ^ Width(p) - 1 THEN Nil ELSE x + offset

AtMost(n) == IF n > MaxInt32 THEN MaxInt32 ELSE n

\* Mutant: the distance of the ends.
CountBetween(p) ==
  IF p.bits = Width(p) THEN 1
  ELSE IF p.bits = Width(p) - 1 THEN 2
  ELSE AtMost(Alloc(p)!IPGetOffset(Alloc(p)!FirstUsableIP(Interval(p)), Alloc(p)!LastUsableIP(Interval(p))))

CountUsableIPs(p) ==
  IF p.bits = Width(p) THEN 1
  ELSE IF p.bits = Width(p) - 1 THEN 2
  ELSE AtMost(Alloc(p)!IPGetOffset(Alloc(p)!FirstUsableIP(Interval(p)),
                                   Alloc(p)!LastUsableIP(Interval(p))) + 1)
-----------------------------------------------------------------------------
(* The status of the pool of slice i.                                      *)

\* Mutant: offsets counted from the first usable address.
KeyFromFirstUsable(p, key) == IPAddOffset(p, Alloc(p)!FirstUsableIP(Interval(p)), key)

allocationKeyToIP(p, key) == IPAddOffset(p, Interval(p).first, key)

AllocatedIPs(i) == {allocationKeyToIP(slices[i], key) : key \in allocations[i]}

\* The address that the name of a reservation reads as.
denormalizeIPName(r) ==
  IF r.v6 /\ r.ip \in DOMAIN ReadAs THEN [v6 |-> FALSE, ip |-> ReadAs[r.ip]] ELSE [v6 |-> r.v6, ip |-> r.ip]

IPOf(i, x) == [v6 |-> slices[i].v6, ip |-> x]

\* Mutant: every reservation of an address counts.
CountEveryReservation(i) ==
  Cardinality({r \in reservations : \E x \in AllocatedIPs(i) : denormalizeIPName(r) = IPOf(i, x)})

\* Each address once, under however many names it is reserved.
OverlappingReservations(i) ==
  Cardinality({x \in AllocatedIPs(i) : \E r \in reservations : denormalizeIPName(r) = IPOf(i, x)})

computePoolStats(i) ==
  LET p     == slices[i]
      c     == Interval(p)
      l3    == conf.mode.EnableL3
      total == IF l3 THEN AtMost(Alloc(p)!IPGetOffset(c.first, c.last) + 1) ELSE CountUsableIPs(p)
      used  == Cardinality(allocations[i])
  IN  [FirstIP |-> IF l3 THEN c.first ELSE Alloc(p)!FirstUsableIP(c),
       LastIP  |-> IF l3 THEN c.last ELSE Alloc(p)!LastUsableIP(c),
       TotalIPs |-> total, UsedIPs |-> used,
       FreeIPs |-> IF total < used THEN 0 ELSE total - used,
       AllocatedIPs |-> AllocatedIPs(i),
       OverlappingReservations |-> OverlappingReservations(i)]
-----------------------------------------------------------------------------
\* The addresses AssignIP may still return: Allocate's FailsOnlyWhenFull.
Available(i) ==
  LET r == Alloc(slices[i])!effectiveIPRange(conf.mode)
  IN  {x \in r.first .. r.last : ~Alloc(slices[i])!ipExcluded(conf.mode, x)} \ AllocatedIPs(i)

Init ==
  /\ conf \in [range : Configured, mode : Modes]
  /\ slices = <<>> /\ allocations = <<>> /\ reservations = {}

Slice ==
  /\ slices = <<>>
  /\ slices' = divideRangeBySize(conf.range.cidr, conf.range.size, MaxNodeSliceSubnets)
  /\ slices' # <<>>
  /\ allocations' = [i \in DOMAIN slices' |-> {}]
  /\ UNCHANGED <<conf, reservations>>

ReservationOf(network, p, x) == [network |-> network, v6 |-> p.v6, ip |-> x]

Entries == UNION {{<<i, key>> : key \in allocations[i]} : i \in DOMAIN slices}

\* AssignIP takes the lowest; the entry is stored under its offset.
Allocate(i) ==
  /\ Available(i) # {} /\ Cardinality(Entries) < MaxEntries
  /\ LET x == CHOOSE a \in Available(i) : \A b \in Available(i) : a =< b
     IN  /\ allocations' = [allocations EXCEPT ![i] = @ \cup {Alloc(slices[i])!IPGetOffset(x, Interval(slices[i]).first)}]
         /\ reservations' = IF conf.mode.overlapping
                            THEN reservations \cup {ReservationOf("own", slices[i], x)} ELSE reservations
  /\ UNCHANGED <<conf, slices>>

Deallocate(i) ==
  /\ \E key \in allocations[i] :
       /\ allocations' = [allocations EXCEPT ![i] = @ \ {key}]
       /\ reservations' = reservations \ {ReservationOf("own", slices[i], allocationKeyToIP(slices[i], key))}
  /\ UNCHANGED <<conf, slices>>

\* A pool of another network that overlaps this one.
OtherNetwork ==
  /\ \E o \in Others : LET r == [network |-> "other", v6 |-> o.v6, ip |-> o.ip] IN
       reservations' = IF r \in reservations THEN reservations \ {r} ELSE reservations \cup {r}
  /\ UNCHANGED <<conf, slices, allocations>>

Next ==
  \/ Slice
  \/ \E i \in DOMAIN slices : Allocate(i) \/ Deallocate(i)
  \/ OtherNetwork

Spec == Init /\ [][Next]_vars
-----------------------------------------------------------------------------
\* DivideRangeBySizeWithLimit gives back the range and nothing else: no
\* address of the range is in two slices or in none, and every slice is a
\* network address of the configured size.
SlicesPartition ==
  slices # <<>> =>
    /\ UNION {Addresses(slices[i]) : i \in DOMAIN slices} = Addresses(conf.range.cidr)
    /\ \A i, j \in DOMAIN slices : i # j => Addresses(slices[i]) \cap Addresses(slices[j]) = {}
    /\ \A i \in DOMAIN slices : slices[i] = Masked(slices[i]) /\ slices[i].bits = conf.range.size
    /\ Len(slices) =< MaxNodeSliceSubnets

\* The addresses of the pool that are not given out, the ones that range_start,
\* range_end and exclude leave out among them.
Unassigned(i) ==
  LET r == Alloc(slices[i])!effectiveIPRange([conf.mode EXCEPT !.RangeStart = Nil, !.RangeEnd = Nil])
  IN  (r.first .. r.last) \ AllocatedIPs(i)

\* The published number of free addresses is the number of addresses that
\* AssignIP can still hand out and of those that range_start, range_end and
\* exclude keep it from; past int32 it is less.  In L3 mode it leaves out at
\* most two addresses if the pool does not have EnableL3, which the plugin
\* never sets (getPool).
FreeIsAvailable ==
  \A i \in DOMAIN slices :
    LET free == computePoolStats(i).FreeIPs
        left == Cardinality(Unassigned(i))
    IN  /\ Available(i) \subseteq Unassigned(i)
        /\ IF left + Cardinality(allocations[i]) > MaxInt32 THEN free < left
           ELSE IF conf.mode.EnableL3 = conf.mode.L3 THEN free = left
           ELSE free =< left /\ left - free =< 2

\* The published list holds the addresses that the pods got, which are within
\* the published first and last address unless an L3 pool lacks EnableL3, and
\* no address is listed by the pools of two slices.
ListedWhereAllocated ==
  \A i \in DOMAIN slices :
    LET s == computePoolStats(i)
    IN  /\ conf.mode.EnableL3 = conf.mode.L3 => \A x \in s.AllocatedIPs : s.FirstIP =< x /\ x =< s.LastIP
        /\ Cardinality(s.AllocatedIPs) = s.UsedIPs
        /\ \A j \in DOMAIN slices : i # j => s.AllocatedIPs \cap computePoolStats(j).AllocatedIPs = {}
        /\ conf.mode.overlapping =>
             \A x \in s.AllocatedIPs : ReservationOf("own", slices[i], x) \in reservations

\* The published number of reservations never exceeds the entries, counts
\* every entry of a network with overlapping ranges, except IPv6 addresses
\* whose names read as others, and is not raised by a second reservation of
\* the same address.
ReservationsCountedOnce ==
  \A i \in DOMAIN slices :
    LET s == computePoolStats(i)
        misread == {x \in s.AllocatedIPs : slices[i].v6 /\ x \in DOMAIN ReadAs}
    IN  /\ s.OverlappingReservations =< s.UsedIPs
        /\ conf.mode.overlapping => s.OverlappingReservations = s.UsedIPs - Cardinality(misread)

\* The warning about a service CIDR is given exactly for the pools that have
\* an address in common with one of them.
OverlapWarned ==
  \A i \in DOMAIN slices :
    CIDROverlapsAny(slices[i], serviceCIDRs) <=>
      \E k \in DOMAIN serviceCIDRs :
        serviceCIDRs[k].v6 = slices[i].v6 /\ Addresses(serviceCIDRs[k]) \cap Addresses(slices[i]) # {}

\* What the IPPool reconciler publishes of a pool is what plugin and pods would
\* find, with the exceptions named above: the addresses left and listed, the
\* reservations, the warning.
StatusExact == FreeIsAvailable /\ ListedWhereAllocated /\ ReservationsCountedOnce /\ OverlapWarned
=============================================================================
