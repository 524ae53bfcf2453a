------------------------------ MODULE Allocate ------------------------------
(***************************************************************************)
(* How pkg/allocate chooses an address, with the arithmetic it takes from  *)
(* pkg/iphelpers and the offsets under which the pool stores addresses.    *)
(* Calls of AssignIP and DeallocateIP follow one another on one pool; each *)
(* iteration of a loop of AssignIP is a step.                              *)
(*                                                                         *)
(* An address is a number of 0 .. MaxIP, all of one family.  A CIDR is the *)
(* interval of its addresses; the operators of iphelpers look only at its  *)
(* ends and its size.  An exclusion given as a plain address is the        *)
(* interval of that address, and Unparsed is one that net.ParseCIDR        *)
(* refuses.  The search for an entry of the same pod interface, which      *)
(* precedes what is modelled here, is in IPAM.                             *)
(***************************************************************************)
EXTENDS Integers, Sequences

CONSTANTS MaxIP,     \* the last address of the family
          CIDRs,     \* the CIDRs that occur
          Confs,     \* the range configurations of the calls on the pool
          Pools,     \* the CIDRs of pools
          Unparsed,  \* an exclusion that does not parse
          Nil        \* Go's nil

IPs == 0 .. MaxIP

RangeConfiguration ==
  [RangeStart : IPs \cup {Nil}, RangeEnd : IPs \cup {Nil}, L3 : BOOLEAN,
   OmitRanges : Seq(CIDRs \cup {Unparsed}), PickAddresses : Seq(IPs),
   PreferredIP : IPs \cup {Nil}]

ASSUME CIDRAssumption ==
  /\ MaxIP \in Nat
  /\ CIDRs \subseteq {c \in [first : IPs, last : IPs] : c.first =< c.last}
  /\ Pools \subseteq CIDRs

ASSUME ConfAssumption ==
  /\ Confs \subseteq RangeConfiguration
  /\ Nil \notin IPs
  /\ Unparsed \notin CIDRs

VARIABLES pool,         \* the CIDR of the pool; it never changes
          allocations,  \* the offsets of the allocation map
          conf,         \* the configuration of the current call
          pc,           \* where it is
          ip,           \* IterateForAssignment: the address tried next
          pos,          \* pickForAssignment: the candidate tried next
          result        \* the address the last call returned

vars == <<pool, allocations, conf, pc, ip, pos, result>>

-----------------------------------------------------------------------------
(* iphelpers.  net.IPNet.Contains, NetworkIP and SubnetBroadcastIP.        *)

Contains(cidr, x) == cidr.first =< x /\ x =< cidr.last

NetworkIP(cidr) == cidr.first

SubnetBroadcastIP(cidr) == cidr.last

\* The last address has no successor and is returned unchanged.
IncIP(x) == IF x = MaxIP THEN x ELSE x + 1

DecIP(x) == IF x = 0 THEN x ELSE x - 1

\* /32 and /31 have no network and broadcast address (RFC 3021).
PointToPoint(cidr) == cidr.last - cidr.first =< 1

FirstUsableIP(cidr) ==
  IF PointToPoint(cidr) THEN NetworkIP(cidr) ELSE IncIP(NetworkIP(cidr))

LastUsableIPInclusive(cidr) == SubnetBroadcastIP(cidr)

LastUsableIP(cidr) ==
  IF PointToPoint(cidr) THEN SubnetBroadcastIP(cidr)
                        ELSE DecIP(SubnetBroadcastIP(cidr))

IsIPInRange(x, start, end) == start =< x /\ x =< end

GetIPRangeOldFirst(cidr, start, end) ==
  [first |-> IF start # Nil /\ IsIPInRange(start, FirstUsableIP(cidr), LastUsableIP(cidr))
             THEN start ELSE FirstUsableIP(cidr),
   last  |-> IF end # Nil /\ IsIPInRange(end, FirstUsableIP(cidr), LastUsableIP(cidr))
             THEN end ELSE LastUsableIP(cidr)]

\* A bound outside the usable addresses is ignored, and so is an end before
\* the start.
GetIPRange(cidr, start, end) ==
  LET first == IF /\ start # Nil
                  /\ IsIPInRange(start, FirstUsableIP(cidr), LastUsableIP(cidr))
               THEN start ELSE FirstUsableIP(cidr)
  IN  [first |-> first,
       last  |-> IF end # Nil /\ IsIPInRange(end, first, LastUsableIP(cidr))
                 THEN end ELSE LastUsableIP(cidr)]

\* The distance, whatever the order of the addresses.
IPGetOffset(x, y) == IF x < y THEN y - x ELSE x - y

IPAddOffset(x, offset) == IF x + offset > MaxIP THEN Nil ELSE x + offset

-----------------------------------------------------------------------------
(* The allocation map of the pool and the list of reservations.            *)

toIPReservationList(offsets) == {IPAddOffset(NetworkIP(pool), o) : o \in offsets}

toAllocationMap(list) == {IPGetOffset(x, NetworkIP(pool)) : x \in list}

reserved == toIPReservationList(allocations)

-----------------------------------------------------------------------------
(* allocate.                                                               *)

effectiveIPRange(c) ==
  IF ~c.L3 THEN GetIPRange(pool, c.RangeStart, c.RangeEnd)
  ELSE LET first == IF c.RangeStart # Nil /\ Contains(pool, c.RangeStart)
                    THEN c.RangeStart ELSE NetworkIP(pool)
       IN  [first |-> first,
            last  |-> IF /\ c.RangeEnd # Nil
                         /\ Contains(pool, c.RangeEnd)
                         /\ c.RangeEnd >= first
                      THEN c.RangeEnd ELSE SubnetBroadcastIP(pool)]

parseExcludedRangesFails(c) ==
  \E k \in 1 .. Len(c.OmitRanges) : c.OmitRanges[k] = Unparsed

ipExcluded(c, x) ==
  \E k \in 1 .. Len(c.OmitRanges) : Contains(c.OmitRanges[k], x)

pickAddressAllowed(c, x) ==
  \/ c.PickAddresses = <<>>
  \/ \E k \in 1 .. Len(c.PickAddresses) : c.PickAddresses[k] = x

PreferredAvailableAnywhere(c) ==
  /\ c.PreferredIP # Nil
  /\ pickAddressAllowed(c, c.PreferredIP)
  /\ c.PreferredIP \notin reserved
  /\ ~ipExcluded(c, c.PreferredIP)

PreferredAvailable(c) ==
  /\ c.PreferredIP # Nil
  /\ Contains(pool, c.PreferredIP)
  /\ IsIPInRange(c.PreferredIP, effectiveIPRange(c).first, effectiveIPRange(c).last)
  /\ pickAddressAllowed(c, c.PreferredIP)
  /\ c.PreferredIP \notin reserved
  /\ ~ipExcluded(c, c.PreferredIP)

\* The k-th exclusion is the first one of the list that holds x.
skipExcludedSubnets(c, x, k) ==
  /\ Contains(c.OmitRanges[k], x)
  /\ \A j \in 1 .. k - 1 : ~Contains(c.OmitRanges[j], x)

-----------------------------------------------------------------------------
(* AssignIP, one step per iteration of its loops.                          *)

Returned == {"done", "failed", "idle"}

Init ==
  /\ pool \in Pools
  /\ allocations \in SUBSET (0 .. pool.last - pool.first)
  /\ conf \in Confs
  /\ pc = "idle"
  /\ ip = NetworkIP(pool)
  /\ pos = 1
  /\ result = Nil

\* The next call on the pool.
Call(c) ==
  /\ pc \in Returned
  /\ conf' = c
  /\ pc' = "start"
  /\ result' = Nil
  /\ UNCHANGED <<pool, allocations, ip, pos>>

\* A reservation is removed; the list is stored again.
DeallocateIP(x) ==
  /\ pc \in Returned
  /\ allocations' = toAllocationMap(reserved \ {x})
  /\ pc' = "idle"
  /\ result' = Nil
  /\ UNCHANGED <<pool, conf, ip, pos>>

\* The call returns x, and the list with x is stored.
Assign(x) ==
  /\ allocations' = toAllocationMap(reserved \cup {x})
  /\ pc' = "done"
  /\ result' = x
  /\ ip' = NetworkIP(pool)
  /\ pos' = 1
  /\ UNCHANGED <<pool, conf>>

\* The call returns an error.
AssignmentError ==
  /\ pc' = "failed"
  /\ ip' = NetworkIP(pool)
  /\ pos' = 1
  /\ UNCHANGED <<pool, allocations, conf, result>>

ExclusionsUnparsed ==
  /\ pc = "start"
  /\ parseExcludedRangesFails(conf)
  /\ AssignmentError

AssignPreferred ==
  /\ pc = "start"
  /\ ~parseExcludedRangesFails(conf)
  /\ PreferredAvailable(conf)
  /\ Assign(conf.PreferredIP)

\* No preferred address, or not available: pick from a list or search.
Search ==
  /\ pc = "start"
  /\ ~parseExcludedRangesFails(conf)
  /\ ~PreferredAvailable(conf)
  /\ pc' = IF conf.PickAddresses # <<>> THEN "pick" ELSE "iterate"
  /\ pos' = 1
  /\ ip' = effectiveIPRange(conf).first
  /\ UNCHANGED <<pool, allocations, conf, result>>

PickableExcluded(c, x) ==
  /\ Contains(pool, x)
  /\ IsIPInRange(x, effectiveIPRange(c).first, effectiveIPRange(c).last)
  /\ x \notin reserved

Pickable(c, x) ==
  /\ Contains(pool, x)
  /\ IsIPInRange(x, effectiveIPRange(c).first, effectiveIPRange(c).last)
  /\ x \notin reserved
  /\ ~ipExcluded(c, x)

pickForAssignment ==
  /\ pc = "pick"
  /\ \/ /\ pos > Len(conf.PickAddresses)
        /\ AssignmentError
     \/ /\ pos =< Len(conf.PickAddresses)
        /\ Pickable(conf, conf.PickAddresses[pos])
        /\ Assign(conf.PickAddresses[pos])
     \/ /\ pos =< Len(conf.PickAddresses)
        /\ ~Pickable(conf, conf.PickAddresses[pos])
        /\ pos' = pos + 1
        /\ UNCHANGED <<pool, allocations, conf, pc, ip, result>>

nextIPWraps(x) ==
  /\ ip' = IncIP(x)
  /\ UNCHANGED <<pool, allocations, conf, pc, pos, result>>

\* On to the successor of x; the search ends where there is none.
nextIP(x) ==
  \/ /\ IncIP(x) = x
     /\ AssignmentError
  \/ /\ IncIP(x) # x
     /\ ip' = IncIP(x)
     /\ UNCHANGED <<pool, allocations, conf, pc, pos, result>>

InLoopExclusive == Contains(pool, ip) /\ ip < effectiveIPRange(conf).last

InLoop == Contains(pool, ip) /\ ip =< effectiveIPRange(conf).last

IterateForAssignment ==
  /\ pc = "iterate"
  /\ \/ /\ ~InLoop
        /\ AssignmentError
     \/ /\ InLoop
        /\ ip \in reserved
        /\ nextIP(ip)
     \/ /\ InLoop
        /\ ip \notin reserved
        /\ \E k \in 1 .. Len(conf.OmitRanges) :
             /\ skipExcludedSubnets(conf, ip, k)
             /\ nextIP(SubnetBroadcastIP(conf.OmitRanges[k]))
     \/ /\ InLoop
        /\ ip \notin reserved
        /\ ~ipExcluded(conf, ip)
        /\ Assign(ip)

AssignIP ==
  \/ ExclusionsUnparsed
  \/ AssignPreferred
  \/ Search
  \/ pickForAssignment
  \/ IterateForAssignment

Next ==
  \/ AssignIP
  \/ \E c \in Confs : Call(c)
  \/ \E x \in reserved : DeallocateIP(x)

Spec == Init /\ [][Next]_vars

FairSpec == Spec /\ WF_vars(AssignIP)

-----------------------------------------------------------------------------
(* Properties.  The reference is stated with sets, without loops, skips    *)
(* and bounds that are overridden in turn.                                 *)

TypeOK ==
  /\ pool \in Pools
  /\ allocations \subseteq 0 .. pool.last - pool.first
  /\ conf \in Confs
  /\ pc \in {"start", "pick", "iterate"} \cup Returned
  /\ ip \in IPs
  /\ pos \in Nat \ {0}
  /\ result \in IPs \cup {Nil}

\* In L2 mode the first and the last address of a pool of more than two are
\* not for use.
Usable(c) ==
  {x \in pool.first .. pool.last :
     c.L3 \/ pool.last - pool.first =< 1 \/ x \notin {pool.first, pool.last}}

\* range_start and range_end count if they are usable and in order.
StartCounts(c) == c.RangeStart \in Usable(c)

EndCounts(c) ==
  c.RangeEnd \in Usable(c) /\ (StartCounts(c) => c.RangeStart =< c.RangeEnd)

Assignable(c) ==
  {x \in Usable(c) : /\ StartCounts(c) => c.RangeStart =< x
                     /\ EndCounts(c) => x =< c.RangeEnd
                     /\ \A k \in 1 .. Len(c.OmitRanges) :
                          x \notin c.OmitRanges[k].first .. c.OmitRanges[k].last}

\* What the call could choose from when it began.
Free == Assignable(conf) \ (reserved \ {result})

Picks == {conf.PickAddresses[k] : k \in 1 .. Len(conf.PickAddresses)}

FreeChoices == IF conf.PickAddresses = <<>> THEN Free ELSE Free \cap Picks

\* AssignIP returns the preferred address if it may, otherwise the first
\* free address of the pick list, otherwise the lowest free address, and
\* nothing that the bounds, the exclusions or the list forbid; the jumps over
\* excluded CIDRs skip no free address.
FirstFree ==
  pc = "done" =>
    /\ result \in FreeChoices
    /\ conf.PreferredIP \in FreeChoices => result = conf.PreferredIP
    /\ conf.PreferredIP \notin FreeChoices =>
         IF conf.PickAddresses = <<>>
         THEN \A x \in Free : result =< x
         ELSE \E k \in 1 .. Len(conf.PickAddresses) :
                /\ conf.PickAddresses[k] = result
                /\ \A j \in 1 .. k - 1 : conf.PickAddresses[j] \notin Free

\* AssignIP reports an exhausted pool only when no address is left, also when
\* the search ended early because the last address has no successor.
FailsOnlyWhenFull ==
  pc = "failed" => parseExcludedRangesFails(conf) \/ FreeChoices = {}

\* What Update stores under offsets is what Allocations reads: a call adds
\* the address it returns, which was not reserved, or removes one, and never
\* changes the reservation of another address.
EntriesKept ==
  [][\/ reserved' = reserved
     \/ pc' = "done" /\ result' \notin reserved /\ reserved' = reserved \cup {result'}
     \/ \E x \in reserved : reserved' = reserved \ {x}]_vars

\* The loops of AssignIP end, at the end of the address space too.
AssignReturns == pc = "start" ~> pc \in Returned
=============================================================================
