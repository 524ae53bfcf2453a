----------------------- MODULE AllocateStartupProofs ------------------------
(***************************************************************************)
(* The search for an address, and the processes that start.               *)
(*                                                                         *)
(* Allocate, for every address space, every set of CIDRs and every         *)
(* configuration: AssignIP returns the first free address, fails only when *)
(* there is none, and the stored offsets lose no reservation.              *)
(*                                                                         *)
(* Startup, for any number of replicas, crashes and expiries, any          *)
(* credentials and failures of the installer, and any writes of users:     *)
(* readiness means that the webhooks are registered; replicas that race    *)
(* keep one certificate; what the installer has put on the node is         *)
(* complete at every moment and after any loss of power; what is stored    *)
(* past the webhooks they would admit.                                     *)
(***************************************************************************)
EXTENDS Allocate, Startup, TLAPS

-----------------------------------------------------------------------------
(***************************************************************************)
(* The search for an address.                                              *)
(***************************************************************************)

\* What the two loops of AssignIP know of the candidates they have passed.
Searched ==
  /\ pc \in {"start", "pick", "iterate"} => result = Nil
  /\ pc \in {"pick", "iterate"} =>
       /\ ~parseExcludedRangesFails(conf)
       /\ ~PreferredAvailable(conf)
  /\ pc = "pick" =>
       /\ conf.PickAddresses # <<>>
       /\ \A j \in 1 .. pos - 1 : j =< Len(conf.PickAddresses) =>
            ~Pickable(conf, conf.PickAddresses[j])
  /\ pc = "iterate" =>
       /\ conf.PickAddresses = <<>>
       /\ effectiveIPRange(conf).first =< ip
       /\ \A x \in IPs : /\ effectiveIPRange(conf).first =< x
                         /\ x < ip
                         => x \in reserved \/ ipExcluded(conf, x)

IInv == TypeOK /\ Searched /\ FirstFree /\ FailsOnlyWhenFull

-----------------------------------------------------------------------------
(* Lemmas about the operators.                                             *)

\* The pool is an interval of addresses.
LEMMA PoolInterval ==
  ASSUME NEW p \in Pools
  PROVE  /\ p.first \in Nat /\ p.last \in Nat
         /\ p.first =< p.last /\ p.last =< MaxIP
         /\ MaxIP \in Nat
         /\ p.first .. p.last \subseteq IPs
BY CIDRAssumption DEF IPs

\* The configuration has its type.
LEMMA ConfType ==
  ASSUME NEW c \in Confs
  PROVE  /\ c.RangeStart \in IPs \cup {Nil}
         /\ c.RangeEnd \in IPs \cup {Nil}
         /\ c.L3 \in BOOLEAN
         /\ c.PickAddresses \in Seq(IPs)
         /\ c.PreferredIP \in IPs \cup {Nil}
         /\ c.OmitRanges \in Seq(CIDRs \cup {Unparsed})
         /\ Nil \notin IPs
BY ConfAssumption DEF RangeConfiguration

\* toAllocationMap and toIPReservationList on addresses of the pool: the
\* offsets stay within the pool, and reading them gives the same addresses.
LEMMA RoundTrip ==
  ASSUME NEW p \in Pools, NEW S \in SUBSET (p.first .. p.last),
         NEW offsets, offsets = {IPGetOffset(x, p.first) : x \in S},
         NEW list, list = {IPAddOffset(p.first, o) : o \in offsets}
  PROVE  /\ offsets \subseteq 0 .. p.last - p.first
         /\ list = S
<1>1. ASSUME NEW x \in S
      PROVE  /\ x \in Nat /\ p.first =< x /\ x =< p.last
             /\ IPGetOffset(x, p.first) = x - p.first
             /\ IPAddOffset(p.first, IPGetOffset(x, p.first)) = x
  BY PoolInterval DEF IPGetOffset, IPAddOffset
<1>2. offsets \subseteq 0 .. p.last - p.first
  BY <1>1, PoolInterval
<1>3. S \subseteq list
  BY <1>1
<1>4. list \subseteq S
  BY <1>1
<1> QED BY <1>2, <1>3, <1>4, Zenon

\* What is read from offsets of the pool are addresses of the pool.
LEMMA ReadInPool ==
  ASSUME TypeOK
  PROVE  reserved \in SUBSET (pool.first .. pool.last)
<1>1. pool \in Pools /\ allocations \subseteq 0 .. pool.last - pool.first
  BY DEF TypeOK
<1>2. ASSUME NEW o \in allocations
      PROVE  IPAddOffset(pool.first, o) \in pool.first .. pool.last
  BY <1>1, PoolInterval DEF IPAddOffset
<1> QED BY <1>2 DEF reserved, toIPReservationList, NetworkIP

\* The bounds of effectiveIPRange are those of the reference.
LEMMA EffectiveBounds ==
  ASSUME pool \in Pools, NEW c \in Confs
  PROVE  LET e == effectiveIPRange(c)
         IN  /\ e.first \in pool.first .. pool.last
             /\ e.last \in pool.first .. pool.last
             /\ \A x \in IPs :
                  (Contains(pool, x) /\ IsIPInRange(x, e.first, e.last))
                    <=> /\ x \in Usable(c)
                        /\ StartCounts(c) => c.RangeStart =< x
                        /\ EndCounts(c) => x =< c.RangeEnd
<1> DEFINE f == pool.first
           l == pool.last
           s == c.RangeStart
           n == c.RangeEnd
<1>0. /\ f \in Nat /\ l \in Nat /\ MaxIP \in Nat /\ f =< l /\ l =< MaxIP
      /\ (s \in Nat /\ s =< MaxIP) \/ s = Nil
      /\ (n \in Nat /\ n =< MaxIP) \/ n = Nil
      /\ Nil \notin 0 .. MaxIP
  BY PoolInterval, ConfType DEF IPs
<1>1. CASE c.L3
  <2> DEFINE ef == IF s # Nil /\ f =< s /\ s =< l THEN s ELSE f
             el == IF n # Nil /\ f =< n /\ n =< l /\ n >= ef THEN n ELSE l
  <2>1. \A x : x \in Usable(c) <=> x \in f .. l
    BY <1>1 DEF Usable
  <2>2. effectiveIPRange(c).first = ef /\ effectiveIPRange(c).last = el
    BY <1>1 DEF effectiveIPRange, Contains, NetworkIP, SubnetBroadcastIP
  <2>3. /\ StartCounts(c) <=> s # Nil /\ f =< s /\ s =< l
        /\ EndCounts(c) <=> n # Nil /\ f =< n /\ n =< l /\ n >= ef
    BY <1>0, <2>1 DEF StartCounts, EndCounts
  <2>4. ef \in f .. l /\ (StartCounts(c) => ef = s) /\ (~StartCounts(c) => ef = f)
    BY <1>0, <2>3
  <2>5. el \in f .. l /\ (EndCounts(c) => el = n) /\ (~EndCounts(c) => el = l)
    BY <1>0, <2>3
  <2> HIDE DEF ef, el, f, l, s, n
  <2>6. ASSUME NEW x \in Nat
        PROVE  (f =< x /\ x =< l /\ ef =< x /\ x =< el)
                 <=> x \in f .. l /\ (StartCounts(c) => s =< x) /\ (EndCounts(c) => x =< n)
    BY <1>0, <2>4, <2>5
  <2>7. \A x \in IPs : x \in Nat
    BY <1>0 DEF IPs
  <2> QED
    BY <2>1, <2>2, <2>4, <2>5, <2>6, <2>7, Zenon DEF Contains, IsIPInRange, f, l, s, n
<1>2. CASE ~c.L3
  <2> DEFINE uf == FirstUsableIP(pool)
             ul == LastUsableIP(pool)
  <2>1. /\ uf \in f .. l /\ ul \in f .. l /\ uf =< ul
        /\ \A x : x \in Usable(c) <=> x \in uf .. ul
    <3>1. CASE l - f =< 1
      <4>1. uf = f /\ ul = l
        BY <3>1 DEF FirstUsableIP, LastUsableIP, PointToPoint, NetworkIP, SubnetBroadcastIP
      <4> HIDE DEF uf, ul
      <4> QED
        BY <1>0, <1>2, <3>1, <4>1 DEF Usable
    <3>2. CASE ~(l - f =< 1)
      <4>1. uf = f + 1 /\ ul = l - 1
        BY <1>0, <3>2 DEF FirstUsableIP, LastUsableIP, PointToPoint, NetworkIP, SubnetBroadcastIP,
           IncIP, DecIP
      <4> HIDE DEF uf, ul
      <4> QED
        BY <1>0, <1>2, <3>2, <4>1 DEF Usable
    <3> QED
      BY <3>1, <3>2
  <2> HIDE DEF uf, ul
  <2>2. effectiveIPRange(c) = GetIPRange(pool, s, n)
    BY <1>2 DEF effectiveIPRange
  <2> DEFINE ef == IF s # Nil /\ uf =< s /\ s =< ul THEN s ELSE uf
             el == IF n # Nil /\ ef =< n /\ n =< ul THEN n ELSE ul
  <2>3. effectiveIPRange(c).first = ef /\ effectiveIPRange(c).last = el
    BY <2>2 DEF GetIPRange, IsIPInRange, uf, ul
  <2>4. /\ StartCounts(c) <=> s # Nil /\ uf =< s /\ s =< ul
        /\ EndCounts(c) <=> n # Nil /\ ef =< n /\ n =< ul
    BY <1>0, <2>1 DEF StartCounts, EndCounts
  <2>5. ef \in uf .. ul /\ (StartCounts(c) => ef = s) /\ (~StartCounts(c) => ef = uf)
    BY <1>0, <2>1, <2>4
  <2>6. el \in ef .. ul /\ (EndCounts(c) => el = n) /\ (~EndCounts(c) => el = ul)
    BY <1>0, <2>1, <2>4, <2>5
  <2> HIDE DEF ef, el, f, l, s, n
  <2>7. ASSUME NEW x \in Nat
        PROVE  (f =< x /\ x =< l /\ ef =< x /\ x =< el)
                 <=> x \in uf .. ul /\ (StartCounts(c) => s =< x) /\ (EndCounts(c) => x =< n)
    BY <1>0, <2>1, <2>5, <2>6
  <2>8. /\ ef \in f .. l /\ el \in f .. l
        /\ \A x \in IPs : (f =< x /\ x =< l /\ ef =< x /\ x =< el)
             <=> /\ x \in uf .. ul
                 /\ StartCounts(c) => s =< x
                 /\ EndCounts(c) => x =< n
    <3>1. \A x \in IPs : x \in Nat
      BY <1>0 DEF IPs
    <3>2. ef \in f .. l /\ el \in f .. l
      BY <1>0, <2>1, <2>5, <2>6
    <3> QED
      BY <2>7, <3>1, <3>2, Zenon
  <2> QED BY <2>1, <2>3, <2>8, Zenon DEF Contains, IsIPInRange, f, l, s, n
<1> QED BY <1>1, <1>2, Zenon

\* The bounds of effectiveIPRange are addresses of the pool.
LEMMA EffectiveInPool ==
  ASSUME pool \in Pools, NEW c \in Confs
  PROVE  /\ effectiveIPRange(c).first \in Nat /\ effectiveIPRange(c).last \in Nat
         /\ pool.first =< effectiveIPRange(c).first
         /\ effectiveIPRange(c).last =< pool.last
         /\ pool.first \in Nat /\ pool.last \in Nat
         /\ effectiveIPRange(c).first \in IPs
<1> DEFINE f == effectiveIPRange(c).first
           l == effectiveIPRange(c).last
<1>1. f \in pool.first .. pool.last /\ l \in pool.first .. pool.last
  BY EffectiveBounds, Zenon
<1>2. /\ pool.first \in Nat /\ pool.last \in Nat
      /\ pool.first .. pool.last \subseteq IPs
  BY PoolInterval, Zenon
<1> HIDE DEF f, l
<1>3. f \in Nat /\ l \in Nat /\ pool.first =< f /\ l =< pool.last /\ f \in IPs
  BY <1>1, <1>2
<1> QED BY <1>2, <1>3, Zenon DEF f, l

\* Of parsed exclusions, the tests of the code admit the assignable addresses.
LEMMA Admitted ==
  ASSUME pool \in Pools, NEW c \in Confs, ~parseExcludedRangesFails(c), NEW x \in IPs
  PROVE  (/\ Contains(pool, x)
          /\ IsIPInRange(x, effectiveIPRange(c).first, effectiveIPRange(c).last)
          /\ ~ipExcluded(c, x))
         <=> x \in Assignable(c)
<1>1. ASSUME NEW k \in 1 .. Len(c.OmitRanges)
      PROVE  /\ c.OmitRanges[k].first \in Nat /\ c.OmitRanges[k].last \in Nat
             /\ Contains(c.OmitRanges[k], x)
                  <=> x \in c.OmitRanges[k].first .. c.OmitRanges[k].last
  <2>1. c.OmitRanges[k] \in CIDRs
    BY ConfType DEF parseExcludedRangesFails
  <2> QED BY <2>1, CIDRAssumption DEF IPs, Contains
<1>2. ~ipExcluded(c, x) <=> \A k \in 1 .. Len(c.OmitRanges) :
                              x \notin c.OmitRanges[k].first .. c.OmitRanges[k].last
  BY <1>1 DEF ipExcluded
<1> QED BY <1>2, EffectiveBounds DEF Assignable

\* Assignable addresses are addresses of the pool.
LEMMA AssignableInPool ==
  ASSUME pool \in Pools, NEW c
  PROVE  Assignable(c) \subseteq pool.first .. pool.last
BY DEF Assignable, Usable

-----------------------------------------------------------------------------
(* Lemmas about steps.                                                     *)

\* Storing a list of addresses of the pool: it is what is read next.
LEMMA StoreStep ==
  ASSUME pool \in Pools, pool' = pool,
         NEW S \in SUBSET (pool.first .. pool.last),
         allocations' = toAllocationMap(S)
  PROVE  /\ allocations' \subseteq 0 .. pool.last - pool.first
         /\ reserved' = S
<1>1. allocations' = {IPGetOffset(x, pool.first) : x \in S}
  BY DEF toAllocationMap, NetworkIP
<1>2. reserved' = {IPAddOffset(pool.first, o) : o \in allocations'}
  BY DEF reserved, toIPReservationList, NetworkIP
<1> QED BY <1>1, <1>2, RoundTrip, Zenon

\* The reservations and the configuration decide what is assignable.
LEMMA SameAssignable ==
  ASSUME pool' = pool, conf' = conf
  PROVE  Assignable(conf)' = Assignable(conf)
BY DEF Assignable, Usable, StartCounts, EndCounts

\* The reservations read depend on the pool and the stored offsets only.
LEMMA SameReserved ==
  ASSUME pool' = pool, allocations' = allocations
  PROVE  reserved' = reserved
BY DEF reserved, toIPReservationList, NetworkIP

\* While a call runs, what it may choose from is what is assignable and not
\* reserved.
LEMMA FreeNow ==
  ASSUME TypeOK, result = Nil
  PROVE  Free = Assignable(conf) \ reserved
BY ReadInPool, PoolInterval, ConfType DEF Free, TypeOK

\* The preferred address is available if it is one of the choices.
LEMMA PreferredIff ==
  ASSUME TypeOK, result = Nil, ~parseExcludedRangesFails(conf)
  PROVE  PreferredAvailable(conf) <=> conf.PreferredIP \in FreeChoices
<1>1. conf \in Confs /\ pool \in Pools
  BY DEF TypeOK
<1>2. CASE conf.PreferredIP = Nil
  <2>1. Assignable(conf) \subseteq IPs
    BY <1>1, AssignableInPool, PoolInterval
  <2>2. Nil \notin FreeChoices
    BY <1>1, <2>1, FreeNow, ConfType DEF FreeChoices
  <2> QED BY <1>2, <2>2 DEF PreferredAvailable
<1>3. CASE conf.PreferredIP # Nil
  <2> DEFINE x == conf.PreferredIP
  <2>1. x \in IPs
    BY <1>1, <1>3, ConfType
  <2>2. pickAddressAllowed(conf, x) <=> (conf.PickAddresses = <<>> \/ x \in Picks)
    BY DEF pickAddressAllowed, Picks
  <2>3. PreferredAvailable(conf) <=> /\ x \in Assignable(conf)
                                     /\ pickAddressAllowed(conf, x)
                                     /\ x \notin reserved
    BY <1>1, <1>3, <2>1, Admitted DEF PreferredAvailable
  <2> QED BY <2>2, <2>3, FreeNow DEF FreeChoices
<1> QED BY <1>2, <1>3

\* A call that assigns a free choice: the next state has it as its result
\* and the choices of the call are the same as before.
LEMMA AssignStep ==
  ASSUME TypeOK, result = Nil, NEW x \in FreeChoices, Assign(x)
  PROVE  /\ TypeOK'
         /\ reserved' = reserved \cup {x}
         /\ x \notin reserved
         /\ Free' = Free
         /\ FreeChoices' = FreeChoices
<1>1. /\ pool \in Pools /\ pool' = pool /\ conf \in Confs /\ conf' = conf
      /\ result' = x /\ pc' = "done" /\ pos' = 1 /\ ip' = pool.first
      /\ allocations' = toAllocationMap(reserved \cup {x})
  BY DEF TypeOK, Assign, NetworkIP
<1>2. x \in Assignable(conf) /\ x \notin reserved
  BY FreeNow DEF FreeChoices
<1>3. x \in pool.first .. pool.last
  BY <1>1, <1>2, AssignableInPool
<1>4. (reserved \cup {x}) \in SUBSET (pool.first .. pool.last)
  BY <1>3, ReadInPool
<1>5. /\ allocations' \subseteq 0 .. pool.last - pool.first
      /\ reserved' = reserved \cup {x}
  BY <1>1, <1>4, StoreStep, Zenon
<1>6. TypeOK'
  <2>1. pool.first \in IPs /\ x \in IPs
    BY <1>1, <1>3, PoolInterval DEF IPs
  <2> QED BY <1>1, <1>5, <2>1 DEF TypeOK, Returned
<1>7. Free' = Free
  <2>1. Free' = Assignable(conf)' \ (reserved' \ {result'})
    BY DEF Free
  <2>2. reserved' \ {result'} = reserved
    BY <1>1, <1>2, <1>5
  <2> QED BY <1>1, <2>1, <2>2, SameAssignable, FreeNow
<1>8. FreeChoices' = FreeChoices
  BY <1>1, <1>7 DEF FreeChoices, Picks
<1> QED BY <1>2, <1>5, <1>6, <1>7, <1>8

\* An error leaves the choices as they are.
LEMMA ErrorStep ==
  ASSUME TypeOK, result = Nil, AssignmentError
  PROVE  /\ TypeOK'
         /\ FreeChoices' = FreeChoices
         /\ pc' = "failed"
         /\ conf' = conf
<1>1. /\ pool \in Pools /\ pool' = pool /\ conf \in Confs /\ conf' = conf
      /\ result' = result /\ pc' = "failed" /\ pos' = 1 /\ ip' = pool.first
      /\ allocations' = allocations
  BY DEF TypeOK, AssignmentError, NetworkIP
<1>2. TypeOK'
  BY <1>1, PoolInterval DEF TypeOK, Returned, IPs
<1>3. Free' = Free
  BY <1>1, SameAssignable, SameReserved, Zenon DEF Free
<1>4. FreeChoices' = FreeChoices
  BY <1>1, <1>3 DEF FreeChoices, Picks
<1> QED BY <1>1, <1>2, <1>4

\* The tests of a call depend on the pool, the configuration and the stored
\* allocations only.
LEMMA SameTests ==
  ASSUME pool' = pool, conf' = conf, allocations' = allocations
  PROVE  /\ effectiveIPRange(conf)' = effectiveIPRange(conf)
         /\ PreferredAvailable(conf)' <=> PreferredAvailable(conf)
         /\ parseExcludedRangesFails(conf)' <=> parseExcludedRangesFails(conf)
         /\ \A x : ipExcluded(conf, x)' <=> ipExcluded(conf, x)
         /\ \A x : Pickable(conf, x)' <=> Pickable(conf, x)
<1>1. effectiveIPRange(conf)' = effectiveIPRange(conf)
  BY DEF effectiveIPRange, GetIPRange, FirstUsableIP, LastUsableIP, PointToPoint,
     NetworkIP, SubnetBroadcastIP, Contains, IsIPInRange, IncIP, DecIP
<1>2. parseExcludedRangesFails(conf)' <=> parseExcludedRangesFails(conf)
  BY DEF parseExcludedRangesFails
<1>3. \A x : ipExcluded(conf, x)' <=> ipExcluded(conf, x)
  BY DEF ipExcluded, Contains
<1>4. \A x : Pickable(conf, x)' <=> Pickable(conf, x)
  BY <1>1, <1>3, SameReserved, Zenon DEF Pickable, Contains, IsIPInRange
<1>5. PreferredAvailable(conf)' <=> PreferredAvailable(conf)
  <2>1. ipExcluded(conf, conf.PreferredIP)' <=> ipExcluded(conf, conf.PreferredIP)
    BY DEF ipExcluded, Contains
  <2> QED BY <1>1, <2>1, SameReserved DEF PreferredAvailable, pickAddressAllowed,
             Contains, IsIPInRange
<1> QED BY <1>1, <1>2, <1>3, <1>4, <1>5, ZenonT(60)

\* The search goes on after y if everything up to y is reserved or excluded.
LEMMA Advance ==
  ASSUME IInv, pc = "iterate", NEW y \in IPs, ip =< y,
         \A x \in IPs : ip =< x /\ x =< y => x \in reserved \/ ipExcluded(conf, x),
         nextIP(y)
  PROVE  IInv'
<1>1. /\ TypeOK /\ result = Nil /\ conf \in Confs /\ pool \in Pools
      /\ ~parseExcludedRangesFails(conf) /\ ~PreferredAvailable(conf)
      /\ conf.PickAddresses = <<>>
      /\ effectiveIPRange(conf).first =< ip
      /\ MaxIP \in Nat /\ ip \in IPs
  BY PoolInterval, Zenon DEF IInv, Searched, TypeOK
<1>2. effectiveIPRange(conf).first \in Nat
  BY <1>1, EffectiveInPool, Zenon
<1>3. \A x \in IPs : effectiveIPRange(conf).first =< x /\ x =< y
                       => x \in reserved \/ ipExcluded(conf, x)
  <2>1. \A x \in IPs : effectiveIPRange(conf).first =< x /\ x < ip
                          => x \in reserved \/ ipExcluded(conf, x)
    BY Zenon DEF IInv, Searched
  <2>2. \A x \in IPs : x < ip \/ ip =< x
    BY <1>1 DEF IPs
  <2> QED BY <2>1, <2>2, Zenon
<1>4. CASE IncIP(y) = y /\ AssignmentError
  <2>1. y = MaxIP
    BY <1>1, <1>4 DEF IncIP, IPs
  <2>2. ASSUME NEW x \in Assignable(conf)
        PROVE  x \in reserved
    <3>1. x \in IPs
      BY <1>1, AssignableInPool, PoolInterval, Zenon
    <3>2. effectiveIPRange(conf).first =< x /\ ~ipExcluded(conf, x)
      BY <1>1, <3>1, Admitted, Zenon DEF IsIPInRange
    <3> QED BY <1>1, <1>3, <2>1, <3>1, <3>2 DEF IPs
  <2>3. FreeChoices = {}
    BY <1>1, <2>2, FreeNow, Zenon DEF FreeChoices
  <2> QED BY <1>1, <1>4, <2>3, ErrorStep, Zenon DEF IInv, Searched, FirstFree, FailsOnlyWhenFull
<1>5. CASE IncIP(y) # y /\ ip' = IncIP(y) /\ UNCHANGED <<pool, allocations, conf, pc, pos, result>>
  <2>1. ip' = y + 1 /\ ip' \in IPs
    BY <1>1, <1>5 DEF IncIP, IPs
  <2>2. TypeOK'
    BY <1>1, <1>5, <2>1, Zenon DEF TypeOK
  <2>3. /\ effectiveIPRange(conf)' = effectiveIPRange(conf)
        /\ ~parseExcludedRangesFails(conf)' /\ ~PreferredAvailable(conf)'
        /\ \A x : ipExcluded(conf, x)' <=> ipExcluded(conf, x)
        /\ reserved' = reserved
    BY <1>1, <1>5, SameTests, SameReserved, Zenon
  <2>4. \A x \in IPs : effectiveIPRange(conf)'.first =< x /\ x < ip'
                         => x \in reserved' \/ ipExcluded(conf, x)'
    BY <1>3, <2>1, <2>3 DEF IPs
  <2>5. effectiveIPRange(conf)'.first =< ip'
    BY <1>1, <1>2, <2>1, <2>3 DEF IPs
  <2>6. Searched'
    BY <1>1, <1>5, <2>3, <2>4, <2>5, pc = "iterate", Zenon DEF Searched
  <2> QED BY <1>5, <2>2, <2>6, pc = "iterate", Zenon DEF IInv, FirstFree, FailsOnlyWhenFull
<1> QED BY <1>4, <1>5 DEF nextIP

\* A search step of IterateForAssignment preserves the invariant.
LEMMA IterateStep ==
  ASSUME IInv, IterateForAssignment
  PROVE  IInv'
<1>1. /\ TypeOK /\ result = Nil /\ conf \in Confs /\ pool \in Pools /\ pc = "iterate"
      /\ ~parseExcludedRangesFails(conf) /\ ~PreferredAvailable(conf)
      /\ conf.PickAddresses = <<>>
      /\ effectiveIPRange(conf).first =< ip
      /\ MaxIP \in Nat /\ ip \in IPs /\ ip \in Nat
      /\ \A x \in IPs : effectiveIPRange(conf).first =< x /\ x < ip
                          => x \in reserved \/ ipExcluded(conf, x)
  BY PoolInterval DEF IInv, Searched, TypeOK, IterateForAssignment, IPs
<1>2. /\ FreeChoices = Assignable(conf) \ reserved
      /\ Free = FreeChoices
      /\ conf.PreferredIP \notin FreeChoices
  BY <1>1, FreeNow, PreferredIff, Zenon DEF FreeChoices
<1>3. /\ effectiveIPRange(conf).first \in Nat /\ effectiveIPRange(conf).last \in Nat
      /\ pool.first =< effectiveIPRange(conf).first
      /\ effectiveIPRange(conf).last =< pool.last
      /\ pool.first \in Nat /\ pool.last \in Nat
  BY <1>1, EffectiveInPool, Zenon
<1>4. ASSUME NEW x \in FreeChoices
      PROVE  x \in IPs /\ x \in Nat /\ ip =< x /\ x =< effectiveIPRange(conf).last
  <2>1. x \in IPs
    BY <1>1, <1>2, AssignableInPool, PoolInterval, Zenon
  <2>2. /\ effectiveIPRange(conf).first =< x /\ x =< effectiveIPRange(conf).last
        /\ ~ipExcluded(conf, x) /\ x \notin reserved
    BY <1>1, <1>2, <2>1, Admitted, Zenon DEF IsIPInRange
  <2> QED BY <1>1, <2>1, <2>2 DEF IPs
<1>5. CASE ~InLoop /\ AssignmentError
  <2>1. FreeChoices = {}
    BY <1>1, <1>3, <1>4, <1>5 DEF InLoop, Contains
  <2> QED BY <1>1, <1>5, <2>1, ErrorStep, Zenon DEF IInv, Searched, FirstFree, FailsOnlyWhenFull
<1>6. CASE ip \in reserved /\ nextIP(ip)
  <2>1. \A x \in IPs : ip =< x /\ x =< ip => x \in reserved
    BY <1>1, <1>6 DEF IPs
  <2> QED BY <1>1, <1>6, <2>1, Advance
<1>7. ASSUME NEW k \in 1 .. Len(conf.OmitRanges),
             skipExcludedSubnets(conf, ip, k),
             nextIP(SubnetBroadcastIP(conf.OmitRanges[k]))
      PROVE  IInv'
  <2> DEFINE y == conf.OmitRanges[k].last
  <2>1. conf.OmitRanges[k] \in CIDRs
    BY <1>1, ConfType DEF parseExcludedRangesFails
  <2>2. conf.OmitRanges[k].first \in Nat /\ y \in IPs /\ y \in Nat
    BY <2>1, CIDRAssumption DEF IPs
  <2>3. conf.OmitRanges[k].first =< ip /\ ip =< y
    BY <1>7, ZenonT(60) DEF skipExcludedSubnets, Contains
  <2>4. \A x \in IPs : ip =< x /\ x =< y => ipExcluded(conf, x)
    BY <1>1, <1>7, <2>2, <2>3 DEF ipExcluded, Contains, IPs
  <2>5. nextIP(y)
    BY <1>7, Zenon DEF SubnetBroadcastIP
  <2> QED BY <1>1, <2>2, <2>3, <2>4, <2>5, Advance, ZenonT(60)
<1>8. CASE InLoop /\ ip \notin reserved /\ ~ipExcluded(conf, ip) /\ Assign(ip)
  <2>1. ip \in Assignable(conf)
    BY <1>1, <1>8, Admitted DEF InLoop, IsIPInRange
  <2>2. ip \in FreeChoices
    BY <1>2, <1>8, <2>1, Zenon
  <2>3. /\ TypeOK' /\ Free' = Free /\ FreeChoices' = FreeChoices
        /\ pc' = "done" /\ result' = ip /\ conf' = conf
    BY <1>1, <1>8, <2>2, AssignStep DEF Assign
  <2>4. FirstFree'
    BY <1>1, <1>2, <1>4, <2>2, <2>3, ZenonT(60) DEF FirstFree
  <2> QED BY <2>3, <2>4, ZenonT(60) DEF IInv, Searched, FailsOnlyWhenFull
<1> QED BY <1>5, <1>6, <1>7, <1>8, ZenonT(60) DEF IterateForAssignment

\* A step of pickForAssignment preserves the invariant.
LEMMA PickStep ==
  ASSUME IInv, pickForAssignment
  PROVE  IInv'
<1>1. /\ TypeOK /\ result = Nil /\ conf \in Confs /\ pool \in Pools /\ pc = "pick"
      /\ ~parseExcludedRangesFails(conf) /\ ~PreferredAvailable(conf)
      /\ conf.PickAddresses # <<>>
      /\ \A j \in 1 .. pos - 1 : j =< Len(conf.PickAddresses) =>
           ~Pickable(conf, conf.PickAddresses[j])
      /\ pos \in Nat /\ pos >= 1
      /\ conf.PickAddresses \in Seq(IPs) /\ Len(conf.PickAddresses) \in Nat
  <2>1. /\ TypeOK /\ pc = "pick" /\ conf \in Confs /\ pool \in Pools /\ pos \in Nat \ {0}
    BY Zenon DEF IInv, TypeOK, pickForAssignment
  <2>2. /\ result = Nil /\ ~parseExcludedRangesFails(conf) /\ ~PreferredAvailable(conf)
        /\ conf.PickAddresses # <<>>
        /\ \A j \in 1 .. pos - 1 : j =< Len(conf.PickAddresses) =>
             ~Pickable(conf, conf.PickAddresses[j])
    BY <2>1, Zenon DEF IInv, Searched
  <2>3. conf.PickAddresses \in Seq(IPs)
    BY <2>1, ConfType, Zenon
  <2>4. Len(conf.PickAddresses) \in Nat /\ pos \in Nat /\ pos >= 1
    BY <2>1, <2>3
  <2> QED BY <2>1, <2>2, <2>3, <2>4, Zenon
<1>2. /\ Free = Assignable(conf) \ reserved
      /\ FreeChoices = Free \cap Picks
      /\ conf.PreferredIP \notin FreeChoices
  BY <1>1, FreeNow, PreferredIff, Zenon DEF FreeChoices
<1>3. ASSUME NEW k \in 1 .. Len(conf.PickAddresses)
      PROVE  /\ conf.PickAddresses[k] \in Picks
             /\ Pickable(conf, conf.PickAddresses[k]) <=> conf.PickAddresses[k] \in Free
  <2>1. conf.PickAddresses[k] \in IPs
    BY <1>1
  <2>2. Pickable(conf, conf.PickAddresses[k]) <=>
          conf.PickAddresses[k] \in Assignable(conf) /\ conf.PickAddresses[k] \notin reserved
    BY <1>1, <2>1, Admitted, Zenon DEF Pickable
  <2> QED BY <1>2, <2>2, Zenon DEF Picks
<1>4. CASE pos > Len(conf.PickAddresses) /\ AssignmentError
  <2>1. \A k \in 1 .. Len(conf.PickAddresses) : conf.PickAddresses[k] \notin Free
    BY <1>1, <1>3, <1>4
  <2>2. FreeChoices = {}
    BY <1>2, <2>1, Zenon DEF Picks
  <2> QED BY <1>1, <1>4, <2>2, ErrorStep, ZenonT(60) DEF IInv, Searched, FirstFree, FailsOnlyWhenFull
<1>5. CASE /\ pos =< Len(conf.PickAddresses)
           /\ Pickable(conf, conf.PickAddresses[pos])
           /\ Assign(conf.PickAddresses[pos])
  <2>1. pos \in 1 .. Len(conf.PickAddresses)
    BY <1>1, <1>5
  <2>2. conf.PickAddresses[pos] \in FreeChoices
    BY <1>2, <1>3, <1>5, <2>1, Zenon
  <2>3. /\ TypeOK' /\ Free' = Free /\ FreeChoices' = FreeChoices
        /\ pc' = "done" /\ result' = conf.PickAddresses[pos] /\ conf' = conf
    BY <1>1, <1>5, <2>2, AssignStep, Zenon DEF Assign
  <2>4. \A j \in 1 .. pos - 1 : conf.PickAddresses[j] \notin Free
    BY <1>1, <1>3, <2>1
  <2>5. FirstFree'
    BY <1>1, <1>2, <2>1, <2>2, <2>3, <2>4, Zenon DEF FirstFree
  <2> QED BY <2>3, <2>5, Zenon DEF IInv, Searched, FailsOnlyWhenFull
<1>6. CASE /\ pos =< Len(conf.PickAddresses)
           /\ ~Pickable(conf, conf.PickAddresses[pos])
           /\ pos' = pos + 1
           /\ UNCHANGED <<pool, allocations, conf, pc, ip, result>>
  <2>1. TypeOK'
    BY <1>1, <1>6 DEF TypeOK
  <2>2. /\ ~parseExcludedRangesFails(conf)' /\ ~PreferredAvailable(conf)'
        /\ \A x : Pickable(conf, x)' <=> Pickable(conf, x)
    BY <1>1, <1>6, SameTests, ZenonT(60)
  <2>3. ASSUME NEW j \in 1 .. pos, j =< Len(conf.PickAddresses)
        PROVE  ~Pickable(conf, conf.PickAddresses[j])
    BY <1>1, <1>6, <2>3
  <2>4. ASSUME NEW j \in 1 .. pos, j =< Len(conf.PickAddresses)
        PROVE  ~Pickable(conf, conf.PickAddresses[j])'
    <3>1. Pickable(conf, conf.PickAddresses[j])' <=> Pickable(conf, conf.PickAddresses[j])
      BY <1>6, SameTests, SameReserved, ZenonT(60) DEF Pickable, Contains, IsIPInRange, ipExcluded
    <3> QED BY <2>3, <2>4, <3>1
  <2>5. pos' - 1 = pos
    BY <1>1, <1>6
  <2>6. Searched'
    BY <1>1, <1>6, <2>2, <2>4, <2>5, Zenon DEF Searched
  <2> QED BY <1>1, <1>6, <2>1, <2>6, ZenonT(60) DEF IInv, FirstFree, FailsOnlyWhenFull
<1> QED BY <1>4, <1>5, <1>6, Zenon DEF pickForAssignment

\* The steps of AssignIP before its loops preserve the invariant.
LEMMA StartStep ==
  ASSUME IInv, ExclusionsUnparsed \/ AssignPreferred \/ Search
  PROVE  IInv'
<1>1. /\ TypeOK /\ result = Nil /\ conf \in Confs /\ pool \in Pools /\ pc = "start"
  BY Zenon DEF IInv, Searched, TypeOK, ExclusionsUnparsed, AssignPreferred, Search
<1>2. CASE ExclusionsUnparsed
  <2>1. parseExcludedRangesFails(conf)'
    BY <1>1, <1>2, ErrorStep, ZenonT(60) DEF ExclusionsUnparsed, parseExcludedRangesFails
  <2> QED BY <1>1, <1>2, <2>1, ErrorStep, Zenon DEF ExclusionsUnparsed, IInv, Searched,
             FirstFree, FailsOnlyWhenFull
<1>3. CASE AssignPreferred
  <2>1. conf.PreferredIP \in FreeChoices
    BY <1>1, <1>3, PreferredIff, Zenon DEF AssignPreferred
  <2>2. /\ TypeOK' /\ Free' = Free /\ FreeChoices' = FreeChoices
        /\ pc' = "done" /\ result' = conf.PreferredIP /\ conf' = conf
    BY <1>1, <1>3, <2>1, AssignStep, Zenon DEF AssignPreferred, Assign
  <2>3. FirstFree'
    BY <2>1, <2>2, ZenonT(60) DEF FirstFree
  <2> QED BY <2>2, <2>3, Zenon DEF IInv, Searched, FailsOnlyWhenFull
<1>4. CASE Search
  <2>1. /\ UNCHANGED <<pool, allocations, conf, result>>
        /\ ip' = effectiveIPRange(conf).first /\ pos' = 1
        /\ ~parseExcludedRangesFails(conf) /\ ~PreferredAvailable(conf)
        /\ \/ pc' = "pick" /\ conf.PickAddresses # <<>>
           \/ pc' = "iterate" /\ conf.PickAddresses = <<>>
    BY <1>4, Zenon DEF Search
  <2>2. ip' \in IPs /\ ip' \in Nat
    BY <1>1, <2>1, EffectiveInPool, Zenon
  <2>3. TypeOK'
    BY <1>1, <2>1, <2>2 DEF TypeOK
  <2>4. /\ effectiveIPRange(conf)' = effectiveIPRange(conf)
        /\ ~parseExcludedRangesFails(conf)' /\ ~PreferredAvailable(conf)'
    BY <2>1, SameTests, Zenon
  <2>5. Searched'
    <3>1. \A x \in IPs : ~(ip' =< x /\ x < ip')
      BY <2>2 DEF IPs
    <3>2. \A j \in 1 .. pos' - 1 : FALSE
      BY <2>1
    <3>3. effectiveIPRange(conf)'.first = ip' /\ ip' =< ip'
      BY <2>1, <2>2, <2>4
    <3>4. "pick" # "iterate"
      OBVIOUS
    <3> QED
      BY <1>1, <2>1, <2>4, <3>1, <3>2, <3>3, <3>4, Zenon DEF Searched
  <2> QED BY <2>1, <2>3, <2>5 DEF IInv, FirstFree, FailsOnlyWhenFull
<1> QED BY <1>2, <1>3, <1>4

\* DeallocateIP removes the reservation of one address.
LEMMA RemoveStep ==
  ASSUME TypeOK, NEW x \in reserved, DeallocateIP(x)
  PROVE  TypeOK' /\ reserved' = reserved \ {x}
<1>1. /\ pool \in Pools /\ UNCHANGED <<pool, conf, ip, pos>> /\ pc' = "idle" /\ result' = Nil
      /\ allocations' = toAllocationMap(reserved \ {x})
  BY DEF TypeOK, DeallocateIP
<1>2. (reserved \ {x}) \in SUBSET (pool.first .. pool.last)
  BY ReadInPool
<1>3. /\ allocations' \subseteq 0 .. pool.last - pool.first
      /\ reserved' = reserved \ {x}
  BY <1>1, <1>2, StoreStep, ZenonT(60)
<1> QED BY <1>1, <1>3, Zenon DEF TypeOK, Returned

-----------------------------------------------------------------------------
\* The strengthened invariant: the addresses before the one tried next are
\* reserved or excluded, and the candidates passed cannot be picked.
THEOREM AllocateInvariance == Spec => []IInv
<1>1. Init => IInv
  <2> SUFFICES ASSUME Init PROVE IInv
    OBVIOUS
  <2>1. pool.first \in IPs
    BY PoolInterval DEF Init, IPs
  <2>2. TypeOK
    BY <2>1 DEF Init, TypeOK, Returned, NetworkIP
  <2>3. pc \notin {"start", "pick", "iterate", "done", "failed"}
    BY DEF Init
  <2> QED BY <2>2, <2>3, Zenon DEF IInv, Searched, FirstFree, FailsOnlyWhenFull
<1>2. IInv /\ [Next]_vars => IInv'
  <2> SUFFICES ASSUME IInv, [Next]_vars PROVE IInv'
    OBVIOUS
  <2>1. CASE AssignIP
    BY <2>1, StartStep, PickStep, IterateStep, Zenon DEF AssignIP
  <2>2. ASSUME NEW c \in Confs, Call(c)
        PROVE  IInv'
    BY <2>2, Zenon DEF Call, IInv, TypeOK, Searched, FirstFree, FailsOnlyWhenFull
  <2>3. ASSUME NEW x \in reserved, DeallocateIP(x)
        PROVE  IInv'
    <3>1. TypeOK' /\ pc' = "idle"
      BY <2>3, RemoveStep DEF IInv, DeallocateIP
    <3> QED BY <3>1, Zenon DEF IInv, Searched, FirstFree, FailsOnlyWhenFull
  <2>4. CASE UNCHANGED vars
    <3>1. UNCHANGED <<pool, allocations, conf, pc, ip, pos, result>>
      BY <2>4, Zenon DEF vars
    <3>2. TypeOK'
      BY <3>1, Zenon DEF IInv, TypeOK
    <3>3. FreeChoices' = FreeChoices /\ Free' = Free
      BY <3>1, SameAssignable, SameReserved DEF FreeChoices, Free, Picks
    <3>4. FirstFree' /\ FailsOnlyWhenFull'
      BY <3>1, <3>3, Zenon DEF IInv, FirstFree, FailsOnlyWhenFull, parseExcludedRangesFails
    <3>5. ASSUME NEW j
          PROVE  Pickable(conf, conf.PickAddresses[j])' <=> Pickable(conf, conf.PickAddresses[j])
      BY <3>1, SameTests, SameReserved, Zenon DEF Pickable, Contains, IsIPInRange, ipExcluded
    <3>6. Searched'
      BY <3>1, <3>5, SameTests, SameReserved, Zenon DEF IInv, Searched
    <3> QED BY <3>2, <3>4, <3>6 DEF IInv
  <2> QED BY <2>1, <2>2, <2>3, <2>4 DEF Next
<1> QED BY <1>1, <1>2, PTL DEF Spec

\* AssignIP returns the preferred address if it may, and otherwise the first
\* free address of the pick list or the lowest free address of the range.
THEOREM ReturnsFirstFree == Spec => []FirstFree
<1>1. IInv => FirstFree
  BY DEF IInv
<1> QED BY <1>1, AllocateInvariance, PTL

\* AssignIP fails only if no address is left or an exclusion does not parse.
THEOREM NoFalseExhaustion == Spec => []FailsOnlyWhenFull
<1>1. IInv => FailsOnlyWhenFull
  BY DEF IInv
<1> QED BY <1>1, AllocateInvariance, PTL

\* Converting addresses to offsets and back, a call adds the address that it
\* returns or removes one, and keeps all other reservations.
THEOREM KeepsEntries == Spec => EntriesKept
<1> DEFINE Kept ==
      \/ reserved' = reserved
      \/ pc' = "done" /\ result' \notin reserved /\ reserved' = reserved \cup {result'}
      \/ \E x \in reserved : reserved' = reserved \ {x}
<1>1. IInv /\ [Next]_vars => [Kept]_vars
  <2> SUFFICES ASSUME IInv, Next PROVE Kept
    BY Zenon DEF Kept
  <2>1. ASSUME NEW x \in FreeChoices, result = Nil, Assign(x)
        PROVE  Kept
    BY <2>1, AssignStep DEF IInv, Assign
  <2>2. CASE UNCHANGED <<pool, allocations>>
    BY <2>2, SameReserved
  <2>3. CASE AssignPreferred
    <3>1. result = Nil /\ conf.PreferredIP \in FreeChoices
      BY <2>3, PreferredIff, Zenon DEF AssignPreferred, IInv, Searched
    <3> QED BY <2>1, <2>3, <3>1 DEF AssignPreferred
  <2>4. ASSUME pc \in {"pick", "iterate"}, NEW x \in IPs, Pickable(conf, x), Assign(x),
               conf.PickAddresses = <<>> \/ x \in Picks
        PROVE  Kept
    <3>1. result = Nil /\ ~parseExcludedRangesFails(conf) /\ TypeOK
      BY <2>4, Zenon DEF IInv, Searched
    <3>2. x \in FreeChoices
      BY <2>4, <3>1, Admitted, FreeNow, ZenonT(60) DEF Pickable, TypeOK, FreeChoices
    <3> QED BY <2>1, <2>4, <3>1, <3>2
  <2>5. CASE pickForAssignment
    <3>1. CASE UNCHANGED <<pool, allocations>>
      BY <3>1, <2>2, Zenon
    <3>2. CASE /\ pos =< Len(conf.PickAddresses)
               /\ Pickable(conf, conf.PickAddresses[pos])
               /\ Assign(conf.PickAddresses[pos])
      <4>1. pos \in 1 .. Len(conf.PickAddresses) /\ conf.PickAddresses \in Seq(IPs)
        <5>1. conf \in Confs /\ pos \in Nat \ {0}
          BY Zenon DEF IInv, TypeOK
        <5>2. conf.PickAddresses \in Seq(IPs)
          BY <5>1, ConfType, Zenon
        <5> QED BY <3>2, <5>1, <5>2
      <4>2. conf.PickAddresses[pos] \in IPs
        BY <4>1
      <4>3. conf.PickAddresses[pos] \in Picks
        BY <4>1, Zenon DEF Picks
      <4>4. pc \in {"pick", "iterate"}
        BY <2>5, Zenon DEF pickForAssignment
      <4> QED BY <2>4, <3>2, <4>2, <4>3, <4>4, ZenonT(60)
    <3> QED BY <2>5, <3>1, <3>2 DEF pickForAssignment, AssignmentError
  <2>6. CASE IterateForAssignment
    <3>1. CASE UNCHANGED <<pool, allocations>>
      BY <3>1, <2>2, Zenon
    <3>2. CASE InLoop /\ ip \notin reserved /\ ~ipExcluded(conf, ip) /\ Assign(ip)
      <4>1. /\ pc = "iterate" /\ conf.PickAddresses = <<>> /\ ip \in IPs
            /\ effectiveIPRange(conf).first =< ip
        BY <2>6, Zenon DEF IInv, Searched, TypeOK, IterateForAssignment
      <4>2. Pickable(conf, ip)
        BY <3>2, <4>1, Zenon DEF Pickable, InLoop, IsIPInRange
      <4> QED BY <2>4, <3>2, <4>1, <4>2, Zenon
    <3> QED BY <2>6, <3>1, <3>2, Zenon DEF IterateForAssignment, AssignmentError, nextIP
  <2>7. ASSUME NEW x \in reserved, DeallocateIP(x)
        PROVE  Kept
    BY <2>7, RemoveStep DEF IInv
  <2> QED BY <2>2, <2>3, <2>5, <2>6, <2>7 DEF Next, AssignIP, Call,
             ExclusionsUnparsed, Search, AssignmentError
<1> QED BY <1>1, AllocateInvariance, PTL DEF Spec, EntriesKept

-----------------------------------------------------------------------------
(***************************************************************************)
(* The processes that start.                                               *)
(***************************************************************************)

Secret == [cert : Nat, valid : BOOLEAN]

Kinds == {"IPPool", "NodeSlicePool", "OverlappingRangeIPReservation"}

Process ==
  [pc : {"setup", "get", "create", "boot", "refresh", "up"}, refresh : Nat \cup {None},
   ca : Nat \cup {None}, injected : BOOLEAN, certReady : BOOLEAN, registered : Seq(Kinds), done : BOOLEAN,
   serving : BOOLEAN]

TypeInv ==
  /\ secret \in Secret \cup {NoSecret}
  /\ mounted \in [Replicas -> Nat \cup {NoFile}]
  /\ replica \in [Replicas -> Process]

\* SetupWhenReady goes through the webhooks in order.
InOrder(s) == Len(s) <= 3 /\ \A k \in 1 .. Len(s) : s[k] = Webhooks[k]

\* A process passes the stages of its start-up in order.
Stages(p, r) ==
  /\ InOrder(p.registered)
  /\ p.done => Len(p.registered) = 3
  /\ Len(p.registered) > 0 => p.certReady
  /\ p.certReady => p.injected /\ mounted[r] # NoFile
  /\ p.injected \/ p.ca # None => secret # NoSecret /\ secret.cert # 0

\* A process about to write read a certificate that was no longer valid, and
\* that is still the stored one or has been replaced.
Refreshing(p) ==
  p.refresh # None =>
    /\ secret # NoSecret /\ p.refresh <= secret.cert
    /\ p.refresh = secret.cert => ~secret.valid

StageInv == \A r \in Replicas : Stages(replica[r], r)
RefreshInv == \A r \in Replicas : Refreshing(replica[r])
OperatorInv == TypeInv /\ StageInv /\ RefreshInv
-----------------------------------------------------------------------------
(* Operator                                                                *)

\* The list of webhooks, element by element.
LEMMA WebhookFacts ==
  /\ Len(Webhooks) = 3
  /\ \A k \in 1 .. 3 : Webhooks[k] \in Kinds
  /\ \A s \in Seq(Kinds) : Len(s) = 3 /\ InOrder(s) => s = Webhooks
<1>1. Len(Webhooks) = 3 /\ Webhooks[1] = "IPPool" /\ Webhooks[2] = "NodeSlicePool"
      /\ Webhooks[3] = "OverlappingRangeIPReservation"
  BY DEF Webhooks
<1>2. ASSUME NEW k \in 1 .. 3 PROVE Webhooks[k] \in Kinds
  <2>1. k = 1 \/ k = 2 \/ k = 3
    OBVIOUS
  <2> QED
    BY <1>1, <2>1 DEF Kinds
<1>3. ASSUME NEW s \in Seq(Kinds), Len(s) = 3, InOrder(s) PROVE s = Webhooks
  <2>1. s[1] = Webhooks[1] /\ s[2] = Webhooks[2] /\ s[3] = Webhooks[3]
    BY <1>3 DEF InOrder
  <2> QED
    BY <1>3, <2>1 DEF Webhooks
<1> QED
  BY <1>1, <1>2, <1>3

\* Registering one more webhook continues the order of Webhooks.
LEMMA OrderGrows ==
  ASSUME NEW s \in Seq(Kinds), InOrder(s), Len(s) < 3
  PROVE  LET t == Append(s, Webhooks[Len(s) + 1])
         IN  t \in Seq(Kinds) /\ Len(t) = Len(s) + 1 /\ InOrder(t)
<1> DEFINE w == Webhooks[Len(s) + 1]
           t == Append(s, w)
<1>1. Len(s) \in Nat /\ w \in Kinds
  BY WebhookFacts
<1>2. /\ t \in Seq(Kinds) /\ Len(t) = Len(s) + 1
      /\ \A k \in 1 .. Len(s) : t[k] = s[k]
      /\ t[Len(s) + 1] = w
  BY <1>1
<1>3. ASSUME NEW k \in 1 .. Len(t) PROVE t[k] = Webhooks[k]
  <2>1. CASE k \in 1 .. Len(s)
    BY <1>2, <2>1 DEF InOrder
  <2>2. CASE k = Len(s) + 1
    BY <1>2, <2>2, ZenonT(60)
  <2> QED
    BY <1>1, <1>2, <2>1, <2>2
<1> QED
  BY <1>1, <1>2, <1>3 DEF InOrder

\* A process that starts has done nothing.
LEMMA StartingFacts ==
  /\ Starting \in Process /\ Starting.refresh = None /\ Starting.ca = None
  /\ ~Starting.done /\ ~Starting.certReady /\ ~Starting.injected
  /\ Len(Starting.registered) = 0 /\ InOrder(Starting.registered)
BY DEF Starting, Process, InOrder

\* OperatorInit establishes the invariant: nothing exists and no process has begun.
LEMMA InitInv == OperatorInit => OperatorInv
BY StartingFacts DEF OperatorInit, OperatorInv, TypeInv, StageInv, RefreshInv, Stages, Refreshing

\* A step of one process keeps the invariant if its new state does.
LEMMA OneProcess ==
  ASSUME OperatorInv, NEW r \in Replicas, NEW p \in Process, Set(r, p),
         UNCHANGED <<secret, mounted>>, Stages(p, r), Refreshing(p)
  PROVE  OperatorInv'
<1>1. TypeInv'
  BY ZenonT(60) DEF OperatorInv, TypeInv, Set
<1>2. StageInv'
  BY DEF OperatorInv, TypeInv, StageInv, Stages, Set
<1>3. RefreshInv'
  BY Zenon DEF OperatorInv, TypeInv, RefreshInv, Refreshing, Set
<1> QED
  BY <1>1, <1>2, <1>3 DEF OperatorInv

\* Every step keeps the invariant.
LEMMA NextInv ==
  ASSUME OperatorInv, [OperatorNext]_operatorVars
  PROVE  OperatorInv'
<1> USE DEF OperatorInv, TypeInv
<1> DEFINE Fields(p, q) ==
      /\ p.registered = q.registered /\ p.done = q.done
      /\ p.certReady = q.certReady /\ p.injected = q.injected /\ p.ca = q.ca
<1>0. ASSUME NEW r \in Replicas, Exit(r), UNCHANGED <<secret, mounted>> PROVE OperatorInv'
  BY <1>0, StartingFacts, OneProcess DEF Exit, Stages, Refreshing
<1>1. ASSUME NEW r \in Replicas, Setup(r) PROVE OperatorInv'
  <2> DEFINE p == [replica[r] EXCEPT !.pc = "get"]
  <2>1. p \in Process /\ Fields(p, replica[r]) /\ p.refresh = replica[r].refresh
    BY ZenonT(60) DEF Process
  <2>2. Stages(p, r) /\ Refreshing(p)
    BY <2>1 DEF StageInv, RefreshInv, Stages, Refreshing
  <2> QED
    BY <1>1, <2>1, <2>2, OneProcess, Zenon DEF Setup
<1>2. ASSUME NEW r \in Replicas, GetSecret(r) PROVE OperatorInv'
  <2> DEFINE p == [replica[r] EXCEPT !.pc = IF secret = NoSecret THEN "create" ELSE "boot"]
  <2>1. p \in Process /\ Fields(p, replica[r]) /\ p.refresh = replica[r].refresh
    BY Zenon DEF Process
  <2>2. Stages(p, r) /\ Refreshing(p)
    BY <2>1 DEF StageInv, RefreshInv, Stages, Refreshing
  <2> QED
    BY <1>2, <2>1, <2>2, OneProcess DEF GetSecret
<1>3. ASSUME NEW r \in Replicas, CreateSecret(r) PROVE OperatorInv'
  <2> DEFINE p == [replica[r] EXCEPT !.pc = "boot"]
  <2>1. p \in Process /\ Fields(p, replica[r]) /\ p.refresh = replica[r].refresh
    BY ZenonT(60) DEF Process
  <2>2. replica' = [replica EXCEPT ![r] = p] /\ mounted' = mounted
    BY <1>3 DEF CreateSecret, Set
  <2>3. \/ secret' = secret
        \/ secret = NoSecret /\ secret' \in Secret
    BY <1>3 DEF CreateSecret, Secret
  <2>4. TypeInv'
    BY <2>1, <2>2, <2>3
  <2>5. \A q \in Replicas : Fields(replica'[q], replica[q]) /\ replica'[q].refresh = replica[q].refresh
    BY <2>1, <2>2
  <2>6. StageInv'
    BY <2>2, <2>3, <2>5 DEF StageInv, Stages
  <2>7. RefreshInv'
    BY <2>2, <2>3, <2>5 DEF RefreshInv, Refreshing
  <2> QED
    BY <2>4, <2>6, <2>7
<1>4. ASSUME NEW r \in Replicas, ReadCert(r) PROVE OperatorInv'
  <2> DEFINE p1 == [replica[r] EXCEPT !.pc = "up"]
             p2 == [replica[r] EXCEPT !.pc = "refresh", !.refresh = secret.cert]
             p3 == [replica[r] EXCEPT !.refresh = secret.cert]
  <2>1. UNCHANGED <<secret, mounted>>
    BY <1>4 DEF ReadCert
  <2>2. \/ Exit(r) \/ Set(r, p1)
        \/ secret # NoSecret /\ ~secret.valid /\ (Set(r, p2) \/ Set(r, p3))
    BY <1>4 DEF ReadCert
  <2>3. CASE Set(r, p1)
    <3>1. p1 \in Process /\ Fields(p1, replica[r]) /\ p1.refresh = replica[r].refresh
      BY Zenon DEF Process
    <3>2. Stages(p1, r) /\ Refreshing(p1)
      BY <3>1 DEF StageInv, RefreshInv, Stages, Refreshing
    <3> QED
      BY <2>1, <2>3, <3>1, <3>2, OneProcess, Zenon
  <2>4. ASSUME secret # NoSecret, ~secret.valid, Set(r, p2) \/ Set(r, p3) PROVE OperatorInv'
    <3>1. secret.cert \in Nat
      BY <2>4 DEF Secret
    <3>2. p2 \in Process /\ Fields(p2, replica[r]) /\ p2.refresh = secret.cert
      BY <3>1, Zenon DEF Process
    <3>3. p3 \in Process /\ Fields(p3, replica[r]) /\ p3.refresh = secret.cert
      BY <3>1, ZenonT(60) DEF Process
    <3> HIDE DEF p2, p3
    <3>4. Stages(p2, r) /\ Stages(p3, r)
      <4>1. Stages(replica[r], r)
        BY Zenon DEF StageInv
      <4> QED
        BY <3>2, <3>3, <4>1, Zenon DEF Stages
    <3>5. secret.cert <= secret.cert
      BY <3>1
    <3>6. Refreshing(p2) /\ Refreshing(p3)
      BY <2>4, <3>2, <3>3, <3>5, Zenon DEF Refreshing
    <3> QED
      BY <2>1, <2>4, <3>2, <3>3, <3>4, <3>6, OneProcess, Zenon
  <2> QED
    BY <1>0, <2>1, <2>2, <2>3, <2>4, Zenon
<1>5. ASSUME NEW r \in Replicas, WriteCert(r) PROVE OperatorInv'
  <2>1. CASE replica[r].refresh = secret.cert
    <3>1. /\ secret # NoSecret /\ secret.cert \in Nat
          /\ secret' = [cert |-> secret.cert + 1, valid |-> TRUE] /\ mounted' = mounted
          /\ replica' = [replica EXCEPT ![r] = Starting]
      BY <1>5, <2>1, Zenon DEF WriteCert, RefreshInv, Refreshing, Exit, Set, Secret
    <3>2. secret' \in Secret /\ secret'.cert = secret.cert + 1
      BY <3>1 DEF Secret
    <3>3. secret' # NoSecret
      BY <3>2, OperatorAssumption, Zenon DEF Secret
    <3>4. TypeInv'
      BY <3>1, <3>2, StartingFacts, ZenonT(60)
    <3>5. StageInv'
      BY <3>1, <3>2, <3>3, StartingFacts DEF StageInv, Stages
    <3>6. RefreshInv'
      <4>1. ASSUME NEW q \in Replicas, replica'[q].refresh # None
            PROVE  replica'[q].refresh \in Nat /\ replica'[q].refresh <= secret.cert
        <5>1. q # r /\ replica'[q] = replica[q]
          BY <3>1, <4>1, StartingFacts, Zenon
        <5>2. replica[q].refresh \in Nat
          BY <4>1, <5>1, Zenon DEF Process
        <5> QED
          BY <4>1, <5>1, <5>2, Zenon DEF RefreshInv, Refreshing
      <4>2. ASSUME NEW q \in Replicas, replica'[q].refresh # None
            PROVE  replica'[q].refresh <= secret'.cert /\ replica'[q].refresh # secret'.cert
        BY <3>1, <3>2, <4>1, <4>2
      <4> QED
        BY <3>3, <4>2, Zenon DEF RefreshInv, Refreshing
    <3> QED
      BY <3>4, <3>5, <3>6
  <2>2. CASE replica[r].refresh # secret.cert
    <3> DEFINE p == [replica[r] EXCEPT !.refresh = None, !.pc = IF @ = "refresh" THEN "boot" ELSE @]
    <3>1. p \in Process /\ Fields(p, replica[r]) /\ p.refresh = None
      BY ZenonT(60) DEF Process
    <3>2. Stages(p, r) /\ Refreshing(p)
      BY <3>1 DEF StageInv, Stages, Refreshing
    <3> QED
      BY <1>5, <2>2, <3>1, <3>2, OneProcess DEF WriteCert
  <2> QED
    BY <2>1, <2>2, Zenon
<1>6. ASSUME NEW r \in Replicas, InjectCA(r) PROVE OperatorInv'
  <2> DEFINE p == [replica[r] EXCEPT !.ca = None, !.injected = TRUE]
  <2>1. /\ p \in Process /\ p.injected /\ p.ca = None /\ p.refresh = replica[r].refresh
        /\ p.registered = replica[r].registered /\ p.done = replica[r].done
        /\ p.certReady = replica[r].certReady
    BY ZenonT(60) DEF Process
  <2>2. Stages(p, r) /\ Refreshing(p)
    BY <1>6, <2>1 DEF InjectCA, StageInv, RefreshInv, Stages, Refreshing
  <2> QED
    BY <1>6, <2>1, <2>2, OneProcess DEF InjectCA
<1>16. ASSUME NEW r \in Replicas, ReadCA(r) PROVE OperatorInv'
  <2> DEFINE p == [replica[r] EXCEPT !.ca = secret.cert]
  <2>0. secret # NoSecret /\ secret.cert \in Nat /\ secret.cert # 0
    BY <1>16, ZenonT(60) DEF ReadCA, Secret
  <2>1. /\ p \in Process /\ p.refresh = replica[r].refresh
        /\ p.registered = replica[r].registered /\ p.done = replica[r].done
        /\ p.certReady = replica[r].certReady /\ p.injected = replica[r].injected
    BY <2>0, ZenonT(60) DEF Process
  <2>2. Stages(p, r) /\ Refreshing(p)
    BY <2>0, <2>1 DEF StageInv, RefreshInv, Stages, Refreshing
  <2> QED
    BY <1>16, <2>1, <2>2, OneProcess DEF ReadCA
<1>7. ASSUME NEW r \in Replicas, CertReady(r) PROVE OperatorInv'
  <2> DEFINE p == [replica[r] EXCEPT !.certReady = TRUE]
  <2>1. /\ p \in Process /\ p.certReady /\ p.refresh = replica[r].refresh
        /\ p.registered = replica[r].registered /\ p.done = replica[r].done
        /\ p.injected = replica[r].injected /\ p.ca = replica[r].ca
    BY Zenon DEF Process
  <2>2. Stages(p, r) /\ Refreshing(p)
    BY <1>7, <2>1 DEF CertReady, StageInv, RefreshInv, Stages, Refreshing
  <2> QED
    BY <1>7, <2>1, <2>2, OneProcess DEF CertReady
<1>8. ASSUME NEW r \in Replicas, Register(r) PROVE OperatorInv'
  <2> DEFINE s == replica[r].registered
             t == Append(s, Webhooks[Len(s) + 1])
             p == [replica[r] EXCEPT !.registered = t]
  <2>1. s \in Seq(Kinds) /\ InOrder(s) /\ Len(s) < 3 /\ replica[r].certReady
    BY <1>8, WebhookFacts, Zenon DEF Register, Process, StageInv, Stages
  <2>2. t \in Seq(Kinds) /\ Len(t) = Len(s) + 1 /\ InOrder(t)
    BY <2>1, OrderGrows
  <2> HIDE DEF t
  <2>3. /\ p \in Process /\ p.registered = t /\ p.refresh = replica[r].refresh
        /\ p.certReady = replica[r].certReady /\ p.done = replica[r].done
        /\ p.injected = replica[r].injected /\ p.ca = replica[r].ca
    BY <2>2, Zenon DEF Process
  <2>4. Stages(p, r) /\ Refreshing(p)
    BY <2>1, <2>2, <2>3 DEF StageInv, RefreshInv, Stages, Refreshing
  <2>5. Set(r, p) /\ UNCHANGED <<secret, mounted>>
    BY <1>8 DEF Register, t
  <2> QED
    BY <2>3, <2>4, <2>5, OneProcess
<1>9. ASSUME NEW r \in Replicas, Done(r) PROVE OperatorInv'
  <2> DEFINE p == [replica[r] EXCEPT !.done = TRUE]
  <2>1. /\ p \in Process /\ p.done /\ p.refresh = replica[r].refresh
        /\ p.registered = replica[r].registered /\ p.certReady = replica[r].certReady
        /\ p.injected = replica[r].injected /\ p.ca = replica[r].ca
    BY Zenon DEF Process
  <2>2. Stages(p, r) /\ Refreshing(p)
    BY <1>9, <2>1, WebhookFacts DEF Done, StageInv, RefreshInv, Stages, Refreshing
  <2> QED
    BY <1>9, <2>1, <2>2, OneProcess DEF Done
<1>10. ASSUME NEW r \in Replicas, Serve(r) PROVE OperatorInv'
  <2> DEFINE p == [replica[r] EXCEPT !.serving = TRUE]
  <2>1. p \in Process /\ Fields(p, replica[r]) /\ p.refresh = replica[r].refresh
    BY ZenonT(60) DEF Process
  <2>2. Stages(p, r) /\ Refreshing(p)
    BY <2>1 DEF StageInv, RefreshInv, Stages, Refreshing
  <2> QED
    BY <1>0, <1>10, <2>1, <2>2, OneProcess DEF Serve
<1>11. ASSUME NEW r \in Replicas, Mount(r) PROVE OperatorInv'
  <2>1. secret.cert \in Nat
    BY <1>11, ZenonT(60) DEF Mount, Secret
  <2> QED
    BY <1>11, <2>1, OperatorAssumption DEF Mount, StageInv, RefreshInv, Stages, Refreshing
<1>12. ASSUME NEW r \in Replicas, Lead(r) \/ UNCHANGED operatorVars PROVE OperatorInv'
  BY <1>12 DEF Lead, operatorVars, StageInv, RefreshInv, Stages, Refreshing
<1>13. ASSUME NEW r \in Replicas, Crash(r) PROVE OperatorInv'
  BY <1>0, <1>13, ZenonT(60) DEF Crash
<1>14. CASE Expire
  <2>1. /\ secret # NoSecret /\ secret' \in Secret /\ secret'.cert = secret.cert /\ ~secret'.valid
        /\ secret' # NoSecret /\ mounted' = mounted /\ replica' = replica
    BY <1>14, OperatorAssumption, ZenonT(60) DEF Expire, Secret
  <2> QED
    BY <2>1 DEF StageInv, RefreshInv, Stages, Refreshing
<1>15. CASE Configure \/ UNCHANGED operatorVars
  BY <1>15 DEF Configure, operatorVars, StageInv, RefreshInv, Stages, Refreshing
<1> QED
  BY <1>1, <1>2, <1>3, <1>4, <1>5, <1>6, <1>7, <1>8, <1>9, <1>10, <1>11, <1>12, <1>13, <1>14,
     <1>15, <1>16, ZenonT(60) DEF OperatorNext, Step

\* The replicas keep the invariant.
LEMMA OperatorInvariance == OperatorSpec => []OperatorInv
<1>1. OperatorInv /\ [OperatorNext]_operatorVars => OperatorInv'
  BY NextInv
<1> QED
  BY <1>1, InitInv, PTL DEF OperatorSpec
-----------------------------------------------------------------------------
(* Installer                                                               *)

Whole == {Full} \cup I!Credentials
Hashes == [token : Versions \cup {0}, ca : Versions \cup {0}]

Installation ==
  [pc : {"start", "token", "ca", "create", "sync", "rename", "syncdir", "hash", "watch"},
   file : I!Files, regen : BOOLEAN, hash : Hashes \cup {None}, new : Hashes \cup {None},
   data : Whole \cup {None}]

InstallerTypes ==
  /\ sa \in [token : Versions, ca : Versions, readable : BOOLEAN]
  /\ see \in [I!Files -> Whole \cup {None}]
  /\ disk \in [I!Files -> SUBSET (Whole \cup {None})]
  /\ proc \in Installation

\* What process p has in hand, and that the files before the one it works on
\* are durable.
ProcessInv(p, t) ==
  /\ p.pc \in {"start", "token", "ca", "watch"} => p.file = "kubeconfig"
  /\ p.regen => p.file = "kubeconfig"
  /\ p.pc = "ca" => p.data \in I!Credentials
  /\ p.pc = "create" => p.data \in Whole
  /\ p.pc \in {"sync", "rename", "syncdir"} => t \in [data : Whole, synced : BOOLEAN]
  /\ p.pc \in {"rename", "syncdir"} => t.synced

OrderInv(p, d) ==
  /\ p.file # "kubeconfig" => None \notin d["kubeconfig"]
  /\ p.file \in {"nodename", "binary"} => None \notin d["conf"]

\* A reader sees one of the contents that may survive, and a binary that may
\* survive has its configuration with it.
FilesInv(s, d) ==
  /\ \A f \in I!Files : s[f] \in d[f]
  /\ env.journalled /\ d["binary"] # {None} => None \notin d["kubeconfig"] /\ None \notin d["conf"]

\* On a journalled file system the binary waits for a durable whereabouts.d.
DirInv(p, d, c) ==
  env.journalled /\ c # "durable" => p.file = "kubeconfig" /\ d["binary"] = {None}

\* Between the rename and the sync of the directory readers see the new file.
SeenInv == proc.pc = "syncdir" => see[proc.file] = tmp.data

InstallerInv ==
  /\ InstallerTypes /\ ProcessInv(proc, tmp) /\ OrderInv(proc, disk)
  /\ FilesInv(see, disk) /\ SeenInv /\ DirInv(proc, disk, confDir)
-----------------------------------------------------------------------------
(* The proof                                                               *)

\* A process that starts has nothing in hand.
LEMMA StartFacts ==
  /\ I!Start \in Installation /\ I!Start.pc = "start" /\ I!Start.file = "kubeconfig"
  /\ \A t, d : ProcessInv(I!Start, t) /\ OrderInv(I!Start, d)
BY Zenon DEF I!Start, Installation, I!Files, ProcessInv, OrderInv

\* OperatorInit establishes the invariant: there are no files.
LEMMA InstallerInit == I!Init => InstallerInv
<1> SUFFICES ASSUME I!Init PROVE InstallerInv
  OBVIOUS
<1>1. InstallerTypes
  BY StartFacts, FileAssumption, Zenon DEF I!Init, InstallerTypes, I!Files
<1>2. FilesInv(see, disk)
  BY Zenon DEF I!Init, FilesInv, I!Files
<1> QED
  BY <1>1, <1>2, StartFacts, Zenon DEF I!Init, InstallerInv, SeenInv, DirInv, I!Files

\* fileHash is one of the versions, or 0.
LEMMA HashFacts ==
  ASSUME InstallerTypes
  PROVE  [token |-> I!fileHash("token"), ca |-> I!fileHash("ca")] \in Hashes
BY Zenon DEF InstallerTypes, I!fileHash, Hashes

\* A step that leaves the files alone keeps the invariant if the new state of
\* the process does.
LEMMA OnlyProcess ==
  ASSUME InstallerInv, NEW p \in Installation, proc' = p, UNCHANGED <<env, sa, see, disk>>,
         ProcessInv(p, tmp'), OrderInv(p, disk), p.pc # "syncdir",
         proc.file = "kubeconfig" => p.file = "kubeconfig",
         confDir' = "durable" <=> confDir = "durable"
  PROVE  InstallerInv'
<1>1. InstallerTypes' /\ ProcessInv(proc', tmp') /\ OrderInv(proc', disk') /\ SeenInv'
  BY Zenon DEF InstallerInv, InstallerTypes, ProcessInv, OrderInv, SeenInv
<1>2. FilesInv(see, disk)' /\ DirInv(proc, disk, confDir)'
  BY Zenon DEF InstallerInv, FilesInv, DirInv
<1> QED
  BY <1>1, <1>2, Zenon DEF InstallerInv, ProcessInv, OrderInv

\* A process that meets an error starts again, or keeps watching.
LEMMA ErrorFacts ==
  ASSUME InstallerInv
  PROVE  /\ I!Error(proc) \in Installation /\ I!Error(proc).pc # "syncdir"
         /\ I!Error(proc).file = "kubeconfig"
         /\ \A t : ProcessInv(I!Error(proc), t)
         /\ OrderInv(I!Error(proc), disk)
<1>1. CASE proc.regen
  <2> DEFINE q == [proc EXCEPT !.pc = "watch", !.file = "kubeconfig"]
  <2>1. q \in Installation /\ q.pc = "watch" /\ q.file = "kubeconfig"
    BY Zenon DEF InstallerInv, InstallerTypes, Installation, I!Files
  <2>2. (\A t : ProcessInv(q, t)) /\ OrderInv(q, disk)
    BY <2>1 DEF ProcessInv, OrderInv
  <2> QED
    BY <1>1, <2>1, <2>2 DEF I!Error
<1>2. CASE ~proc.regen
  BY <1>2, StartFacts, ZenonT(60) DEF I!Error
<1> QED
  BY <1>1, <1>2

\* The steps of writeKubeConfig, atomicWriteFile and copyFile up to the rename.
LEMMA PrepareStep ==
  ASSUME InstallerInv, env' = env,
         I!Run \/ I!ReadToken \/ I!ReadCA \/ I!WriteTemp \/ I!CopyTemp \/ I!SyncTemp
  PROVE  InstallerInv'
<1> USE DEF InstallerInv, InstallerTypes
<1>1. CASE I!Run
  <2> DEFINE q == [proc EXCEPT !.pc = "token"]
  <2>1. q \in Installation /\ q.pc = "token" /\ q.file = proc.file /\ q.regen = proc.regen
    BY DEF Installation
  <2>2. ProcessInv(q, tmp') /\ OrderInv(q, disk)
    BY <1>1, <2>1 DEF I!Run, ProcessInv, OrderInv
  <2>3. UNCHANGED <<sa, see, disk>> /\ (confDir' = "durable" <=> confDir = "durable") /\ proc' = q
    BY <1>1, FileAssumption DEF I!Run
  <2> QED
    BY <2>1, <2>2, <2>3, OnlyProcess, Zenon
<1>2. CASE I!ReadToken
  <2> DEFINE c == [token |-> sa.token, ca |-> I!NoCA]
             q == [proc EXCEPT !.pc = "ca", !.data = c]
  <2>1. c \in I!Credentials
    BY DEF I!Credentials
  <2>2. q \in Installation /\ q.pc = "ca" /\ q.data = c /\ q.file = proc.file /\ q.regen = proc.regen
    BY <2>1, Zenon DEF Installation, Whole
  <2>3. ProcessInv(q, tmp') /\ OrderInv(q, disk)
    BY <1>2, <2>1, <2>2, ZenonT(60) DEF I!ReadToken, ProcessInv, OrderInv
  <2> QED
    BY <1>2, <2>2, <2>3, OnlyProcess, ErrorFacts, Zenon DEF I!ReadToken, I!files
<1>3. CASE I!ReadCA
  <2> DEFINE q == [proc EXCEPT !.pc = "create"]
             w == [proc EXCEPT !.pc = "create", !.data.ca = sa.ca]
  <2>1. proc.data \in I!Credentials
    BY <1>3 DEF I!ReadCA, ProcessInv
  <2>2. q \in Installation /\ q.pc = "create" /\ q.data = proc.data /\ q.file = proc.file
        /\ q.regen = proc.regen
    BY DEF Installation
  <2>3. [proc.data EXCEPT !.ca = sa.ca] \in I!Credentials
    BY <2>1 DEF I!Credentials
  <2>4. w \in Installation /\ w.pc = "create" /\ w.data \in I!Credentials /\ w.file = proc.file
        /\ w.regen = proc.regen
    BY <2>3, Zenon DEF Installation, Whole
  <2>5. ProcessInv(q, tmp') /\ OrderInv(q, disk) /\ ProcessInv(w, tmp') /\ OrderInv(w, disk)
    BY <1>3, <2>1, <2>2, <2>4 DEF I!ReadCA, ProcessInv, OrderInv, Whole
  <2>6. UNCHANGED <<sa, see, disk, confDir>> /\ (proc' = q \/ proc' = w \/ proc' = I!Error(proc))
    BY <1>3, ZenonT(60) DEF I!ReadCA, I!files
  <2> HIDE DEF q, w
  <2> QED
    BY <2>2, <2>4, <2>5, <2>6, OnlyProcess, ErrorFacts
<1>4. CASE I!WriteTemp \/ I!CopyTemp
  <2>1. CASE proc.file = "nodename" /\ ~env.HasNodeName
    <3> DEFINE q == [proc EXCEPT !.file = I!NextFile(@)]
    <3>1. q \in Installation /\ q.pc = proc.pc /\ q.file = "binary" /\ q.regen = proc.regen
          /\ q.data = proc.data
      BY <2>1 DEF Installation, I!NextFile, I!Files
    <3>2. proc' = q /\ tmp' = tmp /\ UNCHANGED <<sa, see, disk, confDir>> /\ proc.pc = "create"
      BY <1>4, <2>1 DEF I!WriteTemp, I!CopyTemp
    <3>3. ProcessInv(q, tmp') /\ OrderInv(q, disk)
      BY <2>1, <3>1, <3>2 DEF ProcessInv, OrderInv
    <3> QED
      BY <2>1, <3>1, <3>2, <3>3, OnlyProcess, Zenon
  <2>2. CASE ~(proc.file = "nodename" /\ ~env.HasNodeName)
    <3> DEFINE q == [proc EXCEPT !.pc = "sync"]
    <3>1. q \in Installation /\ q.pc = "sync" /\ q.file = proc.file /\ q.regen = proc.regen
      BY DEF Installation
    <3>2. /\ proc' = q /\ UNCHANGED <<sa, see, disk, confDir>> /\ proc.pc = "create"
          /\ \/ tmp' = [data |-> proc.data, synced |-> FALSE]
             \/ tmp' = [data |-> Full, synced |-> FALSE]
      BY <1>4, <2>2 DEF I!WriteTemp, I!CopyTemp
    <3>3. proc.data \in Whole /\ Full \in Whole
      BY <3>2 DEF ProcessInv, Whole
    <3>4. tmp' \in [data : Whole, synced : BOOLEAN]
      <4>1. \A y \in Whole : [data |-> y, synced |-> FALSE] \in [data : Whole, synced : BOOLEAN]
        OBVIOUS
      <4> QED
        BY <3>2, <3>3, <4>1, Zenon
    <3>5. ProcessInv(q, tmp') /\ OrderInv(q, disk)
      BY <3>1, <3>4 DEF ProcessInv, OrderInv
    <3> QED
      BY <3>1, <3>2, <3>5, OnlyProcess, Zenon
  <2> QED
    BY <2>1, <2>2
<1>5. CASE I!SyncTemp
  <2> DEFINE q == [proc EXCEPT !.pc = "rename"]
  <2>1. q \in Installation /\ q.pc = "rename" /\ q.file = proc.file /\ q.regen = proc.regen
    BY DEF Installation
  <2>2. proc' = q /\ UNCHANGED <<sa, see, disk, confDir>> /\ tmp \in [data : Whole, synced : BOOLEAN]
    BY <1>5 DEF I!SyncTemp, ProcessInv
  <2>3. tmp' \in [data : Whole, synced : BOOLEAN] /\ tmp'.synced
    BY <1>5, <2>2, Zenon DEF I!SyncTemp
  <2>4. ProcessInv(q, tmp') /\ OrderInv(q, disk)
    BY <2>1, <2>3, Zenon DEF ProcessInv, OrderInv
  <2> QED
    BY <2>1, <2>2, <2>4, OnlyProcess, Zenon
<1> QED
  BY <1>1, <1>2, <1>3, <1>4, <1>5

\* The rename: the new file is whole, and every file before it is durable.
LEMMA RenameStep == ASSUME InstallerInv, env' = env, I!Rename PROVE InstallerInv'
<1> DEFINE q == [proc EXCEPT !.pc = "syncdir"]
           x == tmp.data
<1>1. /\ proc' = q /\ sa' = sa /\ tmp' = tmp /\ tmp \in [data : Whole, synced : BOOLEAN]
      /\ tmp.synced /\ x \in Whole /\ proc.file \in I!Files
      /\ see' = [see EXCEPT ![proc.file] = x]
      /\ disk' = [disk EXCEPT ![proc.file] = @ \cup {x}]
  BY DEF I!Rename, InstallerInv, InstallerTypes, ProcessInv, I!OnDisk, Installation
<1>2. q \in Installation /\ q.pc = "syncdir" /\ q.file = proc.file /\ q.regen = proc.regen
  BY DEF InstallerInv, InstallerTypes, Installation
<1> HIDE DEF q, x
<1>3. x # None
  BY <1>1, FileAssumption, Zenon DEF Whole
<1>4. InstallerTypes'
  BY <1>1, <1>2, Zenon DEF InstallerInv, InstallerTypes
<1>5. \A f \in I!Files : None \notin disk[f] => None \notin disk'[f]
  BY <1>1, <1>3 DEF InstallerInv, InstallerTypes
<1>6. ProcessInv(q, tmp')
  BY <1>1, <1>2, Zenon DEF InstallerInv, ProcessInv
<1>7. OrderInv(q, disk')
  BY <1>2, <1>5, Zenon DEF InstallerInv, OrderInv, I!Files
<1>8. \A f \in I!Files : see'[f] \in disk'[f]
  BY <1>1, Zenon DEF InstallerInv, InstallerTypes, FilesInv
<1>9. env.journalled /\ disk'["binary"] # {None} => None \notin disk'["kubeconfig"] /\ None \notin disk'["conf"]
  <2>1. CASE proc.file = "binary"
    BY <1>5, <2>1, Zenon DEF InstallerInv, OrderInv, I!Files
  <2>2. CASE proc.file # "binary"
    <3>1. disk'["binary"] = disk["binary"]
      BY <1>1, <2>2 DEF InstallerInv, InstallerTypes, I!Files
    <3> QED
      BY <1>5, <3>1, Zenon DEF InstallerInv, FilesInv, I!Files
  <2> QED
    BY <2>1, <2>2, Zenon
<1>10. SeenInv'
  BY <1>1, <1>2, Zenon DEF InstallerInv, InstallerTypes, SeenInv, x
<1>11. DirInv(proc, disk, confDir)'
  <2> SUFFICES ASSUME env.journalled, confDir # "durable"
               PROVE  q.file = "kubeconfig" /\ disk'["binary"] = {None}
    BY <1>1, Zenon DEF DirInv, I!Rename
  <2>1. proc.file = "kubeconfig" /\ disk["binary"] = {None}
    BY DEF InstallerInv, DirInv
  <2> QED
    BY <1>1, <1>2, <2>1 DEF InstallerInv, InstallerTypes, I!Files
<1> QED
  BY <1>1, <1>4, <1>6, <1>7, <1>8, <1>9, <1>10, <1>11, Zenon DEF InstallerInv, FilesInv

\* The sync of the directory: the file is durable, so the next may begin.
LEMMA SyncDirectoryStep == ASSUME InstallerInv, env' = env, I!syncDirectory PROVE InstallerInv'
<1> DEFINE x == tmp.data
           q1 == [proc EXCEPT !.pc = "watch", !.hash = proc.new]
           q2 == [proc EXCEPT !.pc = "hash"]
           q3 == [proc EXCEPT !.pc = "create", !.file = I!NextFile(@), !.data = Full]
<1>1. /\ sa' = sa /\ see' = see /\ tmp \in [data : Whole, synced : BOOLEAN]
      /\ tmp.synced /\ x \in Whole /\ proc.file \in I!Files
      /\ disk' = [disk EXCEPT ![proc.file] = {x}]
  BY Zenon DEF I!syncDirectory, InstallerInv, InstallerTypes, ProcessInv, I!OnDisk, Installation
<1>2. x # None /\ see[proc.file] = x
  BY <1>1, FileAssumption, Zenon DEF I!syncDirectory, InstallerInv, SeenInv, Whole
<1>3. (proc.regen /\ proc' = q1) \/ (~proc.regen /\ (proc' = q2 \/ (proc.file # "binary" /\ proc' = q3)))
  BY DEF I!syncDirectory, I!Written
<1>4. q1 \in Installation /\ q1.pc = "watch" /\ q1.file = proc.file /\ q1.regen = proc.regen
  BY Zenon DEF InstallerInv, InstallerTypes, Installation
<1>5. q2 \in Installation /\ q2.pc = "hash" /\ q2.file = proc.file /\ q2.regen = proc.regen
  BY DEF InstallerInv, InstallerTypes, Installation
<1>6. ASSUME proc.file # "binary"
      PROVE  q3 \in Installation /\ q3.pc = "create" /\ q3.file = I!NextFile(proc.file)
             /\ q3.regen = proc.regen /\ q3.data = Full
  BY <1>1, <1>6, Zenon DEF InstallerInv, InstallerTypes, Installation, I!NextFile, I!Files, Whole
<1> HIDE DEF x, q1, q2, q3
<1>7. InstallerTypes'
  BY <1>1, <1>3, <1>4, <1>5, <1>6, Zenon DEF InstallerInv, InstallerTypes
<1>8. /\ \A f \in I!Files : None \notin disk[f] => None \notin disk'[f]
      /\ None \notin disk'[proc.file]
  BY <1>1, <1>2 DEF InstallerInv, InstallerTypes
<1>9. ProcessInv(proc', tmp') /\ OrderInv(proc', disk')
  <2>1. OrderInv(proc, disk')
    BY <1>8, Zenon DEF InstallerInv, OrderInv, I!Files
  <2>2. CASE proc' = q1 /\ proc.regen
    BY <1>4, <2>1, <2>2, Zenon DEF InstallerInv, ProcessInv, OrderInv
  <2>3. CASE ~proc.regen /\ proc' = q2
    BY <1>5, <2>1, <2>3, Zenon DEF InstallerInv, ProcessInv, OrderInv
  <2>4. CASE ~proc.regen /\ proc.file # "binary" /\ proc' = q3
    BY <1>1, <1>6, <1>8, <2>1, <2>4 DEF InstallerInv, ProcessInv, OrderInv, I!NextFile, I!Files, Whole
  <2> QED
    BY <1>3, <2>2, <2>3, <2>4, Zenon
<1>10. \A f \in I!Files : see'[f] \in disk'[f]
  BY <1>1, <1>2, ZenonT(60) DEF InstallerInv, InstallerTypes, FilesInv
<1>11. env.journalled /\ disk'["binary"] # {None} => None \notin disk'["kubeconfig"] /\ None \notin disk'["conf"]
  <2>1. CASE proc.file = "binary"
    BY <1>8, <2>1, ZenonT(60) DEF InstallerInv, OrderInv, I!Files
  <2>2. CASE proc.file # "binary"
    <3>1. disk'["binary"] = disk["binary"]
      BY <1>1, <2>2, Zenon DEF InstallerInv, InstallerTypes, I!Files
    <3> QED
      BY <1>8, <3>1 DEF InstallerInv, FilesInv, I!Files
  <2> QED
    BY <2>1, <2>2
<1>12. SeenInv'
  BY <1>3, <1>4, <1>5, <1>6, Zenon DEF SeenInv
<1>13. DirInv(proc, disk, confDir)'
  BY DEF I!syncDirectory, DirInv
<1> QED
  BY <1>7, <1>9, <1>10, <1>11, <1>12, <1>13, Zenon DEF InstallerInv, FilesInv

\* watchAndRegenerate only reads.
LEMMA WatchStep ==
  ASSUME InstallerInv, env' = env, I!TakeHashes \/ I!maybeRegenerate
  PROVE  InstallerInv'
<1> DEFINE h == [token |-> I!fileHash("token"), ca |-> I!fileHash("ca")]
           q1 == [proc EXCEPT !.pc = "watch", !.file = "kubeconfig", !.hash = h]
           q2 == [proc EXCEPT !.pc = "token", !.regen = TRUE, !.new = h]
           q3 == [proc EXCEPT !.hash = h]
<1>1. h \in Hashes
  BY HashFacts DEF InstallerInv
<1>2. UNCHANGED <<sa, see, disk, confDir, tmp>>
  BY DEF I!TakeHashes, I!maybeRegenerate, I!files
<1>3. proc' = q1 \/ (proc.pc = "watch" /\ proc' \in {q2, q3})
  BY DEF I!TakeHashes, I!maybeRegenerate
<1> HIDE DEF h
<1>4. q1 \in Installation /\ q1.pc = "watch" /\ q1.file = "kubeconfig"
  BY <1>1, Zenon DEF InstallerInv, InstallerTypes, Installation, I!Files
<1>5. q2 \in Installation /\ q2.pc = "token" /\ q2.file = proc.file
  BY <1>1, Zenon DEF InstallerInv, InstallerTypes, Installation
<1>6. q3 \in Installation /\ q3.pc = proc.pc /\ q3.file = proc.file
  BY <1>1, ZenonT(60) DEF InstallerInv, InstallerTypes, Installation
<1> HIDE DEF q1, q2, q3
<1>7. proc.pc = "watch" => proc.file = "kubeconfig"
  BY DEF InstallerInv, ProcessInv
<1>8. proc' \in Installation /\ proc'.pc \in {"watch", "token"} /\ proc'.file = "kubeconfig"
  BY <1>3, <1>4, <1>5, <1>6, <1>7, ZenonT(60)
<1>9. ProcessInv(proc', tmp') /\ OrderInv(proc', disk) /\ proc'.pc # "syncdir"
  BY <1>8 DEF ProcessInv, OrderInv
<1> QED
  BY <1>2, <1>8, <1>9, OnlyProcess, Zenon

\* A loss of power leaves each file with one of the contents that may survive,
\* or takes a directory that is not durable.
LEMMA PowerLossStep == ASSUME InstallerInv, env' = env, I!PowerLoss PROVE InstallerInv'
<1>1. PICK lost \in IF confDir = "new" THEN BOOLEAN ELSE {FALSE} :
        /\ see' \in {s \in [I!Files -> UNION {disk[f] : f \in I!Files} \cup {None}] :
                     \A f \in I!Files : s[f] \in IF lost /\ f # "binary" THEN {None} ELSE disk[f]}
        /\ confDir' = IF lost \/ confDir = None THEN None ELSE "durable"
  BY Zenon DEF I!PowerLoss
<1>2. /\ sa' = sa /\ proc' = I!Start /\ disk' = [f \in I!Files |-> {see'[f]}]
      /\ see' \in [I!Files -> UNION {disk[f] : f \in I!Files} \cup {None}]
      /\ \A f \in I!Files : see'[f] \in IF lost /\ f # "binary" THEN {None} ELSE disk[f]
      /\ lost => confDir = "new"
  BY <1>1, Zenon DEF I!PowerLoss
<1>3. see' \in [I!Files -> Whole \cup {None}]
  BY <1>2, Zenon DEF InstallerInv, InstallerTypes
<1>4. InstallerTypes'
  <2>1. \A f \in I!Files : {see'[f]} \in SUBSET (Whole \cup {None})
    BY <1>3, Zenon
  <2>2. disk' \in [I!Files -> SUBSET (Whole \cup {None})]
    BY <1>2, <2>1, Zenon
  <2> QED
    BY <1>2, <1>3, <2>2, StartFacts, Zenon DEF InstallerInv, InstallerTypes
<1>5. (\A f \in I!Files : disk'[f] = {see'[f]}) /\ see'["binary"] \in disk["binary"]
  BY <1>2, Zenon DEF I!Files
<1>6. ASSUME env.journalled, disk'["binary"] # {None}
      PROVE  None \notin disk'["kubeconfig"] /\ None \notin disk'["conf"] /\ confDir' = "durable"
  <2>1. disk["binary"] # {None}
    BY <1>5, <1>6, Zenon DEF I!Files
  <2>2. confDir = "durable"
    BY <1>6, <2>1, Zenon DEF InstallerInv, DirInv
  <2>3. ~lost /\ confDir' = "durable"
    BY <1>1, <1>2, <2>2, FileAssumption
  <2>4. None \notin disk["kubeconfig"] /\ None \notin disk["conf"]
    BY <1>6, <2>1, Zenon DEF InstallerInv, FilesInv
  <2> QED
    BY <1>2, <1>5, <2>3, <2>4, Zenon DEF I!Files
<1>7. FilesInv(see, disk)'
  BY <1>5, <1>6, Zenon DEF FilesInv
<1>8. DirInv(proc, disk, confDir)'
  BY <1>2, <1>6, StartFacts, Zenon DEF DirInv
<1> QED
  BY <1>2, <1>4, <1>7, <1>8, StartFacts, Zenon DEF InstallerInv, SeenInv

\* Every step keeps the invariant.
LEMMA InstallerNext ==
  ASSUME InstallerInv, [I!Next]_<<env, I!vars>>
  PROVE  InstallerInv'
<1>0. env' = env
  BY DEF I!Next
<1>1. CASE I!Step
  BY <1>0, <1>1, PrepareStep, RenameStep, SyncDirectoryStep, WatchStep DEF I!Step
<1>2. CASE I!CallFails
  BY <1>0, <1>2, ErrorFacts, OnlyProcess DEF I!CallFails
<1>3. CASE I!Kill
  BY <1>0, <1>3, StartFacts, OnlyProcess DEF I!Kill
<1>4. CASE I!PowerLoss
  BY <1>0, <1>4, PowerLossStep, Zenon
<1>5. CASE I!Rotate \/ I!Unreadable \/ I!Readable
  <2>1. UNCHANGED <<env, see, disk, confDir, tmp, proc>>
    BY <1>0, <1>5 DEF I!Rotate, I!Unreadable, I!Readable, I!files
  <2>2. sa' \in [token : Versions, ca : Versions, readable : BOOLEAN]
    BY <1>5, Zenon DEF I!Rotate, I!Unreadable, I!Readable, InstallerInv, InstallerTypes
  <2> QED
    BY <2>1, <2>2, Zenon DEF InstallerInv, InstallerTypes, ProcessInv, OrderInv, FilesInv, SeenInv, DirInv
<1>6. CASE UNCHANGED <<env, I!vars>>
  BY <1>6, Zenon DEF I!vars, InstallerInv, InstallerTypes, ProcessInv, OrderInv, FilesInv, SeenInv,
                      DirInv
<1> QED
  BY <1>1, <1>2, <1>3, <1>4, <1>5, <1>6, Zenon DEF I!Next

\* The installer keeps the invariant.
LEMMA InstallerInvariance == I!Spec => []InstallerInv
<1>1. InstallerInv /\ [I!Next]_<<env, I!vars>> => InstallerInv'
  BY InstallerNext, Zenon
<1> QED
  BY <1>1, InstallerInit, PTL DEF I!Spec
-----------------------------------------------------------------------------
(* Admission                                                               *)

\* What a stored object needs to be written back.
GoodPool(p) ==
  /\ {"range", "allocations"} \subseteq DOMAIN p
  /\ p.range \notin {Empty, Bad}
  /\ \A key \in DOMAIN p.allocations :
       key # BadKey /\ A!ValidatePodRef(p.allocations[key], FALSE)
GoodSlices(p) == A!validateNodeSlicePool(p)
GoodReservation(r) == r.podRef \notin {Empty, NoSlash, Blank}

\* As long as there was no outage, the webhooks are served and what is stored
\* is what they admit, whoever wrote it.
AdmissionInv ==
  /\ nad \in NADs
  /\ outages \in Nat
  /\ outages = 0 =>
       /\ serving
       /\ ippool # None => GoodPool(ippool)
       /\ slicepool # None => GoodSlices(slicepool)
       /\ reservation # None => GoodReservation(reservation)

\* The verdict on a write that changes nothing.
LEMMA WriteBack ==
  /\ \A p : GoodPool(p) => A!IPPoolValidateUpdate(p, p)
  /\ \A p : {"range", "allocations"} \subseteq DOMAIN p /\ A!validateIPPool(p) => GoodPool(p)
  /\ \A p : GoodSlices(p) => A!NodeSlicePoolValidateUpdate(p, p)
  /\ \A r : GoodReservation(r) <=> A!OverlappingRangeValidateUpdate(r, r)
  /\ \A r : GoodReservation(r) <=> A!validateOverlappingRange(r)
<1> USE DEF A!ValidateCIDR, A!ValidatePodRef, A!validateAllocationKey
<1>1. \A p : GoodPool(p) => A!IPPoolValidateUpdate(p, p)
  BY Zenon DEF GoodPool, A!IPPoolValidateUpdate, A!validateIPPool
<1>2. \A p : {"range", "allocations"} \subseteq DOMAIN p /\ A!validateIPPool(p) => GoodPool(p)
  BY DEF GoodPool, A!validateIPPool
<1>3. \A p : GoodSlices(p) => A!NodeSlicePoolValidateUpdate(p, p)
  BY DEF GoodSlices, A!NodeSlicePoolValidateUpdate
<1>4. \A r : GoodReservation(r) <=> A!validateOverlappingRange(r)
  BY DEF GoodReservation, A!validateOverlappingRange
<1>5. \A r : GoodReservation(r) <=> A!OverlappingRangeValidateUpdate(r, r)
  BY <1>4, Zenon DEF A!OverlappingRangeValidateUpdate
<1> QED
  BY <1>1, <1>2, <1>3, <1>4, <1>5, Zenon

\* A division that the operator makes is one that the webhook admits.
LEMMA DivisionAdmitted ==
  ASSUME NEW n \in NADs, A!divideRangeBySize(n.range, n.size, MaxNodeSliceSubnets) # <<>>
  PROVE  GoodSlices(n)
<1>1. n.range # Bad /\ n.size # Bad
  BY Zenon DEF A!divideRangeBySize
<1>2. n.range # Empty /\ n.size # Empty /\ n.size \in Nat /\ n.size >= 1
  BY <1>1, AdmissionAssumption, ZenonT(60)
<1>3. ~(n.range.bits > n.size) /\ ~(n.size > A!Width(n.range))
  BY <1>1 DEF A!divideRangeBySize
<1>4. n.range.bits \in Nat /\ A!Width(n.range) \in Nat /\ A!Width(n.range) <= MaxPrefix
  BY <1>1, AdmissionAssumption, ZenonT(60) DEF A!Width
<1>5. n.range.bits <= n.size /\ n.size <= A!Width(n.range) /\ n.size <= MaxPrefix
  BY <1>2, <1>3, <1>4, AdmissionAssumption
<1> QED
  BY <1>1, <1>2, <1>5, Zenon DEF GoodSlices, A!validateNodeSlicePool, A!ValidateSliceSizeForRange,
     A!ValidateSliceSize, A!ValidateCIDR

\* OperatorInit establishes the invariant: nothing is stored.
LEMMA AdmissionInit == A!Init => AdmissionInv
BY DEF A!Init, AdmissionInv

\* A write by a user is admitted.
LEMMA UserStep ==
  ASSUME AdmissionInv,
         A!UserWritesPool \/ A!UserWritesSlicePool \/ A!UserWritesReservation \/ A!UserEditsNAD
  PROVE  AdmissionInv'
<1> USE DEF AdmissionInv
<1>1. CASE A!UserWritesPool
  <2>1. PICK new \in UserPools \cup {None} :
          /\ ippool' = new
          /\ new # None => A!Admit(IF ippool = None THEN A!validateIPPool(new)
                                  ELSE A!IPPoolValidateUpdate(ippool, new))
    BY <1>1, Zenon DEF A!UserWritesPool
  <2>2. UNCHANGED <<nad, slicepool, reservation, serving, outages>>
    BY <1>1 DEF A!UserWritesPool
  <2>3. outages = 0 /\ new # None => A!validateIPPool(new)
    BY <2>1, Zenon DEF A!Admit, A!IPPoolValidateUpdate
  <2>4. new # None => {"range", "allocations"} \subseteq DOMAIN new
    BY AdmissionAssumption, Zenon
  <2> QED
    BY <2>1, <2>2, <2>3, <2>4, WriteBack, Zenon
<1>2. CASE A!UserWritesSlicePool
  <2>1. PICK new \in UserSlicePools \cup {None} :
          /\ slicepool' = new
          /\ new # None => A!Admit(IF slicepool = None THEN A!validateNodeSlicePool(new)
                                  ELSE A!NodeSlicePoolValidateUpdate(slicepool, new))
    BY <1>2, Zenon DEF A!UserWritesSlicePool
  <2>2. UNCHANGED <<nad, ippool, reservation, serving, outages>>
    BY <1>2, Zenon DEF A!UserWritesSlicePool
  <2>3. outages = 0 /\ new # None => GoodSlices(new)
    BY <2>1 DEF A!Admit, A!NodeSlicePoolValidateUpdate, GoodSlices
  <2> QED
    BY <2>1, <2>2, <2>3, Zenon
<1>3. CASE A!UserWritesReservation
  <2>1. PICK new \in UserReservations \cup {None} :
          /\ reservation' = new
          /\ new # None => A!Admit(IF reservation = None THEN A!validateOverlappingRange(new)
                                  ELSE A!OverlappingRangeValidateUpdate(reservation, new))
    BY <1>3, Zenon DEF A!UserWritesReservation
  <2>2. UNCHANGED <<nad, ippool, slicepool, serving, outages>>
    BY <1>3, Zenon DEF A!UserWritesReservation
  <2>3. outages = 0 /\ new # None => A!validateOverlappingRange(new)
    BY <2>1 DEF A!Admit, A!OverlappingRangeValidateUpdate
  <2> QED
    BY <2>1, <2>2, <2>3, WriteBack, Zenon
<1>4. CASE A!UserEditsNAD
  BY <1>4, Zenon DEF A!UserEditsNAD
<1> QED
  BY <1>1, <1>2, <1>3, <1>4, Zenon

\* So is what the plugin and the reconcilers store past the webhooks.
LEMMA WriterStep ==
  ASSUME AdmissionInv,
         \/ \E p \in Pods : A!Add(p)
         \/ A!ReconcilePool \/ A!ReconcileReservation \/ A!ReconcileSlices
  PROVE  AdmissionInv'
<1> USE DEF AdmissionInv
<1>1. ASSUME NEW p \in Pods, A!Add(p) PROVE AdmissionInv'
  <2>1. UNCHANGED <<nad, slicepool, serving, outages>> /\ p \notin {Empty, NoSlash, Blank}
    BY <1>1, AdmissionAssumption, ZenonT(60) DEF A!Add
  <2>2. CASE ippool = None
    <3>1. ippool' = [range |-> PoolRange, allocations |-> <<>>] /\ reservation' = reservation
      BY <1>1, <2>2, Zenon DEF A!Add
    <3> DEFINE np == [range |-> PoolRange, allocations |-> <<>>]
    <3>2. GoodPool(np)
      <4>1. np.range = PoolRange /\ {"range", "allocations"} \subseteq DOMAIN np
        BY Zenon
      <4>2. DOMAIN np.allocations = {}
        OBVIOUS
      <4>3. PoolRange \notin {Empty, Bad}
        BY AdmissionAssumption, Zenon
      <4> HIDE DEF np
      <4> QED
        BY <4>1, <4>2, <4>3, Zenon DEF GoodPool
    <3> QED
      BY <2>1, <3>1, <3>2
  <2>3. CASE ippool # None
    <3>1. PICK key \in Keys \ A!Listed :
            ippool' = [ippool EXCEPT !.allocations =
                         [k \in A!Listed \cup {key} |-> IF k = key THEN p ELSE @[k]]]
      BY <1>1, <2>3, Zenon DEF A!Add
    <3>2. \/ reservation' = reservation
          \/ reservation' = [podRef |-> p, ifName |-> 1, containerID |-> 1, podUID |-> 1]
      BY <1>1, <2>3, ZenonT(60) DEF A!Add
    <3>3. reservation' # reservation => GoodReservation(reservation')
      BY <2>1, <3>2 DEF GoodReservation
    <3> DEFINE al == ippool.allocations
               new == [k \in A!Listed \cup {key} |-> IF k = key THEN p ELSE al[k]]
    <3>4. key # BadKey /\ A!Listed = DOMAIN al \ {BadKey}
      BY <3>1, AdmissionAssumption DEF A!Listed
    <3>5. ASSUME GoodPool(ippool) PROVE GoodPool(ippool')
      <4>1. /\ ippool' = [ippool EXCEPT !.allocations = new]
            /\ "range" \in DOMAIN ippool /\ "allocations" \in DOMAIN ippool
        BY <3>1, <3>5, Zenon DEF GoodPool
      <4>2. \A k \in DOMAIN new : k # BadKey /\ A!ValidatePodRef(new[k], FALSE)
        BY <2>1, <3>4, <3>5, Zenon DEF GoodPool, A!ValidatePodRef
      <4> HIDE DEF new
      <4>3. /\ DOMAIN ippool' = DOMAIN ippool
            /\ ippool'.range = ippool.range /\ ippool'.allocations = new
        BY <4>1
      <4> QED
        BY <3>5, <4>1, <4>2, <4>3, Zenon DEF GoodPool
    <3> QED
      BY <2>1, <2>3, <3>3, <3>5
  <2> QED
    BY <2>2, <2>3
<1>2. CASE A!ReconcilePool
  <2> DEFINE al == ippool.allocations
  <2>1. /\ UNCHANGED <<nad, slicepool, reservation, serving, outages>>
        /\ ippool # None
        /\ \E kept \in SUBSET DOMAIN al :
             ippool' = [ippool EXCEPT !.allocations = [key \in kept |-> @[key]]]
    BY <1>2, Zenon DEF A!ReconcilePool
  <2>2. PICK kept \in SUBSET DOMAIN al :
          ippool' = [ippool EXCEPT !.allocations = [key \in kept |-> al[key]]]
    BY <2>1, Zenon
  <2>3. ASSUME GoodPool(ippool) PROVE GoodPool(ippool')
    <3> DEFINE new == [key \in kept |-> al[key]]
    <3>1. \A k \in DOMAIN new : k # BadKey /\ A!ValidatePodRef(new[k], FALSE)
      BY <2>3, Zenon DEF GoodPool
    <3>2. /\ ippool' = [ippool EXCEPT !.allocations = new]
          /\ "range" \in DOMAIN ippool /\ "allocations" \in DOMAIN ippool
      BY <2>2, <2>3, Zenon DEF GoodPool
    <3> HIDE DEF new
    <3>3. /\ DOMAIN ippool' = DOMAIN ippool
          /\ ippool'.range = ippool.range /\ ippool'.allocations = new
      BY <3>2, Zenon
    <3> QED
      BY <2>3, <3>1, <3>2, <3>3, Zenon DEF GoodPool
  <2> QED
    BY <2>1, <2>3
<1>3. CASE A!ReconcileReservation
  BY <1>3, Zenon DEF A!ReconcileReservation
<1>4. CASE A!ReconcileSlices
  BY <1>4, DivisionAdmitted DEF A!ReconcileSlices
<1> QED
  BY <1>1, <1>2, <1>3, <1>4, ZenonT(60)

\* The webhooks' objects keep the invariant.
LEMMA AdmissionInvariance == A!Spec => []AdmissionInv
<1>1. ASSUME AdmissionInv, [A!Next]_A!vars PROVE AdmissionInv'
  <2>1. CASE A!Outage \/ A!Served
    BY <1>1, <2>1 DEF A!Outage, A!Served, AdmissionInv
  <2>2. ASSUME NEW p \in Pods, A!PodDeleted(p) PROVE AdmissionInv'
    BY <1>1, <2>2, Zenon DEF A!PodDeleted, AdmissionInv
  <2>3. CASE UNCHANGED A!vars
    BY <1>1, <2>3 DEF A!vars, AdmissionInv
  <2> QED
    BY <1>1, <2>1, <2>2, <2>3, UserStep, WriterStep, ZenonT(60) DEF A!Next
<1> QED
  BY <1>1, AdmissionInit, PTL DEF A!Spec
-----------------------------------------------------------------------------
(* The parts together                                                      *)

\* A behaviour of all parts is one of each.
LEMMA PartsRun == StartupSpec => OperatorSpec /\ I!Spec /\ A!Spec
<1>1. StartupInit => OperatorInit /\ I!Init /\ A!Init
  BY DEF StartupInit
<1>2. [StartupNext]_<<part, operatorVars, installer, webhooks>> => [OperatorNext]_operatorVars
  BY Zenon DEF StartupNext
<1>3. [StartupNext]_<<part, operatorVars, installer, webhooks>> => [I!Next]_<<env, I!vars>>
  BY Zenon DEF StartupNext, installer, I!vars
<1>4. [StartupNext]_<<part, operatorVars, installer, webhooks>> => [A!Next]_A!vars
  BY DEF StartupNext, webhooks, A!vars
<1> QED
  BY <1>1, <1>2, <1>3, <1>4, PTL DEF StartupSpec, OperatorSpec, I!Spec, A!Spec

\* However many replicas start, race and restart, one that reports ready has
\* registered all webhooks in this process, after a certificate existed
\* (SetupWhenReady, and readyz through its channel).
THEOREM ReadyIsRegistered == StartupSpec => []ReadyMeansRegistered
<1>1. OperatorInv => ReadyMeansRegistered
  <2> SUFFICES ASSUME OperatorInv, NEW r \in Replicas, replica[r].done
               PROVE  /\ replica[r].registered = Webhooks
                      /\ replica[r].injected /\ mounted[r] # NoFile /\ secret.cert # 0
    BY Zenon DEF ReadyMeansRegistered
  <2>1. replica[r].registered \in Seq(Kinds)
    BY DEF OperatorInv, TypeInv, Process
  <2>2. Stages(replica[r], r)
    BY ZenonT(60) DEF OperatorInv, StageInv
  <2>3. Len(replica[r].registered) = 3 /\ InOrder(replica[r].registered)
    BY <2>2 DEF Stages
  <2>4. replica[r].registered = Webhooks
    BY <2>1, <2>3, WebhookFacts, Zenon
  <2>5. replica[r].certReady
    <3>1. Len(replica[r].registered) > 0
      BY <2>3
    <3> QED
      BY <2>2, <3>1, Zenon DEF Stages
  <2> QED
    BY <2>2, <2>4, <2>5, Zenon DEF Stages
<1> QED
  BY <1>1, OperatorInvariance, PartsRun, PTL

\* However many replicas bootstrap together, a certificate is replaced only
\* once it is no longer valid (ensureSecret, and the rotator it enables).
THEOREM OneCertificate == StartupSpec => CertificateKept
<1> DEFINE Kept ==
      secret # NoSecret /\ secret' # secret =>
        \/ secret'.cert = secret.cert /\ ~secret'.valid
        \/ ~secret.valid /\ secret' = [cert |-> secret.cert + 1, valid |-> TRUE]
<1>1. OperatorInv /\ [OperatorNext]_operatorVars => [Kept]_operatorVars
  <2> SUFFICES ASSUME OperatorInv, OperatorNext PROVE Kept
    OBVIOUS
  <2> USE DEF OperatorInv, TypeInv
  <2>1. ASSUME NEW r \in Replicas, CreateSecret(r) PROVE Kept
    BY <2>1 DEF CreateSecret
  <2>2. ASSUME NEW r \in Replicas, WriteCert(r) PROVE Kept
    BY <2>2, Zenon DEF WriteCert, RefreshInv, Refreshing, Secret
  <2>3. CASE Expire
    <3>1. secret \in Secret /\ secret' = [secret EXCEPT !.valid = FALSE]
      BY <2>3 DEF Expire
    <3>2. secret'.cert = secret.cert /\ ~secret'.valid
      BY <3>1, ZenonT(60) DEF Secret
    <3> QED
      BY <3>2
  <2>4. ASSUME NEW r \in Replicas,
               \/ Setup(r) \/ GetSecret(r) \/ ReadCert(r) \/ ReadCA(r) \/ InjectCA(r) \/ CertReady(r)
               \/ Register(r) \/ Done(r) \/ Serve(r) \/ Mount(r) \/ Lead(r) \/ Crash(r)
        PROVE  Kept
    BY <2>4 DEF Setup, GetSecret, ReadCert, ReadCA, InjectCA, CertReady, Register, Done, Serve,
                Mount, Lead, Crash
  <2>5. CASE Configure
    BY <2>5 DEF Configure
  <2> QED
    BY <2>1, <2>2, <2>3, <2>4, <2>5, ZenonT(60) DEF OperatorNext, Step
<1> QED
  BY <1>1, OperatorInvariance, PartsRun, PTL DEF OperatorSpec, CertificateKept

\* No reader ever finds half a file, and none finds the binary without its
\* configuration, at any moment and after any loss of power (atomicWriteFile,
\* copyFile, run).
THEOREM InstallIsComplete == StartupSpec => []InstalledComplete
<1>1. InstallerInv => InstalledComplete
  <2> SUFFICES ASSUME InstallerInv PROVE InstalledComplete
    OBVIOUS
  <2>1. \A f \in I!Files : see[f] # Partial /\ Partial \notin disk[f]
    BY FileAssumption, Zenon DEF InstallerInv, InstallerTypes, Whole
  <2>2. \A f \in I!Files : see[f] \in disk[f]
    BY ZenonT(60) DEF InstallerInv, FilesInv
  <2>3. ASSUME env.journalled, disk["binary"] # {None}
        PROVE  None \notin disk["kubeconfig"] /\ None \notin disk["conf"] /\ confDir = "durable"
    BY <2>3, ZenonT(60) DEF InstallerInv, FilesInv, DirInv
  <2> QED
    BY <2>1, <2>2, <2>3 DEF InstalledComplete, I!InstalledComplete, I!Files
<1> QED
  BY <1>1, InstallerInvariance, PartsRun, PTL

\* Without an outage, whatever users, the plugin and the operator write and in
\* whatever order, every stored object could be written back as it is
\* (ValidateUpdate of the three webhooks, getPool, Allocate, Reconcile).
THEOREM StoredObjectsAdmissible == StartupSpec => []StoredIsAdmissible
<1>1. AdmissionInv => StoredIsAdmissible
  BY WriteBack DEF AdmissionInv, StoredIsAdmissible, A!StoredIsAdmissible, A!Admissible
<1> QED
  BY <1>1, AdmissionInvariance, PartsRun, PTL
=============================================================================
