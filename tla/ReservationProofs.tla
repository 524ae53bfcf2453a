------------------------- MODULE ReservationProofs --------------------------
(***************************************************************************)
(* With enable_overlapping_ranges an address is reserved cluster-wide by   *)
(* an object of its own, written after the entry of the pool and deleted   *)
(* after it.  While no request fails, no call is killed and no rollback    *)
(* loses its last attempt, the two correspond whenever no call is between  *)
(* the two writes (TInv), whatever the interleaving.                       *)
(***************************************************************************)
EXTENDS IPAMProofs

-----------------------------------------------------------------------------
(* The actions.                                                            *)

\* The runtime starts a call.
LEMMA StartTidy ==
  ASSUME DistinctPods, IInv, TInv, NEW b \in Attachments, AddStart(b) \/ DelStart(b)
  PROVE  TInv'
<1> DEFINE c == call[b]
           E == Entries(b, pools)
           R == Reserved(b, orips)
<1>1. Tidy(b, c, E, R)
  BY DEF TInv
<1>2. CASE AddStart(b)
  <2> PICK pref : Become(b, [Fresh EXCEPT !.pc = "read", !.pref = pref])
    BY <1>2, Zenon DEF AddStart
  <2> DEFINE d == [Fresh EXCEPT !.pc = "read", !.pref = pref]
  <2>1. call' = [call EXCEPT ![b] = d] /\ UNCHANGED <<pools, orips>> /\ c.pc = "absent"
    BY <1>2, Zenon DEF AddStart, At, Become
  <2>2. E = {} /\ R = {} /\ InRange(b, E)
    BY <1>1, <2>1 DEF Tidy, Returned, Matched, Ended
  <2>3. /\ d.pc = "read" /\ d.mode = "ADD" /\ d.commits = <<>> /\ d.results = <<>> /\ ~d.skip
    BY DEF Fresh
  <2> HIDE DEF c, d, E, R
  <2>4. Adding(b, d, E, R)
    BY <2>2, <2>3, NoSpots DEF Adding, Progress
  <2>5. Tidy(b, d, E, R)
    BY <2>2, <2>3, <2>4 DEF Tidy, Ended, Undoing, RollingBack
  <2> QED
    BY <2>1, <2>5, TidyLocal, Zenon DEF E, R
<1>3. CASE DelStart(b)
  <2> DEFINE n == c.dels + 1
             d == [Fresh EXCEPT !.pc = "read", !.mode = "DEL", !.dels = n]
  <2>1. call' = [call EXCEPT ![b] = d] /\ UNCHANGED <<pools, orips>> /\ c.pc \in Ended
    BY <1>3 DEF DelStart, Become, Ended
  <2>2. Matched(E, R) /\ InRange(b, E)
    BY <1>1, <2>1 DEF Tidy, Returned
  <2> HIDE DEF n
  <2>3. d.pc = "read" /\ d.mode = "DEL" /\ ~d.skip /\ d.pending = None
    BY DEF Fresh
  <2> HIDE DEF c, d, E, R
  <2>4. Deleting(b, d, E, R)
    BY <2>2, <2>3 DEF Deleting
  <2>5. Tidy(b, d, E, R)
    BY <2>2, <2>3, <2>4, Zenon DEF Tidy, Ended, Undoing, RollingBack
  <2> QED
    BY <2>1, <2>5, TidyLocal, ZenonT(60) DEF E, R
<1> QED
  BY <1>2, <1>3

\* A pool that is not there, and its creation.
LEMMA PoolMissingTidy ==
  ASSUME DistinctPods, IInv, TInv, NEW b \in Attachments, ReadMissing(b) \/ CreatePool(b)
  PROVE  TInv'
<1> DEFINE c == call[b]
           p == PoolOf(b, c.idx)
           E == Entries(b, pools)
           R == Reserved(b, orips)
<1>1. c \in Call /\ WellFormed(b, c) /\ p \in Pools /\ c.mode \in {"ADD", "DEL"}
  BY CallFacts DEF Call
<1>2. CASE ReadMissing(b)
  <2>1. c.pc = "read" /\ UNCHANGED <<pools, orips>>
    BY <1>2 DEF ReadMissing, At
  <2>2. CASE c.mode = "DEL"
    <3>1. call' = [call EXCEPT ![b] = NextRange(b, c)]
      BY <1>2, <2>2, Zenon DEF ReadMissing, Become
    <3>2. Steady(b, c, E, R)
      BY <2>1, <2>2, TidyDeleting, Zenon DEF Deleting, Steady
    <3>3. Tidy(b, NextRange(b, c), E, R)
      BY <1>1, <3>2, NextRangeTidy
    <3> QED
      BY <2>1, <3>1, <3>3, TidyLocal, Zenon
  <2>3. CASE c.mode = "ADD"
    <3> DEFINE d == [c EXCEPT !.pc = "create"]
    <3>1. call' = [call EXCEPT ![b] = d]
      BY <1>2, <2>3 DEF ReadMissing, Become
    <3>2. /\ d.pc = "create" /\ d.mode = "ADD" /\ d.skip = c.skip /\ d.commits = c.commits
          /\ d.dummies = c.dummies /\ d.results = c.results /\ d.exhausted = c.exhausted
      BY <1>1, <2>3, Zenon DEF Call
    <3>3. Adding(b, c, E, R) /\ InRange(b, E)
      BY <2>1, <2>3, TidyAdding, Zenon
    <3> HIDE DEF d, E, R
    <3>4. Adding(b, d, E, R)
      BY <2>1, <3>2, <3>3, Zenon DEF Adding, Progress
    <3>5. Tidy(b, d, E, R)
      BY <3>2, <3>3, <3>4 DEF Tidy, Ended, Undoing, RollingBack
    <3> QED
      BY <2>1, <3>1, <3>5, TidyLocal, ZenonT(60) DEF E, R
  <2> QED
    BY <1>1, <2>2, <2>3, Zenon
<1>3. CASE CreatePool(b)
  <2>1. /\ c.pc = "create" /\ UNCHANGED orips /\ call' = [call EXCEPT ![b] = NextAttempt(b, c, TRUE)]
        /\ pools' = pools \/ (pools[p].rv = 0 /\ pools' = [pools EXCEPT ![p].rv = 1])
    BY <1>3, Zenon DEF CreatePool, At, Become
  <2>2. c.mode = "ADD"
    BY <1>1, <2>1, Zenon DEF WellFormed
  <2>3. Steady(b, c, E, R)
    BY <2>1, <2>2, TidyAdding DEF Adding, Steady
  <2>4. Tidy(b, NextAttempt(b, c, TRUE), E, R)
    BY <1>1, <2>2, <2>3, RetryTidy, Zenon
  <2>5. pools' = pools \/ HolderStep(b, pools, pools')
    <3>1. CASE pools[p].rv = 0 /\ pools' = [pools EXCEPT ![p].rv = 1]
      BY <1>1, <3>1, CreateStep, Zenon DEF IInv
    <3> QED
      BY <2>1, <3>1, Zenon
  <2>6. Entries(b, pools') = E
    <3>1. CASE pools[p].rv = 0 /\ pools' = [pools EXCEPT ![p].rv = 1]
      <4>1. \A q \in Pools : pools'[q].alloc = pools[q].alloc
        BY <1>1, <3>1 DEF IInv, PoolsOK, Pool
      <4> QED
        BY <4>1 DEF Entries
    <3> QED
      BY <2>1, <3>1, Zenon
  <2>7. Owned(orips') /\ Reserved(b, orips') = R
    BY <2>1, Zenon DEF TInv
  <2> QED
    BY <2>1, <2>4, <2>5, <2>6, <2>7, TidyStep, Zenon
<1> QED
  BY <1>2, <1>3

\* A new address is neither recorded nor barred.
LEMMA AssignIPFree ==
  ASSUME NEW a \in Attachments, NEW p \in Pools, NEW alloc \in Allocations, NEW dummies, NEW pref,
         NEW ip \in AssignIP(a, p, alloc, dummies, pref), ip \notin HeldByRef(a, alloc)
  PROVE  ip \notin dummies
<1>1. ip \in Unreserved(alloc, dummies)
  <2>1. CASE HeldByRef(a, alloc) # {}
    BY <2>1 DEF AssignIP
  <2>2. CASE HeldByRef(a, alloc) = {}
    BY <2>2, ConfigAssumption, Zenon DEF AssignIP, FirstOf
  <2> QED
    BY <2>1, <2>2
<1> QED
  BY <1>1 DEF Unreserved

\* The pod interface holds an address of the pool only through this container.
LEMMA HeldIsEntry ==
  ASSUME DistinctPods, IInv, NEW b \in Attachments, NEW p \in Pools, NEW ip \in IPs
  PROVE  ip \in HeldByRef(b, pools[p].alloc) <=> <<p, ip>> \in Entries(b, pools)
<1>1. pools[p].alloc[ip] \in Attachments \cup {None}
  BY Zenon DEF IInv, PoolsOK, Pool, Allocations
<1>2. <<p, ip>> \in Entries(b, pools) <=> pools[p].alloc[ip] = b
  BY DEF Entries
<1> QED
  BY <1>1, <1>2, NoneAssumption DEF HeldByRef, DistinctPods

\* The pool is read for an ADD.
LEMMA ReadForAddTidy ==
  ASSUME OverlappingRanges, DistinctPods, IInv, TInv, NEW b \in Attachments, ReadForAdd(b)
  PROVE  TInv'
<1> DEFINE c == call[b]
           p == PoolOf(b, c.idx)
           pool == pools[p]
           picks == AssignIP(b, p, pool.alloc, c.dummies, c.pref)
           E == Entries(b, pools)
           R == Reserved(b, orips)
<1>1. c \in Call /\ p \in Pools /\ c.mode = "ADD" /\ c.pc = "read" /\ UNCHANGED <<pools, orips>>
  BY CallFacts, Zenon DEF ReadForAdd, At
<1>2. pool.alloc \in Allocations
  BY <1>1 DEF IInv, PoolsOK, Pool
<1>3. Adding(b, c, E, R) /\ InRange(b, E)
  BY <1>1, TidyAdding
<1>4. CASE Become(b, Fail(c))
  <2>1. Steady(b, c, E, R)
    BY <1>1, <1>3, Zenon DEF Adding, Steady
  <2>2. Tidy(b, Fail(c), E, R)
    BY <1>1, <2>1, FailTidy
  <2> QED
    BY <1>1, <1>4, <2>2, TidyLocal, Zenon DEF Become
<1>5. ASSUME NEW ip \in picks,
             Become(b, [c EXCEPT !.pc = IF OverlappingRanges THEN "getorip" ELSE "patch",
                                 !.snap = pool, !.ip = ip,
                                 !.created = ~AlreadyInPool(b, ip, pool.alloc)])
      PROVE  TInv'
  <2> DEFINE new == ~AlreadyInPool(b, ip, pool.alloc)
             d == [c EXCEPT !.pc = "getorip", !.snap = pool, !.ip = ip, !.created = new]
  <2>1. ip \in IPs
    BY <1>1, <1>2, AssignIPPicks, Zenon
  <2>2. new => ip \notin c.dummies
    BY <1>1, <1>2, AssignIPFree DEF AlreadyInPool
  <2>3. ~new => <<p, ip>> \in E
    BY <1>1, <2>1, HeldIsEntry, Zenon DEF AlreadyInPool
  <2>4. call' = [call EXCEPT ![b] = d]
    BY <1>5 DEF Become
  <2>5. new \in BOOLEAN
    BY DEF AlreadyInPool
  <2> HIDE DEF new, pool
  <2>6. /\ d.pc = "getorip" /\ d.mode = "ADD" /\ d.idx = c.idx /\ d.ip = ip /\ d.created = new
        /\ d.skip = c.skip /\ d.commits = c.commits /\ d.dummies = c.dummies
        /\ d.results = c.results /\ d.exhausted = c.exhausted
    BY <1>1, Zenon DEF Call
  <2>7. Here(b, d) = <<p, ip>>
    BY <2>6, Zenon DEF Here
  <2> HIDE DEF d, E, R
  <2>8. Adding(b, d, E, R)
    BY <1>1, <1>3, <2>2, <2>3, <2>5, <2>6, <2>7, ZenonT(60) DEF Adding, Progress
  <2>9. Tidy(b, d, E, R)
    BY <1>3, <2>6, <2>8 DEF Tidy, Ended, Undoing, RollingBack
  <2> QED
    BY <1>1, <2>4, <2>9, TidyLocal, Zenon DEF E, R
<1> QED
  BY <1>4, <1>5, Zenon DEF ReadForAdd

\* The pool is read for a DEL: an entry whose deletion is pending is still there.
LEMMA ReadForDelTidy ==
  ASSUME DistinctPods, IInv, TInv, NEW b \in Attachments, ReadForDel(b)
  PROVE  TInv'
<1> DEFINE c == call[b]
           p == PoolOf(b, c.idx)
           pool == pools[p]
           mine == DeallocateIP(b, pool.alloc)
           E == Entries(b, pools)
           R == Reserved(b, orips)
<1>1. c \in Call /\ p \in Pools /\ c.mode = "DEL" /\ c.pc = "read" /\ UNCHANGED <<pools, orips>>
  BY CallFacts, Zenon DEF ReadForDel, At
<1>2. Deleting(b, c, E, R) /\ InRange(b, E)
  BY <1>1, TidyDeleting, ZenonT(60)
<1>3. \A ip : ip \in mine <=> <<p, ip>> \in E
  BY <1>1 DEF DeallocateIP, Entries
<1>4. mine = {} => c.pending = None
  BY <1>1, <1>2, <1>3, Zenon DEF Deleting
<1>5. CASE Become(b, NextRange(b, c))
  <2>1. Steady(b, c, E, R)
    BY <1>1, <1>2 DEF Deleting, Steady
  <2>2. Tidy(b, NextRange(b, c), E, R)
    BY <1>1, <2>1, NextRangeTidy
  <2> QED
    BY <1>1, <1>5, <2>2, TidyLocal, Zenon DEF Become
<1>6. ASSUME NEW ip \in mine, Become(b, [c EXCEPT !.pc = "patch", !.snap = pool, !.ip = ip, !.pending = ip])
      PROVE  TInv'
  <2> DEFINE d == [c EXCEPT !.pc = "patch", !.snap = pool, !.ip = ip, !.pending = ip]
  <2>1. call' = [call EXCEPT ![b] = d]
    BY <1>6 DEF Become
  <2>2. /\ d.pc = "patch" /\ d.mode = "DEL" /\ d.idx = c.idx /\ d.ip = ip /\ d.pending = ip
        /\ d.skip = c.skip
    BY <1>1, Zenon DEF Call
  <2>3. <<PoolOf(b, d.idx), d.pending>> \in E
    BY <1>3, <1>6, <2>2, Zenon
  <2> HIDE DEF d, E, R
  <2>4. Deleting(b, d, E, R)
    BY <1>1, <1>2, <2>2, <2>3, Zenon DEF Deleting
  <2>5. Tidy(b, d, E, R)
    BY <1>2, <2>2, <2>4 DEF Tidy, Ended, Undoing, RollingBack
  <2> QED
    BY <1>1, <2>1, <2>5, TidyLocal, ZenonT(60) DEF E, R
<1> QED
  BY <1>4, <1>5, <1>6, Zenon DEF ReadForDel

\* The reservation of the address is looked up.
LEMMA GetOripTidy ==
  ASSUME OverlappingRanges, DistinctPods, IInv, TInv, NEW b \in Attachments, GetOrip(b)
  PROVE  TInv'
<1> DEFINE c == call[b]
           r == orips[c.ip]
           E == Entries(b, pools)
           R == Reserved(b, orips)
<1>1. c \in Call /\ c.mode = "ADD" /\ c.pc = "getorip" /\ c.ip \in IPs /\ UNCHANGED <<pools, orips>>
  BY CallFacts, Zenon DEF GetOrip, At, WellFormed, Attempting
<1>2. Adding(b, c, E, R) /\ InRange(b, E)
  BY <1>1, TidyAdding, ZenonT(60)
<1>3. /\ Progress(b, c, R) /\ E = Spots(b, c.commits) /\ ~c.skip /\ R = Addrs(b, c.commits)
      /\ c.created => c.ip \notin c.dummies
      /\ ~c.created => Here(b, c) \in E
  BY <1>1, <1>2 DEF Adding, Progress
<1>4. c.ip \in R <=> r # None /\ r.ref = Ref[b]
  BY <1>1 DEF Reserved
<1>5. c.ip \in R => r.uid = PodUID[b]
  BY <1>1, Zenon DEF TInv, Owned
<1>6. Matched(E, R)
  BY <1>1, <1>3, SpotsMatched DEF Progress, Call
<1>7. c.created <=> c.ip \notin R
  <2>1. R \subseteq c.dummies
    BY <1>3, Zenon DEF Progress, Addrs, Reals
  <2>2. Here(b, c) \in E => c.ip \in R
    BY <1>6 DEF Matched, Here
  <2> QED
    BY <1>3, <2>1, <2>2, Zenon
<1>8. ASSUME NEW d, Become(b, d), d.pc = "patch", d.mode = "ADD", d.idx = c.idx, d.ip = c.ip,
             d.created = c.created, d.skip <=> ~c.created, d.commits = c.commits,
             d.dummies = c.dummies, d.results = c.results, d.exhausted = c.exhausted
      PROVE  TInv'
  <2>1. Here(b, d) = Here(b, c)
    BY <1>8, Zenon DEF Here
  <2> HIDE DEF E, R
  <2>2. Adding(b, d, E, R)
    BY <1>3, <1>8, <2>1, Zenon DEF Adding, Progress
  <2>3. Tidy(b, d, E, R)
    BY <1>2, <1>8, <2>2 DEF Tidy, Ended, Undoing, RollingBack
  <2> QED
    BY <1>1, <1>8, <2>3, TidyLocal, ZenonT(60) DEF E, R, Become
<1>9. CASE r = None
  <2> DEFINE d == [c EXCEPT !.pc = "patch"]
  <2>1. Become(b, d)
    BY <1>9 DEF GetOrip
  <2>2. /\ d.pc = "patch" /\ d.mode = "ADD" /\ d.idx = c.idx /\ d.ip = c.ip /\ d.created = c.created
        /\ d.skip = c.skip /\ d.commits = c.commits /\ d.dummies = c.dummies
        /\ d.results = c.results /\ d.exhausted = c.exhausted
    BY <1>1, Zenon DEF Call
  <2>3. d.skip <=> ~c.created
    BY <1>3, <1>4, <1>7, <1>9, <2>2, Zenon
  <2> HIDE DEF d
  <2> QED
    BY <1>8, <2>1, <2>2, <2>3, Zenon
<1>10. CASE r # None /\ r.ref = Ref[b]
  <2> DEFINE d == [c EXCEPT !.pc = "patch", !.skip = TRUE]
  <2>1. ~StaleReservation(b, r)
    BY <1>4, <1>5, <1>10, Zenon DEF StaleReservation
  <2>2. Become(b, d)
    BY <1>10, <2>1 DEF GetOrip
  <2>3. /\ d.pc = "patch" /\ d.mode = "ADD" /\ d.idx = c.idx /\ d.ip = c.ip /\ d.created = c.created
        /\ d.skip /\ d.commits = c.commits /\ d.dummies = c.dummies
        /\ d.results = c.results /\ d.exhausted = c.exhausted
    BY <1>1, Zenon DEF Call
  <2>4. d.skip <=> ~c.created
    BY <1>4, <1>7, <1>10, <2>3, Zenon
  <2> HIDE DEF d
  <2> QED
    BY <1>8, <2>2, <2>3, <2>4, Zenon
<1>11. CASE r # None /\ r.ref # Ref[b]
  <2> DEFINE e == [c EXCEPT !.dummies = @ \cup {c.ip}]
  <2>1. call' = [call EXCEPT ![b] = NextAttempt(b, e, FALSE)]
    BY <1>11, Zenon DEF GetOrip, Become
  <2>2. c.dummies \cup {c.ip} \in SUBSET IPs
    BY <1>1, Zenon DEF Call
  <2>3. /\ e \in Call /\ e.mode = "ADD" /\ e.ip = c.ip /\ e.created = c.created /\ e.snap = c.snap
        /\ e.dummies = c.dummies \cup {c.ip} /\ e.commits = c.commits
        /\ e.results = c.results /\ e.exhausted = c.exhausted
    BY <1>1, <2>2, Zenon DEF Call
  <2>4. c.created
    BY <1>4, <1>7, <1>11, Zenon
  <2>5. c.snap.alloc[c.ip] # b
    <3>1. Snapshot(b, c, pools)
      BY CallFacts, Zenon
    <3>2. c.snap.alloc[c.ip] = None
      BY <1>1, <2>4, <3>1, ZenonT(60) DEF Snapshot, Attempting
    <3> QED
      BY <3>2, NoneAssumption
  <2> HIDE DEF e, E, R
  <2>6. Steady(b, e, E, R)
    BY <1>2, <1>3, <2>3 DEF Steady, Progress
  <2>7. Tidy(b, NextAttempt(b, e, FALSE), E, R)
    BY <1>1, <2>3, <2>4, <2>5, <2>6, TakenTidy, ZenonT(60)
  <2> QED
    BY <1>1, <2>1, <2>7, TidyLocal, Zenon DEF E, R
<1> QED
  BY <1>9, <1>10, <1>11, Zenon

\* An update that conflicts, or one that goes through.
LEMMA PatchTidy ==
  ASSUME OverlappingRanges, DistinctPods, IInv, TInv, NEW b \in Attachments, Patch(b)
  PROVE  TInv'
<1> DEFINE c == call[b]
           p == PoolOf(b, c.idx)
           m == InMemory(b, c)
           E == Entries(b, pools)
           F == Entries(b, pools')
           R == Reserved(b, orips)
<1>1. /\ c \in Call /\ c.pc = "patch" /\ c.ip \in IPs /\ p \in Pools /\ UNCHANGED orips
      /\ c.mode \in {"ADD", "DEL"} /\ c.idx \in RangeIdx(b)
  BY CallFacts, Zenon DEF Patch, At, WellFormed, Attempting, Call
<1>2. InRange(b, E)
  BY <1>1, TidyAdding, TidyDeleting
<1>3. CASE ~VersionMatches(p, c.snap)
  <2>1. UNCHANGED <<pools, orips>> /\ call' = [call EXCEPT ![b] = NextAttempt(b, c, TRUE)]
    BY <1>1, <1>3, Zenon DEF Patch, UpdatePool, Become
  <2>2. Steady(b, c, E, R) /\ (c.mode = "DEL" /\ c.pending # None => <<p, c.pending>> \in E)
    <3>1. CASE c.mode = "ADD"
      BY <1>1, <3>1, TidyAdding DEF Adding, Steady
    <3>2. CASE c.mode = "DEL"
      BY <1>1, <3>2, TidyDeleting, Zenon DEF Deleting, Steady
    <3> QED
      BY <1>1, <3>1, <3>2, ZenonT(60)
  <2>3. Tidy(b, NextAttempt(b, c, TRUE), E, R)
    BY <1>1, <2>2, RetryTidy, Zenon
  <2> QED
    BY <2>1, <2>3, TidyLocal, Zenon
<1>4. CASE VersionMatches(p, c.snap)
  <2>1. /\ UpdatePool(p, c.snap, NewAlloc(b, c)) /\ call' = [call EXCEPT ![b] = AfterPatch(b, m)]
    BY <1>4, ZenonT(60) DEF Patch, Become
  <2>2. /\ HolderStep(b, pools, pools') /\ m \in Call
        /\ m.mode = "ADD" /\ m.created => m.snap.alloc[m.ip] = b
    BY <1>1, <2>1, AttemptUpdate
  <2>3. /\ c.mode = "ADD" => F = E \cup {<<p, c.ip>>}
        /\ c.mode = "DEL" => F = E \ {<<p, c.ip>>}
    <3>1. c.snap = pools[p] /\ pools \in [Pools -> Pool]
      BY <1>1, <2>1, CallFacts, Zenon DEF Snapshot, Attempting, Clean, UpdatePool, VersionMatches,
         IInv, PoolsOK
    <3>2. /\ c.mode = "ADD" => pools' = Updated(pools, p, c.ip, b)
          /\ c.mode = "DEL" => pools' = Updated(pools, p, c.ip, None)
      BY <2>1, <3>1, Zenon DEF UpdatePool, NewAlloc, Updated, WithPool, WithEntry
    <3>3. pools[p].alloc \in Allocations
      BY <1>1, <3>1 DEF Pool
    <3>4. /\ Entries(b, Updated(pools, p, c.ip, b)) = Filled(E, p, c.ip)
          /\ Entries(b, Updated(pools, p, c.ip, None)) = Cleared(E, p, c.ip)
      BY <1>1, <3>1, <3>3, EntriesUpdate, Zenon
    <3> QED
      BY <3>2, <3>4, Zenon DEF Filled, Cleared
  <2>4. /\ m.mode = c.mode /\ m.idx = c.idx /\ m.ip = c.ip /\ m.created = c.created /\ m.skip = c.skip
        /\ m.commits = c.commits /\ m.dummies = c.dummies /\ m.results = c.results
        /\ m.exhausted = c.exhausted /\ m.pending = c.pending /\ m.pc = "patch"
    BY <1>1, Zenon DEF InMemory, Call
  <2> HIDE DEF m, E, F
  <2>5. InRange(b, F)
    <3>1. \A e \in F : e \in E \/ e = <<p, c.ip>>
      BY <1>1, <2>3, Zenon
    <3>2. <<p, c.ip>>[1] = PoolOf(b, c.idx)
      OBVIOUS
    <3> QED
      BY <1>1, <1>2, <3>1, <3>2, Zenon DEF InRange
  <2>6. ASSUME Tidy(b, AfterPatch(b, m), F, R) PROVE TInv'
    BY <1>1, <2>1, <2>2, <2>6, TidyStep, Zenon DEF TInv, F
  <2>7. CASE c.mode = "ADD" /\ c.created
    <3> DEFINE d == AfterPatch(b, m)
    <3>1. Adding(b, c, E, R)
      BY <1>1, <2>7, TidyAdding, Zenon DEF E
    <3>2. Progress(b, c, R) /\ E = Spots(b, c.commits) /\ c.ip \notin c.dummies /\ ~c.skip
      BY <1>1, <2>7, <3>1, Zenon DEF Adding
    <3>3. d = [m EXCEPT !.pc = "createorip"]
      BY <2>4, <2>7, <3>2, Zenon DEF AfterPatch
    <3>4. /\ d.pc = "createorip" /\ d.mode = "ADD" /\ d.idx = c.idx /\ d.ip = c.ip /\ d.created
          /\ d.snap = m.snap /\ d.commits = c.commits /\ d.dummies = c.dummies
          /\ d.results = c.results /\ d.exhausted = c.exhausted
      BY <2>2, <2>4, <2>7, <3>3, ZenonT(60) DEF Call
    <3>5. Here(b, d) = <<p, c.ip>> /\ d.snap.alloc[d.ip] = b
      BY <2>2, <2>4, <2>7, <3>4, Zenon DEF Here
    <3> HIDE DEF d
    <3>6. Adding(b, d, F, R)
      BY <2>3, <2>7, <3>2, <3>4, <3>5, ZenonT(60) DEF Adding, Progress
    <3>7. Tidy(b, d, F, R)
      BY <2>5, <3>4, <3>6, ZenonT(60) DEF Tidy, Ended, Undoing, RollingBack
    <3> QED
      BY <2>6, <3>7, Zenon DEF d
  <2>8. CASE c.mode = "ADD" /\ ~c.created
    <3>1. Adding(b, c, E, R)
      BY <1>1, <2>8, TidyAdding, Zenon DEF E
    <3>2. Progress(b, c, R) /\ E = Spots(b, c.commits) /\ <<p, c.ip>> \in E /\ c.skip
      BY <1>1, <2>8, <3>1, Zenon DEF Adding, Here
    <3>3. AfterPatch(b, m) = RangeDone(b, m, FALSE)
      BY <2>4, <3>2 DEF AfterPatch
    <3>4. Progress(b, m, R) /\ F = Spots(b, m.commits)
      BY <2>3, <2>4, <2>8, <3>2, ZenonT(60) DEF Progress
    <3>5. c.ip \in R
      BY <1>1, <3>2, SpotsMatched DEF Matched, Progress, Call
    <3>6. Tidy(b, RangeDone(b, m, FALSE), F, R)
      BY <1>1, <2>2, <2>4, <2>5, <2>8, <3>4, <3>5, RangeDoneTidy, ZenonT(60)
    <3> QED
      BY <2>6, <3>3, <3>6, Zenon
  <2>9. CASE c.mode = "DEL"
    <3> DEFINE d == AfterPatch(b, m)
    <3>1. Deleting(b, c, E, R)
      BY <1>1, <2>9, TidyDeleting, Zenon DEF E
    <3>2. Matched(E, R) /\ <<p, c.ip>> \in E /\ ~c.skip
      BY <1>1, <3>1, NoneAssumption, Zenon DEF Deleting
    <3>3. c.ip \in R /\ Matched(F, R \ {c.ip})
      BY <2>3, <2>9, <3>2 DEF Matched
    <3>4. d = [m EXCEPT !.pc = IF PodUID[b] = NoUID THEN "deldel" ELSE "delget"]
      BY <2>4, <2>9, <3>2, ZenonT(60) DEF AfterPatch
    <3>5. d.pc \in {"delget", "deldel"} /\ d.mode = "DEL" /\ d.ip = c.ip /\ ~d.skip
      BY <2>2, <2>4, <2>9, <3>2, <3>4, ZenonT(60) DEF Call
    <3> HIDE DEF d
    <3>6. Deleting(b, d, F, R)
      BY <3>3, <3>5, Zenon DEF Deleting
    <3>7. Tidy(b, d, F, R)
      BY <2>5, <3>5, <3>6, Zenon DEF Tidy, Ended, Undoing, RollingBack
    <3> QED
      BY <2>6, <3>7 DEF d
  <2> QED
    BY <1>1, <2>7, <2>8, <2>9, Zenon
<1> QED
  BY <1>3, <1>4

\* The reservation is made, or somebody else was first.
LEMMA CreateOripTidy ==
  ASSUME OverlappingRanges, DistinctPods, IInv, TInv, NEW b \in Attachments, CreateOrip(b)
  PROVE  TInv'
<1> DEFINE c == call[b]
           E == Entries(b, pools)
           R == Reserved(b, orips)
<1>1. /\ c \in Call /\ c.mode = "ADD" /\ c.pc = "createorip" /\ c.ip \in IPs /\ UNCHANGED pools
  BY CallFacts, ZenonT(60) DEF CreateOrip, At, WellFormed, Reserving
<1>2. Adding(b, c, E, R) /\ InRange(b, E)
  BY <1>1, TidyAdding, ZenonT(60)
<1>3. /\ Progress(b, c, R) /\ E = Spots(b, c.commits) \cup {Here(b, c)}
      /\ c.created /\ c.snap.alloc[c.ip] = b /\ c.ip \notin c.dummies
  BY <1>1, <1>2 DEF Adding
<1>4. CASE orips[c.ip] = None
  <2>1. /\ orips' = [orips EXCEPT ![c.ip] = [ref |-> Ref[b], uid |-> PodUID[b]]]
        /\ call' = [call EXCEPT ![b] = RangeDone(b, c, TRUE)]
    BY <1>4, Zenon DEF CreateOrip, Become
  <2>2. Tidy(b, RangeDone(b, c, TRUE), E, R \cup {c.ip})
    BY <1>1, <1>2, <1>3, RangeDoneTidy, Zenon
  <2> QED
    BY <1>1, <1>4, <2>1, <2>2, TidyReserve, Zenon
<1>5. CASE orips[c.ip] # None
  <2> DEFINE h == [idx |-> c.idx, ip |-> c.ip, pool |-> TRUE, orip |-> FALSE, snap |-> c.snap]
             d == [c EXCEPT !.pc = "rollback", !.rbq = <<h>>, !.then = "retry"]
  <2>1. UNCHANGED orips /\ call' = [call EXCEPT ![b] = OverlapUpdateFailed(b, c, TRUE)]
    BY <1>5, Zenon DEF CreateOrip, Become
  <2>2. OverlapUpdateFailed(b, c, TRUE) = d
    BY <1>1, <1>3 DEF OverlapUpdateFailed, StartRollback
  <2>3. h.pool /\ ~h.orip /\ Real(b, h) /\ h.ip = c.ip /\ Spot(b, h) = Here(b, c)
    BY <1>3, Zenon DEF Real, Spot, Here
  <2> HIDE DEF h
  <2>4. /\ d.pc = "rollback" /\ d.then = "retry" /\ d.rbq = <<h>> /\ d.commits = c.commits
        /\ d.dummies = c.dummies /\ d.results = c.results /\ d.exhausted = c.exhausted
    BY <1>1, Zenon DEF Call
  <2>5. <<h>> # <<>> /\ Head(<<h>>) = h /\ Tail(<<h>>) = <<>>
    OBVIOUS
  <2> HIDE DEF d, E, R
  <2>6. Progress(b, d, R)
    BY <1>3, <2>4, Zenon DEF Progress
  <2>7. Reverting(b, d, E, R)
    BY <1>3, <2>3, <2>4, <2>5, <2>6, Zenon DEF Reverting
  <2>8. Tidy(b, d, E, R)
    BY <1>2, <2>4, <2>7, Zenon DEF Tidy, Ended, Undoing
  <2> QED
    BY <1>1, <2>1, <2>2, <2>8, TidyLocal, Zenon DEF E, R
<1> QED
  BY <1>4, <1>5

\* A DEL deletes the reservation of the entry it removed, which is its own.
LEMMA DelOripTidy ==
  ASSUME DistinctPods, IInv, TInv, NEW b \in Attachments, DelGet(b) \/ DelDel(b)
  PROVE  TInv'
<1> DEFINE c == call[b]
           E == Entries(b, pools)
           R == Reserved(b, orips)
<1>1. c \in Call /\ c.mode = "DEL" /\ c.pc \in {"delget", "deldel"} /\ c.ip \in IPs /\ UNCHANGED pools
  BY CallFacts, Zenon DEF DelGet, DelDel, At, WellFormed, Reserving
<1>2. Deleting(b, c, E, R) /\ InRange(b, E)
  BY <1>1, TidyDeleting, ZenonT(60)
<1>3. c.ip \in R /\ Matched(E, R \ {c.ip}) /\ ~c.skip
  BY <1>1, <1>2 DEF Deleting
<1>4. CASE DelGet(b)
  <2> DEFINE d == [c EXCEPT !.pc = "deldel"]
  <2>1. ~UIDGuardSkips(orips[c.ip], PodUID[b])
    BY <1>1, <1>3 DEF UIDGuardSkips, TInv, Owned
  <2>2. call' = [call EXCEPT ![b] = d] /\ UNCHANGED <<pools, orips>>
    BY <1>4, <2>1, Zenon DEF DelGet, Become
  <2>3. d.pc = "deldel" /\ d.mode = "DEL" /\ d.ip = c.ip /\ d.skip = c.skip
    BY <1>1, Zenon DEF Call
  <2> HIDE DEF d, E, R
  <2>4. Deleting(b, d, E, R)
    BY <1>3, <2>3, Zenon DEF Deleting
  <2>5. Tidy(b, d, E, R)
    BY <1>2, <2>3, <2>4, Zenon DEF Tidy, Ended, Undoing, RollingBack
  <2> QED
    BY <2>2, <2>5, TidyLocal, ZenonT(60) DEF E, R
<1>5. CASE DelDel(b)
  <2>1. /\ call' = [call EXCEPT ![b] = NextRange(b, c)]
        /\ orips' = [orips EXCEPT ![c.ip] = None]
    BY <1>1, <1>5, Zenon DEF DelDel, DeleteOrip, Become, RangeDone
  <2>2. Steady(b, c, E, R \ {c.ip})
    BY <1>1, <1>2, <1>3, Zenon DEF Steady
  <2>3. Tidy(b, NextRange(b, c), E, R \ {c.ip})
    BY <1>1, <2>2, NextRangeTidy, Zenon
  <2> QED
    BY <1>1, <1>3, <2>1, <2>3, TidyRelease, Zenon
<1> QED
  BY <1>4, <1>5

\* The next commit is taken up; it is in the pool object in hand, or never was written.
LEMMA RollbackBeginTidy ==
  ASSUME DistinctPods, IInv, TInv, NEW b \in Attachments, RollbackBegin(b)
  PROVE  TInv'
<1> DEFINE c == call[b]
           h == Head(c.rbq)
           E == Entries(b, pools)
           R == Reserved(b, orips)
<1>1. c.pc = "rollback" /\ UNCHANGED <<pools, orips>> /\ c.pc \in Undoing
  BY Zenon DEF RollbackBegin, At, Undoing
<1>2. /\ c \in Call /\ InRange(b, E) /\ c.mode = "ADD"
      /\ Reverting(b, c, E, R) \/ Unwinding(b, c, E, R)
  BY <1>1, TidyUndoing
<1>3. ASSUME NEW d, Become(b, d), Tidy(b, d, E, R) PROVE TInv'
  BY <1>1, <1>3, TidyLocal, Zenon DEF Become
<1>4. CASE c.rbq = <<>> /\ Reverting(b, c, E, R)
  <2>1. Become(b, NextAttempt(b, c, TRUE))
    BY <1>4, ZenonT(60) DEF RollbackBegin, Reverting
  <2>2. Steady(b, c, E, R)
    BY <1>2, <1>4, Zenon DEF Reverting, Steady
  <2>3. Tidy(b, NextAttempt(b, c, TRUE), E, R)
    BY <1>2, <2>2, RetryTidy, Zenon
  <2> QED
    BY <1>3, <2>1, <2>3, Zenon
<1>5. CASE c.rbq = <<>> /\ Unwinding(b, c, E, R)
  <2>1. Become(b, Finish(c, "failed"))
    BY <1>5 DEF RollbackBegin, Unwinding
  <2>2. E = {} /\ R = {} /\ "failed" \in Ended
    BY <1>1, <1>5, NoSpots, Zenon DEF Unwinding, Ended
  <2>3. Matched(E, R)
    BY <2>2, Zenon DEF Matched
  <2>4. Tidy(b, Finish(c, "failed"), E, R)
    BY <1>2, <2>2, <2>3, FinishTidy, Zenon
  <2> QED
    BY <1>3, <2>1, <2>4, Zenon
<1>6. CASE c.rbq # <<>> /\ Reverting(b, c, E, R)
  <2> DEFINE d == [c EXCEPT !.pc = "rbpatch", !.snap = h.snap, !.ip = h.ip, !.rbtry = 1]
  <2>1. /\ Progress(b, c, R) /\ c.then = "retry" /\ Tail(c.rbq) = <<>> /\ h.pool /\ ~h.orip
        /\ Real(b, h) /\ h.ip \notin c.dummies /\ E = Spots(b, c.commits) \cup {Spot(b, h)}
    BY <1>6, Zenon DEF Reverting
  <2>2. Become(b, d)
    BY <1>6, <2>1, Zenon DEF RollbackBegin, Real
  <2>3. /\ d.pc = "rbpatch" /\ d.ip = h.ip /\ d.rbq = c.rbq /\ d.then = c.then /\ d.commits = c.commits
        /\ d.dummies = c.dummies /\ d.results = c.results /\ d.exhausted = c.exhausted
    BY <1>2, Zenon DEF Call
  <2> HIDE DEF d, E, R
  <2>4. Progress(b, d, R)
    BY <2>1, <2>3, Zenon DEF Progress
  <2>5. Reverting(b, d, E, R)
    BY <1>6, <2>1, <2>3, <2>4, ZenonT(60) DEF Reverting
  <2>6. Tidy(b, d, E, R)
    BY <1>2, <2>3, <2>5, Zenon DEF Tidy, Ended, Undoing, RollingBack
  <2> QED
    BY <1>3, <2>2, <2>6, Zenon
<1>7. CASE c.rbq # <<>> /\ Unwinding(b, c, E, R)
  <2>1. /\ Committed(b, c.rbq) /\ c.then = "failed" /\ R = Addrs(b, c.rbq) /\ E = Spots(b, c.rbq)
    BY <1>1, <1>7, Zenon DEF Unwinding
  <2>2. /\ h.pool
        /\ ~Real(b, h) => Spots(b, c.rbq) = Spots(b, Tail(c.rbq)) /\ Addrs(b, c.rbq) = Addrs(b, Tail(c.rbq))
    BY <1>2, <1>7, <2>1, TailSpots, ZenonT(60) DEF Call
  <2>3. CASE ~Real(b, h)
    <3>1. Become(b, RollbackNext(c))
      BY <1>7, <2>2, <2>3, Zenon DEF RollbackBegin, Real
    <3>2. Tidy(b, RollbackNext(c), E, R)
      BY <1>2, <1>7, <2>1, <2>2, <2>3, UnwindNext, ZenonT(60)
    <3> QED
      BY <1>3, <3>1, <3>2, Zenon
  <2>4. CASE Real(b, h)
    <3> DEFINE d == [c EXCEPT !.pc = "rbpatch", !.snap = h.snap, !.ip = h.ip, !.rbtry = 1]
    <3>1. Become(b, d)
      BY <1>7, <2>2, <2>4, Zenon DEF RollbackBegin, Real
    <3>2. d.pc = "rbpatch" /\ d.ip = h.ip /\ d.rbq = c.rbq /\ d.then = c.then
      BY <1>2, Zenon DEF Call
    <3> HIDE DEF d, E, R
    <3>3. Unwinding(b, d, E, R)
      BY <2>1, <2>4, <3>2, ZenonT(60) DEF Unwinding
    <3>4. Tidy(b, d, E, R)
      BY <1>2, <3>2, <3>3, Zenon DEF Tidy, Ended, Undoing, RollingBack
    <3> QED
      BY <1>3, <3>1, <3>4, Zenon
  <2> QED
    BY <2>3, <2>4, Zenon
<1> QED
  BY <1>2, <1>4, <1>5, <1>6, <1>7, Zenon

\* Where a rollback stands while it works on the entry of a commit.
LEMMA RollbackSpot ==
  ASSUME IInv, TInv, NEW b \in Attachments, call[b].pc \in {"rbread", "rbpatch"}
  PROVE  LET c == call[b]
             p == PoolOf(b, Head(c.rbq).idx)
         IN  /\ c \in Call /\ c.mode = "ADD" /\ c.rbq # <<>> /\ c.rbq \in Seq(Commit)
             /\ p \in Pools /\ c.ip \in IPs /\ c.ip = Head(c.rbq).ip /\ Real(b, Head(c.rbq))
             /\ Spot(b, Head(c.rbq)) = <<p, c.ip>>
             /\ <<p, c.ip>> \in Entries(b, pools)
<1> DEFINE c == call[b]
           h == Head(c.rbq)
           E == Entries(b, pools)
           R == Reserved(b, orips)
<1>1. /\ c \in Call /\ c.mode = "ADD" /\ c.ip \in IPs /\ c.rbq # <<>> /\ PoolOf(b, h.idx) \in Pools
  BY RollbackFacts, Zenon DEF RollingBack
<1>2. c.rbq \in Seq(Commit)
  BY <1>1, Zenon DEF Call
<1>3. c.pc \in Undoing /\ c.pc # "rollback" /\ c.pc \notin {"rboripget", "rboripdel"}
  BY DEF Undoing, RollingBack
<1>4. Reverting(b, c, E, R) \/ Unwinding(b, c, E, R)
  BY <1>3, TidyUndoing, Zenon
<1>5. c.ip = h.ip /\ Real(b, h) /\ Spot(b, h) \in E
  <2>1. CASE Reverting(b, c, E, R)
    BY <1>1, <1>3, <2>1, Zenon DEF Reverting
  <2>2. CASE Unwinding(b, c, E, R)
    <3>1. Committed(b, c.rbq) /\ c.ip = h.ip /\ Real(b, h) /\ E = Spots(b, c.rbq)
      BY <1>3, <2>2 DEF Unwinding
    <3>2. Spots(b, c.rbq) = Spots(b, Tail(c.rbq)) \cup {Spot(b, h)}
      BY <1>1, <1>2, <3>1, TailSpots, ZenonT(60)
    <3> QED
      BY <3>1, <3>2, Zenon
  <2> QED
    BY <1>4, <2>1, <2>2, Zenon
<1>6. Spot(b, h) = <<PoolOf(b, h.idx), c.ip>>
  BY <1>5 DEF Spot
<1> QED
  BY <1>1, <1>2, <1>5, <1>6, Zenon

\* Another attempt at the same commit.
LEMMA RollbackStays ==
  ASSUME IInv, TInv, NEW b \in Attachments, call[b].pc \in {"rbread", "rbpatch"}, NEW d,
         d.pc \in {"rbread", "rbpatch"}, d.ip = call[b].ip, d.rbq = call[b].rbq,
         d.then = call[b].then, d.commits = call[b].commits, d.dummies = call[b].dummies,
         d.results = call[b].results, d.exhausted = call[b].exhausted
  PROVE  Tidy(b, d, Entries(b, pools), Reserved(b, orips))
<1> DEFINE c == call[b]
           E == Entries(b, pools)
           R == Reserved(b, orips)
<1>1. c.pc \in Undoing /\ c.pc # "rollback" /\ c.pc \notin {"rboripget", "rboripdel"} /\ c.rbq # <<>>
  BY RollbackSpot, ZenonT(60) DEF Undoing, RollingBack
<1>2. InRange(b, E) /\ (Reverting(b, c, E, R) \/ Unwinding(b, c, E, R))
  BY <1>1, TidyUndoing
<1>3. d.pc \in Undoing /\ d.pc \notin Ended
  BY DEF Undoing, RollingBack, Ended
<1> HIDE DEF E, R
<1>4. CASE Reverting(b, c, E, R)
  <2>1. Progress(b, d, R)
    BY <1>4, Zenon DEF Reverting, Progress
  <2>2. Reverting(b, d, E, R)
    BY <1>1, <1>4, <2>1, Zenon DEF Reverting
  <2> QED
    BY <1>2, <1>3, <2>2, Zenon DEF Tidy, E, R
<1>5. CASE Unwinding(b, c, E, R)
  <2>1. Unwinding(b, d, E, R)
    BY <1>1, <1>5 DEF Unwinding
  <2> QED
    BY <1>2, <1>3, <2>1, ZenonT(60) DEF Tidy, E, R
<1> QED
  BY <1>2, <1>4, <1>5

\* The entry to be rolled back is still there when the pool is read again.
LEMMA RollbackReadTidy ==
  ASSUME DistinctPods, IInv, TInv, NEW b \in Attachments, RollbackRead(b)
  PROVE  TInv'
<1> DEFINE c == call[b]
           p == PoolOf(b, Head(c.rbq).idx)
           pool == pools[p]
           d == [c EXCEPT !.pc = "rbpatch", !.snap = pool]
<1>1. c.pc = "rbread" /\ UNCHANGED <<pools, orips>>
  BY Zenon DEF RollbackRead, At
<1>2. c \in Call /\ p \in Pools /\ c.ip \in IPs /\ <<p, c.ip>> \in Entries(b, pools)
  BY <1>1, RollbackSpot, Zenon
<1>3. pool.alloc[c.ip] = b
  BY <1>2, Zenon DEF Entries
<1>4. pool.rv > 0
  <2>1. pool.rv \in Nat /\ (pool.rv = 0 => pool = NoPool)
    BY <1>2, ZenonT(60) DEF IInv, PoolsOK, Pool
  <2>2. pool # NoPool
    BY <1>2, <1>3, NoneAssumption DEF NoPool, NoAlloc
  <2> QED
    BY <2>1, <2>2
<1>5. call' = [call EXCEPT ![b] = d]
  BY <1>3, <1>4, Zenon DEF RollbackRead, Become
<1>6. /\ d.pc = "rbpatch" /\ d.ip = c.ip /\ d.rbq = c.rbq /\ d.then = c.then /\ d.commits = c.commits
      /\ d.dummies = c.dummies /\ d.results = c.results /\ d.exhausted = c.exhausted
  BY <1>2, Zenon DEF Call
<1> HIDE DEF d
<1>7. Tidy(b, d, Entries(b, pools), Reserved(b, orips))
  BY <1>1, <1>6, RollbackStays
<1> QED
  BY <1>1, <1>5, <1>7, TidyLocal, ZenonT(60)

\* A rollback takes its entry out, or tries again; it does not run out of attempts.
LEMMA RollbackPatchTidy ==
  ASSUME DistinctPods, IInv, TInv, Undisturbed, NEW b \in Attachments, RollbackPatch(b)
  PROVE  TInv'
<1> DEFINE c == call[b]
           h == Head(c.rbq)
           p == PoolOf(b, h.idx)
           E == Entries(b, pools)
           F == Entries(b, pools')
           R == Reserved(b, orips)
<1>1. c.pc = "rbpatch" /\ UNCHANGED orips
  BY Zenon DEF RollbackPatch, At
<1>2. /\ c \in Call /\ c.mode = "ADD" /\ c.rbq # <<>> /\ c.rbq \in Seq(Commit)
      /\ p \in Pools /\ c.ip \in IPs /\ c.ip = h.ip /\ Real(b, h)
      /\ Spot(b, h) = <<p, c.ip>> /\ <<p, c.ip>> \in E
  BY <1>1, RollbackSpot
<1>3. CASE ~VersionMatches(p, c.snap)
  <2> DEFINE d == [c EXCEPT !.pc = "rbread", !.rbtry = @ + 1]
  <2>1. c.rbtry < RollbackRetries
    BY <1>1, <1>3 DEF Undisturbed
  <2>2. UNCHANGED <<pools, orips>> /\ call' = [call EXCEPT ![b] = RollbackAgain(c, "rbread")]
    BY <1>1, <1>3, Zenon DEF RollbackPatch, UpdatePool, Become
  <2>3. RollbackAgain(c, "rbread") = d
    BY <2>1, Zenon DEF RollbackAgain
  <2>4. /\ d.pc = "rbread" /\ d.ip = c.ip /\ d.rbq = c.rbq /\ d.then = c.then /\ d.commits = c.commits
        /\ d.dummies = c.dummies /\ d.results = c.results /\ d.exhausted = c.exhausted
    BY <1>2, Zenon DEF Call
  <2> HIDE DEF d
  <2>5. Tidy(b, d, E, R)
    BY <1>1, <2>4, RollbackStays
  <2> QED
    BY <2>2, <2>3, <2>5, TidyLocal, ZenonT(60)
<1>4. CASE VersionMatches(p, c.snap)
  <2>1. /\ UpdatePool(p, c.snap, [c.snap.alloc EXCEPT ![c.ip] = None])
        /\ call' = [call EXCEPT ![b] = RollbackOrip(b, c)]
    BY <1>4, Zenon DEF RollbackPatch, Become
  <2>2. HolderStep(b, pools, pools')
    BY <1>1, <2>1, RollbackUpdate
  <2>3. F = E \ {<<p, c.ip>>}
    <3>1. c.snap = pools[p] /\ pools \in [Pools -> Pool]
      <4>1. Snapshot(b, c, pools) /\ PoolsOK(pools) /\ c.snap \in Pool
        BY <1>2, CallFacts, ZenonT(60) DEF IInv, Call
      <4>2. pools[p].rv = c.snap.rv /\ c.snap.rv \in Nat /\ pools \in [Pools -> Pool]
        BY <2>1, <4>1, Zenon DEF UpdatePool, VersionMatches, PoolsOK, Pool
      <4>3. c.snap.rv < pools[p].rv \/ Clean(c.snap, pools[p])
        BY <1>1, <4>1, Zenon DEF Snapshot
      <4> QED
        BY <4>2, <4>3 DEF Clean
    <3>2. pools' = Updated(pools, p, c.ip, None)
      BY <2>1, <3>1, Zenon DEF UpdatePool, Updated, WithPool, WithEntry
    <3>3. p \in Pools /\ c.ip \in IPs /\ pools[p].alloc \in Allocations
      BY <1>2, <3>1, Zenon DEF Pool
    <3>4. Entries(b, Updated(pools, p, c.ip, None)) = Cleared(E, p, c.ip)
      BY <3>1, <3>3, EntriesUpdate, Zenon
    <3> QED
      BY <3>2, <3>4, ZenonT(60) DEF Cleared
  <2>4. c.pc \in Undoing /\ c.pc # "rollback" /\ c.pc \notin {"rboripget", "rboripdel"}
    BY <1>1 DEF Undoing, RollingBack
  <2>5. InRange(b, E) /\ (Reverting(b, c, E, R) \/ Unwinding(b, c, E, R))
    BY <2>4, TidyUndoing, Zenon
  <2> HIDE DEF E, F
  <2>6. InRange(b, F)
    BY <2>3, <2>5, Zenon DEF InRange
  <2>7. ASSUME Tidy(b, RollbackOrip(b, c), F, R) PROVE TInv'
    BY <1>1, <2>1, <2>2, <2>7, TidyStep, Zenon DEF TInv, F
  <2>8. CASE Reverting(b, c, E, R)
    <3> DEFINE d == RollbackNext(c)
    <3>1. /\ Progress(b, c, R) /\ c.then = "retry" /\ Tail(c.rbq) = <<>> /\ ~h.orip
          /\ h.ip \notin c.dummies /\ E = Spots(b, c.commits) \cup {Spot(b, h)}
      BY <1>2, <2>8, Zenon DEF Reverting
    <3>2. RollbackOrip(b, c) = d
      BY <3>1, Zenon DEF RollbackOrip
    <3>3. /\ d.pc = "rollback" /\ d.rbq = <<>> /\ d.then = c.then /\ d.commits = c.commits
          /\ d.dummies = c.dummies /\ d.results = c.results /\ d.exhausted = c.exhausted
      BY <1>2, <3>1, Zenon DEF RollbackNext, Call
    <3>4. Spot(b, h) \notin Spots(b, c.commits)
      BY <3>1, Zenon DEF Spots, Spot, Progress, Reals
    <3>5. F = Spots(b, c.commits)
      BY <1>2, <2>3, <3>1, <3>4, Zenon
    <3> HIDE DEF d
    <3>6. Progress(b, d, R)
      BY <3>1, <3>3, Zenon DEF Progress
    <3>7. Reverting(b, d, F, R)
      BY <3>1, <3>3, <3>5, <3>6, ZenonT(60) DEF Reverting
    <3>8. Tidy(b, d, F, R)
      BY <2>6, <3>3, <3>7, ZenonT(60) DEF Tidy, Ended, Undoing
    <3> QED
      BY <2>7, <3>2, <3>8, Zenon
  <2>9. CASE Unwinding(b, c, E, R)
    <3> DEFINE d == RollbackOrip(b, c)
    <3>1. /\ Committed(b, c.rbq) /\ c.then = "failed" /\ R = Addrs(b, c.rbq) /\ E = Spots(b, c.rbq)
      BY <2>4, <2>9, Zenon DEF Unwinding
    <3>2. /\ h.orip /\ h.ip \notin Addrs(b, Tail(c.rbq)) /\ Tail(c.rbq) \in Seq(Commit)
          /\ Spots(b, c.rbq) = Spots(b, Tail(c.rbq)) \cup {Spot(b, h)}
      BY <1>2, <3>1, TailSpots, ZenonT(60)
    <3>3. Spot(b, h) \notin Spots(b, Tail(c.rbq))
      BY <3>2, Zenon DEF Spots, Addrs, Spot
    <3>4. F = Spots(b, Tail(c.rbq))
      BY <1>2, <2>3, <3>1, <3>2, <3>3, Zenon
    <3>5. /\ d.pc \in {"rboripget", "rboripdel"} /\ d.rbq = c.rbq /\ d.then = "failed" /\ d.ip = h.ip
      BY <1>2, <3>1, <3>2 DEF RollbackOrip, Call
    <3> HIDE DEF d
    <3>6. Unwinding(b, d, F, R)
      BY <1>2, <3>1, <3>4, <3>5, ZenonT(60) DEF Unwinding
    <3>7. Tidy(b, d, F, R)
      BY <2>6, <3>5, <3>6, ZenonT(60) DEF Tidy, Ended, Undoing, RollingBack
    <3> QED
      BY <2>7, <3>7, Zenon DEF d
  <2> QED
    BY <2>5, <2>8, <2>9
<1> QED
  BY <1>3, <1>4

\* A rollback deletes the reservation of the commit it undoes, which is its own.
LEMMA RollbackOripTidy ==
  ASSUME DistinctPods, IInv, TInv, NEW b \in Attachments, RollbackOripGet(b) \/ RollbackOripDel(b)
  PROVE  TInv'
<1> DEFINE c == call[b]
           h == Head(c.rbq)
           E == Entries(b, pools)
           R == Reserved(b, orips)
<1>1. c.pc \in {"rboripget", "rboripdel"} /\ UNCHANGED pools
  BY DEF RollbackOripGet, RollbackOripDel, At
<1>2. c.pc \in Undoing /\ c.pc \in RollingBack
  BY <1>1 DEF Undoing, RollingBack
<1>3. c \in Call /\ c.ip \in IPs /\ c.rbq # <<>> /\ c.rbq \in Seq(Commit)
  BY <1>2, RollbackFacts, ZenonT(60) DEF Call
<1>4. InRange(b, E) /\ Unwinding(b, c, E, R)
  BY <1>1, <1>2, TidyUndoing, ZenonT(60) DEF Reverting
<1>5. /\ Committed(b, c.rbq) /\ c.then = "failed" /\ Real(b, h) /\ c.ip = h.ip
      /\ R = Addrs(b, c.rbq) /\ E = Spots(b, Tail(c.rbq))
  BY <1>1, <1>4, ZenonT(60) DEF Unwinding
<1>6. Addrs(b, c.rbq) = Addrs(b, Tail(c.rbq)) \cup {h.ip} /\ h.ip \notin Addrs(b, Tail(c.rbq))
  BY <1>3, <1>5, TailSpots, ZenonT(60)
<1>7. c.ip \in R /\ R \ {c.ip} = Addrs(b, Tail(c.rbq))
  BY <1>5, <1>6, Zenon
<1>8. CASE RollbackOripGet(b)
  <2> DEFINE d == [c EXCEPT !.pc = "rboripdel"]
  <2>1. ~UIDGuardSkips(orips[c.ip], PodUID[b])
    BY <1>3, <1>7 DEF UIDGuardSkips, TInv, Owned
  <2>2. call' = [call EXCEPT ![b] = d] /\ UNCHANGED <<pools, orips>>
    BY <1>8, <2>1, Zenon DEF RollbackOripGet, Become
  <2>3. d.pc = "rboripdel" /\ d.ip = c.ip /\ d.rbq = c.rbq /\ d.then = c.then
    BY <1>3, Zenon DEF Call
  <2> HIDE DEF d, E, R
  <2>4. Unwinding(b, d, E, R)
    BY <1>5, <2>3, ZenonT(60) DEF Unwinding
  <2>5. Tidy(b, d, E, R)
    BY <1>4, <2>3, <2>4, Zenon DEF Tidy, Ended, Undoing, RollingBack
  <2> QED
    BY <2>2, <2>5, TidyLocal, Zenon DEF E, R
<1>9. CASE RollbackOripDel(b)
  <2>1. /\ call' = [call EXCEPT ![b] = RollbackNext(c)]
        /\ orips' = [orips EXCEPT ![c.ip] = None]
    BY <1>9, Zenon DEF RollbackOripDel, DeleteOrip, Become
  <2>2. Tidy(b, RollbackNext(c), E, R \ {c.ip})
    BY <1>3, <1>4, <1>5, <1>7, UnwindNext, ZenonT(60)
  <2> QED
    BY <1>1, <1>7, <2>1, <2>2, TidyRelease, Zenon
<1> QED
  BY <1>8, <1>9
-----------------------------------------------------------------------------
(* The theorems.                                                           *)

\* No call, no entry, no reservation.
LEMMA InitTidy == Init => TInv
<1> SUFFICES ASSUME Init PROVE TInv
  OBVIOUS
<1>1. \A ip \in IPs : orips[ip] = None
  BY DEF Init
<1>2. \A a \in Attachments : Reserved(a, orips) = {}
  BY <1>1 DEF Reserved
<1>3. \A a \in Attachments : Entries(a, pools) = {}
  BY NoneAssumption, ZenonT(60) DEF Init, Entries, NoPool, NoAlloc
<1>4. ASSUME NEW a \in Attachments PROVE Tidy(a, call[a], {}, {})
  <2>1. call[a].pc = "absent"
    BY DEF Init, Fresh
  <2> QED
    BY <2>1, ZenonT(60) DEF Tidy, Returned, Matched, InRange, Ended, Undoing, RollingBack
<1> QED
  BY <1>2, <1>3, <1>4, Zenon DEF TInv, Owned

\* One step per action: without failures no reservation is stale, and no
\* rollback gives up.
LEMMA NextTidy ==
  ASSUME OverlappingRanges, DistinctPods, IInv, TInv, Undisturbed, Undisturbed', [Next]_vars
  PROVE  TInv'
<1>1. CASE UNCHANGED vars
  <2>1. pools' = pools /\ orips' = orips /\ call' = call
    BY <1>1 DEF vars
  <2> QED
    BY <2>1, Zenon DEF TInv
<1>2. ASSUME NEW b \in Attachments, Fault(b) PROVE FALSE
  BY <1>2 DEF Fault, RequestFails, ReplyLost, Crash, Undisturbed
<1>3. ASSUME NEW b \in Attachments, StaleGet(b) \/ StaleDel(b) PROVE FALSE
  <2>1. call[b].pc \in {"staleget", "staledel"}
    BY <1>3 DEF StaleGet, StaleDel, At
  <2>2. call[b].mode = "ADD"
    BY <2>1, CallFacts, Zenon DEF WellFormed
  <2> QED
    BY <2>1, <2>2, TidyAdding, ZenonT(60) DEF Adding
<1>4. CASE Next
  <2> PICK b \in Attachments : AddStart(b) \/ DelStart(b) \/ Step(b) \/ Fault(b)
    BY <1>4, Zenon DEF Next
  <2>1. CASE AddStart(b) \/ DelStart(b)
    BY <2>1, StartTidy
  <2>2. CASE Step(b)
    BY <1>3, <2>2, PoolMissingTidy, ReadForAddTidy, ReadForDelTidy, GetOripTidy, PatchTidy,
       CreateOripTidy, DelOripTidy, RollbackBeginTidy, RollbackReadTidy, RollbackPatchTidy,
       RollbackOripTidy, ZenonT(60) DEF Step
  <2> QED
    BY <1>2, <2>1, <2>2, Zenon
<1> QED
  BY <1>1, <1>4

\* Under enable_overlapping_ranges, while calls of different pods are not
\* disturbed, entries and reservations correspond: R is what E holds, except
\* between the two writes of IPManagementKubernetesUpdate.
THEOREM Tidiness ==
  ASSUME OverlappingRanges, DistinctPods
  PROVE  Spec /\ []Undisturbed => []TInv
<1>1. IInv /\ TInv /\ Undisturbed /\ Undisturbed' /\ [Next]_vars => TInv'
  BY NextTidy, Zenon
<1> QED
  BY <1>1, InitTidy, Invariance, PTL DEF Spec

\* What an attachment that is up reports is reserved for it.
LEMMA UpReserved ==
  ASSUME IInv, TInv, NoneExhausted, NEW a \in Attachments, call[a].pc = "up",
         NEW i \in DOMAIN call[a].results
  PROVE  /\ call[a].results[i] \in IPs
         /\ orips[call[a].results[i]] # None /\ orips[call[a].results[i]].ref = Ref[a]
<1>1. Tidy(a, call[a], Entries(a, pools), Reserved(a, orips)) /\ ~call[a].exhausted
  BY DEF TInv, NoneExhausted
<1>2. call[a].results[i] \in Reserved(a, orips)
  BY <1>1, Zenon DEF Tidy, Returned, Ended
<1> QED
  BY <1>2, Zenon DEF Reserved

\* An address that is up is reserved for its pod interface (UpdateOverlappingRangeAllocation),
\* unless an ADD returned one of a range that ran out of attempts.
THEOREM Reservations ==
  ASSUME OverlappingRanges, DistinctPods
  PROVE  Spec /\ []Undisturbed => [](NoneExhausted => UpIsReserved)
<1>1. IInv /\ TInv => (NoneExhausted => UpIsReserved)
  BY UpReserved, ZenonT(60) DEF UpIsReserved
<1> QED
  BY <1>1, Tidiness, Invariance, PTL

\* Two pods that are up do not share an address, even across overlapping pools:
\* both reservations would have the name of that address.
THEOREM NoDuplicates ==
  ASSUME OverlappingRanges, DistinctPods
  PROVE  Spec /\ []Undisturbed => [](NoneExhausted => NoDuplicateIP)
<1>1. IInv /\ TInv => (NoneExhausted => NoDuplicateIP)
  BY UpReserved DEF NoDuplicateIP
<1> QED
  BY <1>1, Tidiness, Invariance, PTL

\* No entry, no reservation.
LEMMA NothingReserved ==
  ASSUME TInv, NEW a \in Attachments, call[a].pc \in Ended, Entries(a, pools) = {}
  PROVE  \A ip \in IPs : orips[ip] # None => orips[ip].ref # Ref[a]
<1>1. Matched(Entries(a, pools), Reserved(a, orips))
  BY ZenonT(60) DEF TInv, Tidy, Returned
<1>2. Reserved(a, orips) = {}
  BY <1>1 DEF Matched
<1> QED
  BY <1>2 DEF Reserved

\* rollbackCommitted leaves neither entries nor reservations of a failed ADD.
THEOREM Rollbacks ==
  ASSUME OverlappingRanges, DistinctPods
  PROVE  Spec /\ []Undisturbed => []FailedLeavesNothing
<1>1. TInv => FailedLeavesNothing
  <2> SUFFICES ASSUME TInv, NEW a \in Attachments, call[a].pc = "failed"
               PROVE  /\ \A p \in Pools, ip \in IPs : pools[p].alloc[ip] # a
                      /\ \A ip \in IPs : orips[ip] # None => orips[ip].ref # Ref[a]
    BY Zenon DEF FailedLeavesNothing
  <2>1. Entries(a, pools) = {} /\ call[a].pc \in Ended
    BY ZenonT(60) DEF TInv, Tidy, Returned, Ended
  <2>2. \A p \in Pools, ip \in IPs : pools[p].alloc[ip] # a
    <3> SUFFICES ASSUME NEW p \in Pools, NEW ip \in IPs PROVE pools[p].alloc[ip] # a
      OBVIOUS
    <3>1. <<p, ip>> \notin Entries(a, pools)
      BY <2>1
    <3> QED
      BY <3>1, Zenon DEF Entries
  <2> QED
    BY <2>1, <2>2, NothingReserved, Zenon
<1> QED
  BY <1>1, Tidiness, PTL

\* A DEL that succeeded leaves no reservation of its pod interface: the entries
\* are gone, and with each of them went its reservation.
THEOREM DelUnreserves ==
  ASSUME OverlappingRanges, DistinctPods
  PROVE  Spec /\ []Undisturbed => []GoneIsUnreserved
<1>1. IInv /\ TInv => GoneIsUnreserved
  <2> SUFFICES ASSUME IInv, TInv, NEW a \in Attachments, call[a].pc = "gone"
               PROVE  \A ip \in IPs : orips[ip] # None => orips[ip].ref # Ref[a]
    BY Zenon DEF GoneIsUnreserved
  <2>1. call[a].mode = "DEL" /\ Released(a, call[a], pools)
    BY CallFacts, ZenonT(60) DEF WellFormed
  <2>2. \A i \in RangeIdx(a), ip \in IPs : pools[PoolOf(a, i)].alloc[ip] # a
    BY <2>1 DEF Released, FreeOf
  <2>3. InRange(a, Entries(a, pools)) /\ call[a].pc \in Ended
    BY ZenonT(60) DEF TInv, Tidy, Ended
  <2>4. Entries(a, pools) = {}
    BY <2>2, <2>3 DEF InRange, Entries
  <2> QED
    BY <2>3, <2>4, NothingReserved, Zenon
<1> QED
  BY <1>1, Tidiness, Invariance, PTL
=============================================================================
