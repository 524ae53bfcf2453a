----------------------------- MODULE IPAMProofs -----------------------------
(***************************************************************************)
(* Every step of IPAM preserves the invariant; the theorems that follow    *)
(* from it alone, and the refinement of Allocator.                         *)
(***************************************************************************)
EXTENDS IPAMLemmas

-----------------------------------------------------------------------------
(* The actions of an attempt.                                              *)

\* No call runs and no pool exists at first.
LEMMA InitInv == Init => IInv
<1> SUFFICES ASSUME Init PROVE IInv
  OBVIOUS
<1>1. PoolsOK(pools)
  BY FreshType DEF Init, PoolsOK
<1>2. ASSUME NEW a \in Attachments PROVE RecOK(a, Fresh, pools)
  <2>1. WellFormed(a, Fresh)
    <3>1. Fresh.pc = "absent" /\ Fresh.idx = 1 /\ Fresh.commits = <<>> /\ Fresh.rbq = <<>>
      BY DEF Fresh
    <3>2. DOMAIN Fresh.commits = {} /\ DOMAIN Fresh.rbq = {} /\ Fresh.idx \in RangeIdx(a)
      BY <3>1, FirstRange
    <3>3. "absent" \notin Attempting \cup Reserving
      BY DEF Attempting, Reserving
    <3>4. "absent" \notin RollingBack /\ "absent" # "rbread"
      BY DEF RollingBack
    <3>5. "absent" \notin {"up", "failed", "create", "getorip", "staleget", "staledel",
                           "createorip", "rollback"}
      OBVIOUS
    <3>6. "absent" \notin {"gone", "delfailed", "delget", "deldel"}
      OBVIOUS
    <3> QED
      BY <3>1, <3>2, <3>3, <3>4, <3>5, <3>6, Zenon DEF WellFormed
  <2>2. Snapshot(a, Fresh, pools) /\ Released(a, Fresh, pools)
    BY SMT, SMTT(60) DEF Snapshot, Released, Fresh, Attempting
  <2> QED
    BY <2>1, <2>2, FreshType, Zenon DEF RecOK
<1>3. OneIPPerInterface
  BY Zenon DEF Init, OneIPPerInterface, NoPool, NoAlloc
<1> QED
  BY <1>1, <1>2, <1>3, FreshType DEF Init, IInv

\* cmdAdd begins with the first range and nothing committed.
LEMMA AddStartInv ==
  ASSUME IInv, NEW b \in Attachments, AddStart(b)
  PROVE  IInv'
<1> PICK pref \in {Preferred[b], None} : Become(b, [Fresh EXCEPT !.pc = "read", !.pref = pref])
  BY Zenon DEF AddStart
<1> DEFINE d == [Fresh EXCEPT !.pc = "read", !.pref = pref]
<1>1. pref \in Address
  BY ConfigAssumption DEF Address
<1>2. d \in Call
  BY <1>1, FreshType, Zenon DEF Call, Pc
<1>3. d.pc = "read" /\ d.mode = "ADD" /\ d.idx = 1 /\ d.commits = <<>> /\ d.rbq = <<>>
  BY DEF Fresh
<1>4. call' = [call EXCEPT ![b] = d]
  BY DEF Become
<1> HIDE DEF d
<1>5. RecOK(b, d, pools)
  BY <1>2, <1>3, FirstRange, PlainOK DEF Base
<1> QED
  BY <1>4, <1>5, LocalInv, Zenon DEF AddStart, IInv

\* cmdDel begins with the first range, no range released yet.
LEMMA DelStartInv ==
  ASSUME IInv, NEW b \in Attachments, DelStart(b)
  PROVE  IInv'
<1> DEFINE n == call[b].dels + 1
           d == [Fresh EXCEPT !.pc = "read", !.mode = "DEL", !.dels = n]
<1>1. n \in Nat
  BY CallFacts, SMT, SMTT(60) DEF Call
<1>2. call' = [call EXCEPT ![b] = d]
  BY DEF DelStart, Become
<1> HIDE DEF n
<1>3. d \in Call
  BY <1>1, FreshType, Zenon DEF Call, Pc
<1>4. d.pc = "read" /\ d.mode = "DEL" /\ d.idx = 1 /\ d.commits = <<>> /\ d.rbq = <<>>
  BY DEF Fresh
<1> HIDE DEF d
<1>5. Base(b, d, pools)
  BY <1>4, FirstRange, SMT, SMTT(60) DEF Base, RangeIdx
<1>6. RecOK(b, d, pools)
  BY <1>3, <1>4, <1>5, PlainOK, Zenon
<1> QED
  BY <1>2, <1>6, LocalInv, Zenon DEF DelStart, IInv

\* A missing pool is created by ADD and skipped by DEL.
LEMMA ReadMissingInv ==
  ASSUME IInv, NEW b \in Attachments, ReadMissing(b)
  PROVE  IInv'
<1> DEFINE c == call[b]
<1>1. c \in Call /\ Base(b, c, pools) /\ PoolOf(b, c.idx) \in Pools
  BY CallFacts
<1>2. CASE c.mode = "DEL"
  <2>1. FreeOf(b, PoolOf(b, c.idx), pools)
    BY <1>1, NoneAssumption DEF ReadMissing, IInv, PoolsOK, NoPool, NoAlloc, FreeOf
  <2>2. call' = [call EXCEPT ![b] = NextRange(b, c)]
    BY <1>2, Zenon DEF ReadMissing, Become
  <2>3. RecOK(b, NextRange(b, c), pools)
    BY <1>1, <2>1, NextRangeOK, Zenon
  <2> QED
    BY <2>2, <2>3, LocalInv, Zenon DEF ReadMissing, IInv
<1>3. CASE c.mode # "DEL"
  <2> DEFINE d == [c EXCEPT !.pc = "create"]
  <2>1. call' = [call EXCEPT ![b] = d]
    BY <1>3 DEF ReadMissing, Become
  <2>2. d \in Call
    BY <1>1, ZenonT(60) DEF Call, Pc
  <2>3. /\ d.pc = "create" /\ d.mode = "ADD" /\ d.idx = c.idx
        /\ d.commits = c.commits /\ d.rbq = c.rbq
    BY <1>1, <1>3 DEF Call
  <2> HIDE DEF d
  <2>4. Base(b, d, pools)
    BY <1>1, <2>3 DEF Base
  <2>5. RecOK(b, d, pools)
    BY <2>2, <2>3, <2>4, PlainOK, Zenon
  <2> QED
    BY <2>1, <2>5, LocalInv, Zenon DEF ReadMissing, IInv
<1> QED
  BY <1>2, <1>3

\* Creating a pool adds no entry; a concurrent creation is a retry.
LEMMA CreatePoolInv ==
  ASSUME IInv, NEW b \in Attachments, CreatePool(b)
  PROVE  IInv'
<1> DEFINE c == call[b]
           p == PoolOf(b, c.idx)
           d == NextAttempt(b, c, TRUE)
<1>1. c \in Call /\ Base(b, c, pools) /\ p \in Pools /\ c.mode = "ADD"
  BY CallFacts DEF CreatePool, At, WellFormed
<1>2. PoolsOK(pools') /\ Later(pools, pools') /\ HolderStep(b, pools, pools')
  <2>1. CASE pools[p].rv = 0
    BY <1>1, <2>1, CreateStep, Zenon DEF CreatePool, IInv
  <2>2. CASE pools[p].rv # 0
    BY <2>2, KeepStep DEF CreatePool, IInv
  <2> QED
    BY <2>1, <2>2
<1>3. Base(b, c, pools')
  BY <1>1, <1>2, BaseFrame DEF IInv
<1>4. RecOK(b, d, pools')
  BY <1>1, <1>3, NextAttemptOK, Zenon
<1>5. call' = [call EXCEPT ![b] = d]
  BY DEF CreatePool, Become
<1> HIDE DEF d
<1> QED
  BY <1>2, <1>4, <1>5, StepInv, Zenon DEF CreatePool, IInv

\* AssignIP decides on the pool just read.
LEMMA ReadForAddInv ==
  ASSUME IInv, NEW b \in Attachments, ReadForAdd(b)
  PROVE  IInv'
<1> DEFINE c == call[b]
           p == PoolOf(b, c.idx)
           pool == pools[p]
           picks == AssignIP(b, p, pool.alloc, c.dummies, c.pref)
<1>1. c \in Call /\ Base(b, c, pools) /\ p \in Pools /\ c.mode = "ADD"
  BY CallFacts, Zenon DEF ReadForAdd
<1>2. pool \in Pool /\ pool.alloc \in Allocations
  BY <1>1 DEF IInv, PoolsOK, Pool
<1>3. CASE Become(b, Fail(c))
  <2>1. RecOK(b, Fail(c), pools)
    BY <1>1, FailOK
  <2>2. call' = [call EXCEPT ![b] = Fail(c)]
    BY <1>3 DEF Become
  <2> QED
    BY <2>1, <2>2, LocalInv, Zenon DEF ReadForAdd, IInv
<1>4. ASSUME NEW ip \in picks,
             Become(b, [c EXCEPT !.pc = IF OverlappingRanges THEN "getorip" ELSE "patch",
                                 !.snap = pool, !.ip = ip,
                                 !.created = ~AlreadyInPool(b, ip, pool.alloc)])
      PROVE  IInv'
  <2> DEFINE pc == IF OverlappingRanges THEN "getorip" ELSE "patch"
             new == ~AlreadyInPool(b, ip, pool.alloc)
             d == [c EXCEPT !.pc = pc, !.snap = pool, !.ip = ip, !.created = new]
  <2>1. ip \in IPs /\ (new => pool.alloc[ip] = None /\ HeldByRef(b, pool.alloc) = {})
    BY <1>1, <1>2, AssignIPPicks, Zenon DEF AlreadyInPool
  <2>2. ip \in Address /\ new \in BOOLEAN /\ pc \in Pc /\ pc \in Attempting
    BY <2>1, Zenon DEF Address, Pc, Attempting
  <2>3. call' = [call EXCEPT ![b] = d]
    BY <1>4, Zenon DEF Become
  <2>4. ~new => ip \in HeldByRef(b, pool.alloc)
    BY DEF AlreadyInPool
  <2> HIDE DEF pc, new, pool
  <2>5. d \in Call
    BY <1>1, <1>2, <2>2, Zenon DEF Call
  <2>6. /\ d.pc = pc /\ d.mode = "ADD" /\ d.idx = c.idx /\ d.ip = ip /\ d.snap = pool
        /\ d.created = new /\ d.commits = c.commits /\ d.rbq = c.rbq
    BY <1>1, Zenon DEF Call
  <2> HIDE DEF d
  <2>7. Base(b, d, pools)
    BY <1>1, <2>6, Zenon DEF Base
  <2>8. Clean(pool, pools[p])
    BY <1>2 DEF Clean, pool, Pool
  <2>9. RecOK(b, d, pools)
    BY <2>1, <2>2, <2>4, <2>5, <2>6, <2>7, <2>8, AttemptOK, ZenonT(60)
  <2> QED
    BY <2>3, <2>9, LocalInv, Zenon DEF ReadForAdd, IInv
<1> QED
  BY <1>3, <1>4, Zenon DEF ReadForAdd

\* DeallocateIP finds the only entry of the attachment, or there is none.
LEMMA ReadForDelInv ==
  ASSUME IInv, NEW b \in Attachments, ReadForDel(b)
  PROVE  IInv'
<1> DEFINE c == call[b]
           p == PoolOf(b, c.idx)
           pool == pools[p]
           mine == DeallocateIP(b, pool.alloc)
           pendingPc == IF PodUID[b] = NoUID THEN "deldel" ELSE "delget"
<1>1. c \in Call /\ Base(b, c, pools) /\ p \in Pools /\ c.mode = "DEL" /\ c.pending \in Address
  BY CallFacts, Zenon DEF ReadForDel, Call
<1>2. pool \in Pool /\ pool.alloc \in Allocations
  BY <1>1, Zenon DEF IInv, PoolsOK, Pool
<1>3. mine = {} => FreeOf(b, p, pools)
  BY DEF DeallocateIP, FreeOf
<1>4. ASSUME NEW ip \in mine,
             Become(b, [c EXCEPT !.pc = "patch", !.snap = pool, !.ip = ip, !.pending = ip])
      PROVE  IInv'
  <2> DEFINE d == [c EXCEPT !.pc = "patch", !.snap = pool, !.ip = ip, !.pending = ip]
  <2>1. ip \in IPs /\ pool.alloc[ip] = b /\ ip \in Address
    BY DEF DeallocateIP, Address
  <2>2. call' = [call EXCEPT ![b] = d]
    BY <1>4 DEF Become
  <2> HIDE DEF pool
  <2>3. d \in Call
    BY <1>1, <1>2, <2>1, ZenonT(60) DEF Call, Pc
  <2>4. /\ d.pc = "patch" /\ d.mode = "DEL" /\ d.idx = c.idx /\ d.ip = ip /\ d.snap = pool
        /\ d.commits = c.commits /\ d.rbq = c.rbq
    BY <1>1 DEF Call
  <2> HIDE DEF d
  <2>5. Base(b, d, pools)
    BY <1>1, <2>4 DEF Base
  <2>6. Clean(pool, pools[p])
    BY <1>2, SMT, Zenon DEF Clean, pool, Pool
  <2>7. RecOK(b, d, pools)
    BY <2>1, <2>3, <2>4, <2>5, <2>6, AttemptOK, Zenon DEF Attempting
  <2> QED
    BY <2>2, <2>7, LocalInv, Zenon DEF ReadForDel, IInv
<1>5. ASSUME mine = {}, c.pending # None, Become(b, [c EXCEPT !.pc = pendingPc, !.ip = c.pending])
      PROVE  IInv'
  <2> DEFINE d == [c EXCEPT !.pc = pendingPc, !.ip = c.pending]
  <2>1. pendingPc \in {"deldel", "delget"} /\ pendingPc \in Pc /\ c.pending \in IPs
    BY <1>1, <1>5 DEF Pc, Address
  <2>2. call' = [call EXCEPT ![b] = d]
    BY <1>5 DEF Become
  <2> HIDE DEF pendingPc
  <2>3. d \in Call
    BY <1>1, <2>1, Zenon DEF Call
  <2>4. /\ d.pc = pendingPc /\ d.mode = "DEL" /\ d.idx = c.idx /\ d.ip = c.pending
        /\ d.commits = c.commits /\ d.rbq = c.rbq
    BY <1>1 DEF Call
  <2> HIDE DEF d
  <2>5. WellFormed(b, d) /\ Snapshot(b, d, pools)
    BY <1>1, <2>1, <2>4, Zenon DEF WellFormed, Snapshot, Base, Attempting, Reserving, RollingBack
  <2>6. Released(b, d, pools)
    BY <1>1, <1>3, <1>5, <2>1, <2>4, Zenon DEF Released, Base
  <2>7. RecOK(b, d, pools)
    BY <2>3, <2>5, <2>6 DEF RecOK
  <2> QED
    BY <2>2, <2>7, LocalInv, Zenon DEF ReadForDel, IInv
<1>6. CASE mine = {} /\ Become(b, NextRange(b, c))
  <2>1. RecOK(b, NextRange(b, c), pools)
    BY <1>1, <1>3, <1>6, NextRangeOK, Zenon
  <2>2. call' = [call EXCEPT ![b] = NextRange(b, c)]
    BY <1>6 DEF Become
  <2> QED
    BY <2>1, <2>2, LocalInv, Zenon DEF ReadForDel, IInv
<1> QED
  BY <1>4, <1>5, <1>6, Zenon DEF ReadForDel

\* The reservation checks move the attempt on, with pool object and decision.
LEMMA GetOripInv ==
  ASSUME IInv, NEW b \in Attachments, GetOrip(b)
  PROVE  IInv'
<1> DEFINE c == call[b]
           r == orips[c.ip]
<1>1. /\ c \in Call /\ RecOK(b, c, pools) /\ Base(b, c, pools) /\ Snapshot(b, c, pools)
      /\ c.pc = "getorip" /\ c.mode = "ADD" /\ c.ip \in IPs
  BY CallFacts, Zenon DEF GetOrip, At, WellFormed, Attempting
<1>2. r \in Reservation \cup {None} /\ (r # None => r.uid \in UIDs \cup {NoUID})
  BY <1>1 DEF IInv, Reservation
<1>3. ASSUME NEW d \in Call, Become(b, d), d.pc \in Attempting,
             d.mode = c.mode, d.idx = c.idx, d.ip = c.ip, d.snap = c.snap,
             d.created = c.created, d.commits = c.commits, d.rbq = c.rbq
      PROVE  IInv'
  <2>1. RecOK(b, d, pools)
    BY <1>1, <1>3, AttemptNextOK, Zenon DEF Attempting
  <2>2. call' = [call EXCEPT ![b] = d]
    BY <1>3, Zenon DEF Become
  <2> QED
    BY <2>1, <2>2, LocalInv, Zenon DEF GetOrip, IInv
<1>4. CASE Become(b, [c EXCEPT !.pc = "patch"])
  <2> DEFINE d == [c EXCEPT !.pc = "patch"]
  <2>1. d \in Call
    BY <1>1, Zenon DEF Call, Pc
  <2>2. /\ d.pc = "patch" /\ d.mode = c.mode /\ d.idx = c.idx /\ d.ip = c.ip /\ d.snap = c.snap
        /\ d.created = c.created /\ d.commits = c.commits /\ d.rbq = c.rbq
    BY <1>1, Zenon DEF Call
  <2>3. Become(b, d)
    BY <1>4, Zenon
  <2> HIDE DEF d
  <2> QED
    BY <1>3, <2>1, <2>2, <2>3, Zenon DEF Attempting
<1>5. CASE r # None /\ Become(b, [c EXCEPT !.pc = "staleget", !.uid = r.uid])
  <2> DEFINE d == [c EXCEPT !.pc = "staleget", !.uid = r.uid]
  <2>1. d \in Call
    BY <1>1, <1>2, <1>5, Zenon DEF Call, Pc
  <2>2. /\ d.pc = "staleget" /\ d.mode = c.mode /\ d.idx = c.idx /\ d.ip = c.ip /\ d.snap = c.snap
        /\ d.created = c.created /\ d.commits = c.commits /\ d.rbq = c.rbq
    BY <1>1 DEF Call
  <2>3. Become(b, d)
    BY <1>5, Zenon
  <2> HIDE DEF d
  <2> QED
    BY <1>3, <2>1, <2>2, <2>3, Zenon DEF Attempting
<1>6. CASE Become(b, [c EXCEPT !.pc = "patch", !.skip = TRUE])
  <2> DEFINE d == [c EXCEPT !.pc = "patch", !.skip = TRUE]
  <2>1. d \in Call
    BY <1>1, Zenon DEF Call, Pc
  <2>2. /\ d.pc = "patch" /\ d.mode = c.mode /\ d.idx = c.idx /\ d.ip = c.ip /\ d.snap = c.snap
        /\ d.created = c.created /\ d.commits = c.commits /\ d.rbq = c.rbq
    BY <1>1 DEF Call
  <2>3. Become(b, d)
    BY <1>6
  <2> HIDE DEF d
  <2> QED
    BY <1>3, <2>1, <2>2, <2>3 DEF Attempting
<1>7. CASE Become(b, NextAttempt(b, [c EXCEPT !.dummies = @ \cup {c.ip}], FALSE))
  <2> DEFINE s == c.dummies \cup {c.ip}
             e == [c EXCEPT !.dummies = s]
             d == NextAttempt(b, e, FALSE)
  <2>1. s \in SUBSET IPs
    BY <1>1, Zenon DEF Call
  <2>2. call' = [call EXCEPT ![b] = d]
    BY <1>7 DEF Become
  <2> HIDE DEF s
  <2>3. e \in Call
    BY <1>1, <2>1, Zenon DEF Call
  <2>4. /\ e.idx = c.idx /\ e.commits = c.commits /\ e.rbq = c.rbq /\ e.mode = c.mode
        /\ e.ip = c.ip /\ e.created = c.created /\ e.snap = c.snap
    BY <1>1, Zenon DEF Call
  <2> HIDE DEF e
  <2>5. Base(b, e, pools)
    BY <1>1, <2>4, Zenon DEF Base
  <2>6. c.created => c.snap.alloc[c.ip] = None
    BY <1>1, Zenon DEF Snapshot, Attempting
  <2>7. Committable(b, e, pools)
    BY <1>1, <2>4, <2>6, NoneAssumption, Zenon DEF Committable
  <2>8. RecOK(b, d, pools)
    BY <2>3, <2>5, <2>7, NextAttemptOK, Zenon
  <2> HIDE DEF d
  <2> QED
    BY <2>2, <2>8, LocalInv, Zenon DEF GetOrip, IInv
<1> QED
  BY <1>4, <1>5, <1>6, <1>7, Zenon DEF GetOrip

\* Deleting a stale reservation touches no pool.
LEMMA StaleInv ==
  ASSUME IInv, NEW b \in Attachments, StaleGet(b) \/ StaleDel(b)
  PROVE  IInv'
<1> DEFINE c == call[b]
<1>1. /\ c \in Call /\ RecOK(b, c, pools) /\ c.pc \in {"staleget", "staledel"}
      /\ c.mode = "ADD" /\ c.ip \in IPs
  BY CallFacts DEF StaleGet, StaleDel, At, WellFormed, Attempting
<1>2. PICK pc \in {"patch", "staledel"} : call' = [call EXCEPT ![b] = [c EXCEPT !.pc = pc]]
  BY DEF StaleGet, StaleDel, Become
<1> DEFINE d == [c EXCEPT !.pc = pc]
<1>3. d \in Call
  BY <1>1, Zenon DEF Call, Pc
<1>4. /\ d.pc = pc /\ d.mode = c.mode /\ d.idx = c.idx /\ d.ip = c.ip /\ d.snap = c.snap
      /\ d.created = c.created /\ d.commits = c.commits /\ d.rbq = c.rbq
  BY <1>1 DEF Call
<1>5. call' = [call EXCEPT ![b] = d]
  BY <1>2, Zenon
<1> HIDE DEF d
<1>6. RecOK(b, d, pools)
  BY <1>1, <1>3, <1>4, AttemptNextOK DEF Attempting
<1>7. orips' \in [IPs -> Reservation \cup {None}] /\ faults' \in Nat /\ UNCHANGED pools
  BY <1>1, OripTypes, Zenon DEF StaleGet, StaleDel, IInv
<1> QED
  BY <1>5, <1>6, <1>7, LocalInv, Zenon

\* Update changes the pool that was decided on, or conflicts.
LEMMA PatchInv ==
  ASSUME IInv, NEW b \in Attachments, Patch(b)
  PROVE  IInv'
<1> DEFINE c == call[b]
           p == PoolOf(b, c.idx)
<1>1. c \in Call /\ Base(b, c, pools) /\ c.pc = "patch"
  BY CallFacts, Zenon DEF Patch, At
<1>2. CASE UpdatePool(p, c.snap, NewAlloc(b, c)) /\ Become(b, AfterPatch(b, InMemory(b, c)))
  <2> DEFINE d == InMemory(b, c)
             e == AfterPatch(b, d)
  <2>1. /\ PoolsOK(pools') /\ Later(pools, pools') /\ HolderStep(b, pools, pools')
        /\ d \in Call /\ Base(b, d, pools') /\ Committable(b, d, pools')
        /\ d.ip \in IPs /\ (d.mode = "ADD" /\ d.created => d.snap.alloc[d.ip] = b)
    BY <1>1, <1>2, AttemptUpdate, Zenon
  <2>2. call' = [call EXCEPT ![b] = e]
    BY <1>2 DEF Become
  <2> HIDE DEF d
  <2>3. RecOK(b, e, pools')
    BY <2>1, AfterPatchOK, Zenon
  <2> HIDE DEF e
  <2> QED
    BY <2>1, <2>2, <2>3, StepInv, Zenon DEF Patch, IInv
<1>3. CASE Become(b, NextAttempt(b, c, TRUE)) /\ UNCHANGED pools
  <2>1. RecOK(b, NextAttempt(b, c, TRUE), pools)
    BY <1>1, NextAttemptOK, Zenon
  <2>2. call' = [call EXCEPT ![b] = NextAttempt(b, c, TRUE)]
    BY <1>3 DEF Become
  <2> QED
    BY <1>3, <2>1, <2>2, LocalInv, Zenon DEF Patch, IInv
<1> QED
  BY <1>2, <1>3, Zenon DEF Patch

\* Creating the reservation ends the range or starts a rollback.
LEMMA CreateOripInv ==
  ASSUME IInv, NEW b \in Attachments, CreateOrip(b)
  PROVE  IInv'
<1> DEFINE c == call[b]
<1>1. /\ c \in Call /\ Base(b, c, pools) /\ c.ip \in IPs /\ c.mode = "ADD"
      /\ c.created => c.snap.rv < pools[PoolOf(b, c.idx)].rv
  BY CallFacts, Zenon DEF CreateOrip, At, WellFormed, Snapshot, Reserving
<1>2. RecOK(b, RangeDone(b, c, TRUE), pools)
  BY <1>1, RangeDoneOK, Zenon DEF Committable
<1>3. RecOK(b, OverlapUpdateFailed(b, c, TRUE), pools)
  BY <1>1, OverlapUpdateFailedOK, Zenon
<1>4. orips' \in [IPs -> Reservation \cup {None}]
  BY <1>1, OripTypes, Zenon DEF CreateOrip, IInv
<1>5. PICK d \in {RangeDone(b, c, TRUE), OverlapUpdateFailed(b, c, TRUE)} :
        call' = [call EXCEPT ![b] = d]
  BY Zenon DEF CreateOrip, Become
<1> QED
  BY <1>2, <1>3, <1>4, <1>5, LocalInv, Zenon DEF CreateOrip, IInv

\* Deleting the reservation of a DEL ends the range.
LEMMA DelOripInv ==
  ASSUME IInv, NEW b \in Attachments, DelGet(b) \/ DelDel(b)
  PROVE  IInv'
<1> DEFINE c == call[b]
<1>1. /\ c \in Call /\ Base(b, c, pools) /\ c.ip \in IPs /\ c.mode = "DEL"
      /\ c.pc \in {"delget", "deldel"} /\ c.idx \in RangeIdx(b) /\ Released(b, c, pools)
  BY CallFacts, Zenon DEF DelGet, DelDel, At, WellFormed, Reserving
<1>2. FreeOf(b, PoolOf(b, c.idx), pools)
  BY <1>1 DEF Released
<1>3. RecOK(b, RangeDone(b, c, FALSE), pools)
  BY <1>1, <1>2, RangeDoneOK, Zenon DEF Committable
<1> DEFINE e == [c EXCEPT !.pc = "deldel"]
<1>4. RecOK(b, e, pools)
  <2>1. e \in Call
    BY <1>1, Zenon DEF Call, Pc
  <2>2. /\ e.pc = "deldel" /\ e.mode = "DEL" /\ e.idx = c.idx /\ e.ip = c.ip
        /\ e.commits = c.commits /\ e.rbq = c.rbq
    BY <1>1 DEF Call
  <2> HIDE DEF e
  <2>3. WellFormed(b, e) /\ Snapshot(b, e, pools)
    BY <1>1, <2>2, Zenon DEF WellFormed, Snapshot, Base, Attempting, Reserving, RollingBack
  <2>4. Released(b, e, pools)
    BY <1>1, <1>2, <2>2, Zenon DEF Released, Base
  <2> QED
    BY <2>1, <2>3, <2>4 DEF RecOK
<1>5. PICK d \in {RangeDone(b, c, FALSE), e} : call' = [call EXCEPT ![b] = d]
  BY Zenon DEF DelGet, DelDel, Become
<1>6. orips' \in [IPs -> Reservation \cup {None}] /\ faults' \in Nat /\ UNCHANGED pools
  BY <1>1, OripTypes, Zenon DEF DelGet, DelDel, IInv
<1> HIDE DEF e
<1> QED
  BY <1>3, <1>4, <1>5, <1>6, LocalInv, Zenon
-----------------------------------------------------------------------------
(* Rollbacks and failures.                                                 *)

\* rollbackCommitted begins with the pool object of the commit.
LEMMA RollbackBeginInv ==
  ASSUME IInv, NEW b \in Attachments, RollbackBegin(b)
  PROVE  IInv'
<1> DEFINE c == call[b]
           h == Head(c.rbq)
<1>1. c \in Call /\ Base(b, c, pools) /\ c.mode = "ADD" /\ c.rbq \in Seq(Commit)
  BY CallFacts, Zenon DEF RollbackBegin, At, WellFormed, Call
<1>2. c.rbq # <<>> => h \in Commit /\ h.ip \in IPs /\ h.snap \in Pool
  <2>1. c.rbq # <<>> => h \in Commit
    BY <1>1
  <2> QED
    BY <2>1 DEF Commit
<1>3. c.rbq # <<>> => h.idx \in RangeIdx(b) /\ Outdated(b, h, pools)
  <2>1. c.rbq # <<>> => 1 \in DOMAIN c.rbq /\ h = c.rbq[1]
    BY <1>1
  <2> QED
    BY <1>1, <2>1, Zenon DEF Base
<1>4. ASSUME NEW d, RecOK(b, d, pools), Become(b, d)
      PROVE  IInv'
  BY <1>4, LocalInv, Zenon DEF RollbackBegin, Become, IInv
<1>5. CASE Become(b, NextAttempt(b, c, TRUE))
  BY <1>1, <1>4, <1>5, NextAttemptOK, Zenon
<1>6. CASE Become(b, Fail(c))
  BY <1>1, <1>4, <1>6, FailOK, Zenon
<1>7. CASE Become(b, Finish(c, "failed"))
  BY <1>1, <1>4, <1>7, FinishOK, Zenon DEF Ended
<1>8. CASE c.rbq # <<>> /\ Become(b, RollbackOrip(b, [c EXCEPT !.ip = h.ip]))
  <2> DEFINE e == [c EXCEPT !.ip = h.ip]
  <2>0. h.ip \in Address
    BY <1>2, <1>8 DEF Address
  <2>1. e \in Call
    BY <1>1, <2>0, Zenon DEF Call
  <2>2. /\ e.mode = "ADD" /\ e.idx = c.idx /\ e.ip = h.ip
        /\ e.commits = c.commits /\ e.rbq = c.rbq
    BY <1>1 DEF Call
  <2>3. Become(b, RollbackOrip(b, e))
    BY <1>8, Zenon
  <2> HIDE DEF e
  <2>4. Base(b, e, pools)
    BY <1>1, <2>2, Zenon DEF Base
  <2>5. RecOK(b, RollbackOrip(b, e), pools)
    BY <1>2, <1>8, <2>1, <2>2, <2>4, RollbackOripOK, Zenon
  <2> QED
    BY <1>4, <2>3, <2>5, Zenon
<1>9. CASE c.rbq # <<>> /\ Become(b, RollbackNext(c))
  BY <1>1, <1>4, <1>9, RollbackNextOK
<1>10. CASE /\ c.rbq # <<>> /\ h.pool /\ h.snap.alloc[h.ip] = b
            /\ Become(b, [c EXCEPT !.pc = "rbpatch", !.snap = h.snap, !.ip = h.ip, !.rbtry = 1])
  <2> DEFINE d == [c EXCEPT !.pc = "rbpatch", !.snap = h.snap, !.ip = h.ip, !.rbtry = 1]
  <2>0. h.ip \in Address
    BY <1>2, <1>10 DEF Address
  <2>1. d \in Call
    BY <1>1, <1>2, <1>10, <2>0, Zenon DEF Call, Pc
  <2>2. /\ d.pc = "rbpatch" /\ d.mode = "ADD" /\ d.idx = c.idx /\ d.ip = h.ip /\ d.snap = h.snap
        /\ d.rbtry = 1 /\ d.commits = c.commits /\ d.rbq = c.rbq
    BY <1>1 DEF Call
  <2>3. Become(b, d)
    BY <1>10, Zenon
  <2> HIDE DEF d
  <2>4. d.rbtry > 0
    BY <2>2
  <2>5. WellFormed(b, d) /\ Released(b, d, pools)
    BY <1>1, <1>2, <1>10, <2>2, <2>4, Zenon
    DEF WellFormed, Released, Base, Attempting, Reserving, RollingBack
  <2>6. h.snap.rv < pools[PoolOf(b, h.idx)].rv
    BY <1>3, <1>10, Zenon DEF Outdated
  <2>7. Snapshot(b, d, pools)
    BY <1>1, <1>10, <2>2, <2>6, Zenon DEF Snapshot, Base, Attempting
  <2> QED
    BY <1>4, <2>1, <2>3, <2>5, <2>7, ZenonT(60) DEF RecOK
<1> QED
  BY <1>5, <1>6, <1>7, <1>8, <1>9, <1>10, Zenon DEF RollbackBegin

\* A repeated rollback attempt decides on the pool it reads again.
LEMMA RollbackReadInv ==
  ASSUME IInv, NEW b \in Attachments, RollbackRead(b)
  PROVE  IInv'
<1> DEFINE c == call[b]
           p == PoolOf(b, Head(c.rbq).idx)
           pool == pools[p]
<1>1. /\ c \in Call /\ Base(b, c, pools) /\ c.mode = "ADD" /\ c.ip \in IPs /\ c.rbq # <<>>
      /\ c.rbtry \in Nat /\ p \in Pools
  BY RollbackFacts, Zenon DEF RollbackRead, At, RollingBack
<1>2. c.rbtry > 1
  BY CallFacts, Zenon DEF RollbackRead, At, WellFormed
<1>3. pool \in Pool
  BY <1>1 DEF IInv, PoolsOK
<1>4. CASE pool.alloc[c.ip] = b /\ Become(b, [c EXCEPT !.pc = "rbpatch", !.snap = pool])
  <2> DEFINE d == [c EXCEPT !.pc = "rbpatch", !.snap = pool]
  <2>1. call' = [call EXCEPT ![b] = d]
    BY <1>4 DEF Become
  <2>2. d \in Call
    BY <1>1, <1>3, Zenon DEF Call, Pc
  <2>3. /\ d.pc = "rbpatch" /\ d.mode = "ADD" /\ d.idx = c.idx /\ d.ip = c.ip /\ d.snap = pool
        /\ d.rbtry = c.rbtry /\ d.commits = c.commits /\ d.rbq = c.rbq
    BY <1>1, Zenon DEF Call
  <2>4. Clean(pool, pool)
    BY <1>3 DEF Clean, Pool
  <2> HIDE DEF d
  <2>5. WellFormed(b, d) /\ Released(b, d, pools)
    <3>1. Released(b, d, pools)
      BY <2>3 DEF Released
    <3>2. /\ d.idx \in RangeIdx(b) /\ d.rbq # <<>> /\ d.ip \in IPs
          /\ \A k \in DOMAIN d.commits : d.commits[k].idx \in RangeIdx(b)
          /\ \A k \in DOMAIN d.rbq : d.rbq[k].idx \in RangeIdx(b)
      BY <1>1, <2>3, Zenon DEF Base
    <3>3. d.rbtry > 0
      BY <1>1, <1>2, <2>3
    <3> QED
      BY <2>3, <3>1, <3>2, <3>3 DEF WellFormed
  <2>6. Snapshot(b, d, pools)
    <3>1. /\ \A k \in DOMAIN d.commits : Outdated(b, d.commits[k], pools)
          /\ \A k \in DOMAIN d.rbq : Outdated(b, d.rbq[k], pools)
      BY <1>1, <2>3, Zenon DEF Base
    <3>2. d.rbtry # 1
      BY <1>1, <1>2, <2>3
    <3>4. d.snap.alloc[d.ip] = b /\ Clean(d.snap, pools[PoolOf(b, Head(d.rbq).idx)])
      BY <1>4, <2>3, <2>4, Zenon
    <3>3. d.pc \notin Attempting /\ d.pc # "createorip"
      BY <2>3 DEF Attempting
    <3> QED
      BY <3>1, <3>2, <3>3, <3>4, Zenon DEF Snapshot
  <2> QED
    BY <2>1, <2>2, <2>5, <2>6, LocalInv, ZenonT(60) DEF RecOK, RollbackRead, IInv
<1>5. CASE Become(b, RollbackNext(c))
  <2>1. RecOK(b, RollbackNext(c), pools)
    BY <1>1, RollbackNextOK, Zenon
  <2>2. call' = [call EXCEPT ![b] = RollbackNext(c)]
    BY <1>5 DEF Become
  <2> QED
    BY <2>1, <2>2, LocalInv, Zenon DEF RollbackRead, IInv
<1> QED
  BY <1>4, <1>5, Zenon DEF RollbackRead

\* A rollback removes only an entry of its own attachment.
LEMMA RollbackPatchInv ==
  ASSUME IInv, NEW b \in Attachments, RollbackPatch(b)
  PROVE  IInv'
<1> DEFINE c == call[b]
           p == PoolOf(b, Head(c.rbq).idx)
<1>1. /\ c \in Call /\ Base(b, c, pools) /\ c.mode = "ADD" /\ c.ip \in IPs /\ c.rbq # <<>>
      /\ c.rbtry > 0 /\ c.pc = "rbpatch"
  BY RollbackFacts, Zenon DEF RollbackPatch, At, RollingBack
<1>2. CASE /\ UpdatePool(p, c.snap, [c.snap.alloc EXCEPT ![c.ip] = None])
           /\ Become(b, RollbackOrip(b, c))
  <2>1. /\ PoolsOK(pools') /\ Later(pools, pools') /\ HolderStep(b, pools, pools')
        /\ Base(b, c, pools')
    BY <1>1, <1>2, RollbackUpdate, Zenon
  <2>2. RecOK(b, RollbackOrip(b, c), pools')
    BY <1>1, <2>1, RollbackOripOK, Zenon
  <2>3. call' = [call EXCEPT ![b] = RollbackOrip(b, c)]
    BY <1>2 DEF Become
  <2> QED
    BY <2>1, <2>2, <2>3, StepInv, Zenon DEF RollbackPatch, IInv
<1>3. CASE Become(b, RollbackAgain(c, "rbread")) /\ UNCHANGED pools
  <2>1. RecOK(b, RollbackAgain(c, "rbread"), pools)
    BY <1>1, RollbackAgainOK
  <2>2. call' = [call EXCEPT ![b] = RollbackAgain(c, "rbread")]
    BY <1>3 DEF Become
  <2> QED
    BY <1>3, <2>1, <2>2, LocalInv, Zenon DEF RollbackPatch, IInv
<1> QED
  BY <1>2, <1>3, Zenon DEF RollbackPatch

\* Deleting the reservation of a rolled-back commit touches no pool.
LEMMA RollbackOripInv ==
  ASSUME IInv, NEW b \in Attachments, RollbackOripGet(b) \/ RollbackOripDel(b)
  PROVE  IInv'
<1> DEFINE c == call[b]
           e == [c EXCEPT !.pc = "rboripdel"]
<1>1. /\ c \in Call /\ Base(b, c, pools) /\ c.mode = "ADD" /\ c.ip \in IPs /\ c.rbq # <<>>
      /\ c.rbtry \in Nat /\ c.rbtry > 0
  BY RollbackFacts DEF RollbackOripGet, RollbackOripDel, At, RollingBack
<1>2. RecOK(b, RollbackNext(c), pools)
  BY <1>1, RollbackNextOK, Zenon
<1>3. RecOK(b, e, pools)
  <2>1. e \in Call
    BY <1>1, ZenonT(60) DEF Call, Pc
  <2>2. /\ e.pc = "rboripdel" /\ e.mode = "ADD" /\ e.idx = c.idx /\ e.ip = c.ip
        /\ e.rbtry = c.rbtry /\ e.commits = c.commits /\ e.rbq = c.rbq
    BY <1>1 DEF Call
  <2> HIDE DEF e
  <2>3. Base(b, e, pools)
    BY <1>1, <2>2, Zenon DEF Base
  <2> QED
    BY <1>1, <2>1, <2>2, <2>3, RollbackStepOK, Zenon
<1>4. PICK d \in {RollbackNext(c), e} : call' = [call EXCEPT ![b] = d]
  BY DEF RollbackOripGet, RollbackOripDel, Become
<1>5. orips' \in [IPs -> Reservation \cup {None}] /\ faults' \in Nat /\ UNCHANGED pools
  BY <1>1, OripTypes, Zenon DEF RollbackOripGet, RollbackOripDel, IInv
<1> HIDE DEF e
<1> QED
  BY <1>2, <1>3, <1>4, <1>5, LocalInv, Zenon

\* Every error path leads to a record that satisfies the invariant.
LEMMA OnErrorOK ==
  ASSUME NEW a \in Attachments, NEW c \in Call, NEW ps, Base(a, c, ps), WellFormed(a, c),
         c.pc = "createorip" /\ c.created => c.snap.rv < ps[PoolOf(a, c.idx)].rv,
         NEW retryable \in BOOLEAN
  PROVE  RecOK(a, OnError(a, c, retryable), ps)
<1>1. CASE c.pc \in Reserving
  <2>1. OnError(a, c, retryable) = OverlapUpdateFailed(a, c, retryable)
    BY <1>1 DEF OnError, Reserving
  <2>2. c.ip \in IPs /\ (c.mode = "ADD" => c.pc = "createorip")
    BY <1>1, Zenon DEF WellFormed, Reserving
  <2> QED
    BY <2>1, <2>2, OverlapUpdateFailedOK, Zenon
<1>2. CASE c.pc \in RollingBack
  <2>1. c.ip \in IPs /\ c.mode = "ADD" /\ c.rbq # <<>> /\ c.rbtry > 0
    BY <1>2, Zenon DEF WellFormed
  <2>2. \/ OnError(a, c, retryable) = RollbackNext(c)
        \/ \E pc \in {"rbread", "rboripget", "rboripdel"} :
             OnError(a, c, retryable) = RollbackAgain(c, pc)
    <3>1. CASE c.pc = "rbread"
      BY <3>1 DEF OnError
    <3>2. CASE c.pc = "rbpatch"
      BY <3>2 DEF OnError
    <3>3. CASE c.pc \in {"rboripget", "rboripdel"}
      BY <3>3 DEF OnError
    <3> QED
      BY <1>2, <3>1, <3>2, <3>3, Zenon DEF RollingBack
  <2> QED
    BY <2>1, <2>2, RollbackNextOK, RollbackAgainOK
<1>3. CASE c.pc \notin Reserving \cup RollingBack
  <2>1. OnError(a, c, retryable) = Fail(c)
    BY <1>3 DEF OnError, Reserving, RollingBack
  <2> QED
    BY <2>1, FailOK
<1> QED
  BY <1>1, <1>2, <1>3

\* A failed request takes one of the error paths.
LEMMA RequestFailsInv ==
  ASSUME IInv, NEW b \in Attachments, RequestFails(b)
  PROVE  IInv'
<1> DEFINE c == call[b]
<1>1. PICK retryable \in BOOLEAN : call' = [call EXCEPT ![b] = OnError(b, c, retryable)]
  BY Zenon DEF RequestFails, Become
<1>2. /\ c \in Call /\ Base(b, c, pools) /\ WellFormed(b, c)
      /\ c.pc = "createorip" /\ c.created => c.snap.rv < pools[PoolOf(b, c.idx)].rv
  BY CallFacts, Zenon DEF Snapshot
<1>3. RecOK(b, OnError(b, c, retryable), pools)
  BY <1>2, OnErrorOK, Zenon
<1>4. faults' \in Nat /\ UNCHANGED <<pools, orips>> /\ orips \in [IPs -> Reservation \cup {None}]
  BY DEF RequestFails, IInv
<1> QED
  BY <1>1, <1>3, <1>4, LocalInv, Zenon

\* A killed plugin leaves its pool entries as they are.
LEMMA CrashInv ==
  ASSUME IInv, NEW b \in Attachments, Crash(b)
  PROVE  IInv'
<1> DEFINE c == call[b]
           e == [c EXCEPT !.results = <<>>]
<1>1. c \in Call /\ c.mode \in {"ADD", "DEL"}
  BY CallFacts, Zenon DEF Call
<1>4. faults' \in Nat /\ UNCHANGED <<pools, orips>> /\ orips \in [IPs -> Reservation \cup {None}]
  BY DEF Crash, IInv
<1>2. CASE c.mode = "DEL"
  <2>1. call' = [call EXCEPT ![b] = Finish(c, "delfailed")]
    BY <1>2 DEF Crash, Become
  <2>2. RecOK(b, Finish(c, "delfailed"), pools)
    BY <1>1, <1>2, FinishOK DEF Ended
  <2> QED
    BY <1>4, <2>1, <2>2, LocalInv, Zenon
<1>3. CASE c.mode = "ADD"
  <2>1. call' = [call EXCEPT ![b] = Finish(e, "failed")]
    BY <1>3 DEF Crash, Become
  <2>2. <<>> \in Seq(IPs)
    OBVIOUS
  <2>3. e \in Call /\ e.mode = "ADD"
    BY <1>1, <1>3, <2>2, Zenon DEF Call
  <2> HIDE DEF e
  <2>4. RecOK(b, Finish(e, "failed"), pools)
    BY <2>3, FinishOK, ZenonT(60) DEF Ended
  <2> QED
    BY <1>4, <2>1, <2>4, LocalInv, Zenon
<1> QED
  BY <1>1, <1>2, <1>3

\* A write that took effect, seen as a failure.
LEMMA ReplyLostInv ==
  ASSUME IInv, NEW b \in Attachments, ReplyLost(b)
  PROVE  IInv'
<1> DEFINE c == call[b]
           p == PoolOf(b, c.idx)
           m == IF c.pc = "patch" THEN InMemory(b, c) ELSE c
<1>1. PICK retryable \in BOOLEAN : call' = [call EXCEPT ![b] = OnError(b, m, retryable)]
  BY Zenon DEF ReplyLost, Become
<1>2. /\ c \in Call /\ Base(b, c, pools) /\ WellFormed(b, c) /\ p \in Pools
      /\ c.pc = "createorip" /\ c.created => c.snap.rv < pools[p].rv
  BY CallFacts, Zenon DEF Snapshot
<1>3. faults' \in Nat /\ PoolsOK(pools) /\ orips \in [IPs -> Reservation \cup {None}]
  BY DEF ReplyLost, IInv
<1>4. CASE c.pc = "create" /\ pools[p].rv = 0 /\ pools' = [pools EXCEPT ![p].rv = 1] /\ UNCHANGED orips
  <2>1. PoolsOK(pools') /\ Later(pools, pools') /\ HolderStep(b, pools, pools')
    BY <1>2, <1>3, <1>4, CreateStep, Zenon
  <2>2. Base(b, c, pools')
    BY <1>2, <1>4, <2>1, BaseFrame, Zenon DEF IInv, WellFormed
  <2>3. m = c /\ c.pc # "createorip"
    BY <1>4
  <2>4. RecOK(b, OnError(b, m, retryable), pools')
    BY <1>2, <2>2, <2>3, OnErrorOK, Zenon
  <2> QED
    BY <1>1, <1>3, <1>4, <2>1, <2>4, StepInv, Zenon
<1>5. CASE c.pc = "patch" /\ UpdatePool(p, c.snap, NewAlloc(b, c)) /\ UNCHANGED orips
  <2>1. /\ PoolsOK(pools') /\ Later(pools, pools') /\ HolderStep(b, pools, pools')
        /\ m \in Call /\ Base(b, m, pools')
    BY <1>5, AttemptUpdate, Zenon
  <2>2. m.pc = "patch"
    BY <1>2, <1>5, Zenon DEF InMemory, Call
  <2>3. OnError(b, m, retryable) = Fail(m)
    BY <2>2 DEF OnError
  <2>4. RecOK(b, OnError(b, m, retryable), pools')
    BY <2>1, <2>3, FailOK, Zenon
  <2> QED
    BY <1>1, <1>3, <1>5, <2>1, <2>4, StepInv, Zenon
<1>6. CASE /\ c.pc = "rbpatch"
           /\ UpdatePool(PoolOf(b, Head(c.rbq).idx), c.snap, [c.snap.alloc EXCEPT ![c.ip] = None])
           /\ UNCHANGED orips
  <2>1. /\ PoolsOK(pools') /\ Later(pools, pools') /\ HolderStep(b, pools, pools')
        /\ Base(b, c, pools')
    BY <1>6, RollbackUpdate, Zenon
  <2>2. m = c /\ c.pc # "createorip"
    BY <1>6
  <2>3. RecOK(b, OnError(b, m, retryable), pools')
    BY <1>2, <2>1, <2>2, OnErrorOK, Zenon
  <2> QED
    BY <1>1, <1>3, <1>6, <2>1, <2>3, StepInv, Zenon
<1>7. CASE /\ UNCHANGED pools
           /\ \/ /\ c.pc = "createorip"
                 /\ orips' = [orips EXCEPT ![c.ip] = [ref |-> Ref[b], uid |-> PodUID[b]]]
              \/ c.pc \in {"staledel", "deldel", "rboripdel"} /\ DeleteOrip(b)
  <2>1. c.ip \in IPs
    BY <1>2, <1>7, Zenon DEF WellFormed, Attempting, Reserving, RollingBack
  <2>2. orips' \in [IPs -> Reservation \cup {None}]
    BY <1>7, <2>1, OripTypes, Zenon
  <2>3. m = c
    BY <1>7, Zenon
  <2>4. RecOK(b, OnError(b, m, retryable), pools)
    BY <1>2, <2>3, OnErrorOK, Zenon
  <2> QED
    BY <1>1, <1>3, <1>7, <2>2, <2>4, LocalInv, Zenon
<1> QED
  BY <1>4, <1>5, <1>6, <1>7 DEF ReplyLost
-----------------------------------------------------------------------------
(* The theorems.                                                           *)

\* The invariant is inductive.
LEMMA NextInv == IInv /\ [Next]_vars => IInv'
<1> SUFFICES ASSUME IInv, [Next]_vars PROVE IInv'
  BY Zenon
<1>1. CASE UNCHANGED vars
  <2>1. pools' = pools /\ orips' = orips /\ call' = call /\ faults' = faults
    BY <1>1 DEF vars
  <2> QED
    BY <2>1 DEF IInv, OneIPPerInterface
<1>2. ASSUME NEW b \in Attachments, AddStart(b) PROVE IInv'
  BY <1>2, AddStartInv
<1>3. ASSUME NEW b \in Attachments, DelStart(b) PROVE IInv'
  BY <1>3, DelStartInv
<1>4. ASSUME NEW b \in Attachments, Step(b) PROVE IInv'
  BY <1>4, ReadMissingInv, CreatePoolInv, ReadForAddInv, ReadForDelInv, GetOripInv, StaleInv,
     PatchInv, CreateOripInv, DelOripInv, RollbackBeginInv, RollbackReadInv, RollbackPatchInv,
     RollbackOripInv, ZenonT(60)
  DEF Step
<1>5. ASSUME NEW b \in Attachments, Fault(b) PROVE IInv'
  BY <1>5, RequestFailsInv, ReplyLostInv, CrashInv, Zenon DEF Fault
<1> QED
  BY <1>1, <1>2, <1>3, <1>4, <1>5, Zenon DEF Next

\* The inductive invariant holds in every reachable state.
THEOREM Invariance == Spec => []IInv
BY InitInv, NextInv, PTL DEF Spec

\* Types, field use per control point, and version 0 for pools that do not exist.
THEOREM TypeCorrect == Spec => []TypeOK
<1>1. IInv => TypeOK
  BY Zenon DEF IInv, PoolsOK, TypeOK, RecOK
<1> QED
  BY <1>1, Invariance, PTL

\* However many sandboxes, pools and addresses there are, and whatever fails,
\* no pool ever records two addresses for one pod interface (AssignIP's look-up
\* and the resourceVersion test of Update).
THEOREM OneAddress == Spec => []OneIPPerInterface
<1>1. IInv => OneIPPerInterface
  BY DEF IInv
<1> QED
  BY <1>1, Invariance, PTL

\* What an attempt or a rollback is about to write was decided on the pool it
\* will be written to, or the write conflicts (Update's resourceVersion test).
THEOREM SnapshotsHold == Spec => []SnapshotInv
<1>1. IInv => SnapshotInv
  BY Zenon DEF IInv, RecOK, SnapshotInv
<1> QED
  BY <1>1, Invariance, PTL

\* A DEL that returned success has removed every entry of its container from
\* every configured pool, and none comes back (DeallocateIP, IPManagement).
THEOREM DelReleases == Spec => []GoneIsReleased
<1>1. IInv => GoneIsReleased
  <2> SUFFICES ASSUME IInv, NEW a \in Attachments, call[a].pc = "gone",
                      NEW i \in RangeIdx(a), NEW ip \in IPs
               PROVE  pools[PoolOf(a, i)].alloc[ip] # a
    BY Zenon DEF GoneIsReleased
  <2>1. call[a].mode = "DEL" /\ Released(a, call[a], pools)
    BY CallFacts DEF WellFormed
  <2> QED
    BY <2>1 DEF Released, FreeOf
<1> QED
  BY <1>1, Invariance, PTL
-----------------------------------------------------------------------------
(* The pools and the calls, seen as Allocator sees them.                   *)

\* A call is an ADD or a DEL throughout.
LEMMA ModeKept ==
  ASSUME NEW a \in Attachments, NEW c \in Call
  PROVE  /\ Fail(c).mode = c.mode /\ NextRange(a, c).mode = c.mode
         /\ AfterPatch(a, c).mode = c.mode
         /\ RollbackNext(c).mode = c.mode /\ RollbackOrip(a, c).mode = c.mode
<1> USE DEF Call
<1>1. Fail(c).mode = c.mode
  BY DEF Fail, Finish, Fresh, StartRollback
<1>2. NextRange(a, c).mode = c.mode
  BY DEF NextRange, Finish, Fresh
<1>3. AfterPatch(a, c).mode = c.mode
  BY DEF AfterPatch, RangeDone, NextRange, Finish, Fresh
<1>4. RollbackNext(c).mode = c.mode /\ RollbackOrip(a, c).mode = c.mode
  BY DEF RollbackNext, RollbackOrip
<1> QED
  BY <1>1, <1>2, <1>3, <1>4, Zenon

\* So do the maps that take the outcome of a request.
LEMMA ModeKeptBy ==
  ASSUME NEW a \in Attachments, NEW c \in Call, NEW e \in BOOLEAN
  PROVE  /\ RangeDone(a, c, e).mode = c.mode
         /\ NextAttempt(a, c, e).mode = c.mode
         /\ OverlapUpdateFailed(a, c, e).mode = c.mode
         /\ OnError(a, c, e).mode = c.mode
<1> USE DEF Call
<1>1. RangeDone(a, c, e).mode = c.mode
  BY DEF RangeDone, NextRange, Finish, Fresh
<1>2. NextAttempt(a, c, e).mode = c.mode
  BY ModeKept, ZenonT(60) DEF NextAttempt, RangeDone, NextRange, Finish, Fresh
<1>3. OverlapUpdateFailed(a, c, e).mode = c.mode
  BY ModeKept DEF OverlapUpdateFailed, StartRollback, NextAttempt, RangeDone, NextRange, Finish, Fresh
<1>4. OnError(a, c, e).mode = c.mode
  BY ModeKept, <1>3 DEF OnError, RollbackNext, RollbackAgain
<1> QED
  BY <1>1, <1>2, <1>3, <1>4, Zenon

\* Only the record of the running call changes, and not its mode.
LEMMA RunStep ==
  ASSUME IInv, NEW b \in Attachments, Step(b) \/ Fault(b)
  PROVE  /\ call[b].pc \notin Ended
         /\ call'[b].mode = call[b].mode
         /\ \A a \in Attachments \ {b} : call'[a] = call[a]
<1> DEFINE c == call[b]
<1>1. c \in Call /\ call \in [Attachments -> Call] /\ c.ip \in Address
  BY Zenon DEF IInv, Call
<1>2. c.pc \notin Ended
  BY Zenon DEF Step, Fault, ReadMissing, CreatePool, ReadForAdd, ReadForDel, GetOrip, StaleGet, StaleDel,
     Patch, CreateOrip, DelGet, DelDel, RollbackBegin, RollbackRead, RollbackPatch,
     RollbackOripGet, RollbackOripDel, RequestFails, ReplyLost, Crash, At, Requesting, Writing, Ended
<1>3. PICK d : call' = [call EXCEPT ![b] = d]
  BY Zenon DEF Step, Fault, ReadMissing, CreatePool, ReadForAdd, ReadForDel, GetOrip, StaleGet, StaleDel,
     Patch, CreateOrip, DelGet, DelDel, RollbackBegin, RollbackRead, RollbackPatch,
     RollbackOripGet, RollbackOripDel, RequestFails, ReplyLost, Crash, Become
<1>4. call'[b] = d /\ \A a \in Attachments \ {b} : call'[a] = call[a]
  BY <1>1, <1>3
<1>5. \A x : Become(b, x) => d = x
  BY <1>1, <1>3 DEF Become
<1> SUFFICES d.mode = c.mode
  BY <1>2, <1>4, Zenon
<1>6. \A e \in BOOLEAN : /\ RangeDone(b, c, e).mode = c.mode /\ NextAttempt(b, c, e).mode = c.mode
                         /\ OverlapUpdateFailed(b, c, e).mode = c.mode
  BY <1>1, ModeKeptBy
<1>7. TRUE \in BOOLEAN /\ FALSE \in BOOLEAN
  OBVIOUS
<1>8. CASE ReadMissing(b) \/ CreatePool(b) \/ ReadForAdd(b) \/ ReadForDel(b)
  <2>1. CASE d \in {NextRange(b, c), Fail(c)}
    BY <1>1, <2>1, ModeKept
  <2>2. CASE ReadMissing(b)
    <3>1. d \in {NextRange(b, c), [c EXCEPT !.pc = "create"]}
      BY <1>5, <2>2 DEF ReadMissing
    <3> QED
      BY <1>1, <2>1, <3>1, Zenon DEF Call
  <2>3. CASE CreatePool(b)
    <3>1. d = NextAttempt(b, c, TRUE)
      BY <1>5, <2>3, Zenon DEF CreatePool
    <3> QED
      BY <1>6, <1>7, <3>1, Zenon
  <2>4. CASE ReadForAdd(b)
    <3>1. \/ d = Fail(c)
          \/ \E ip : Become(b, [c EXCEPT !.pc = IF OverlappingRanges THEN "getorip" ELSE "patch",
                                         !.snap = pools[PoolOf(b, c.idx)], !.ip = ip,
                                         !.created = ~AlreadyInPool(b, ip, pools[PoolOf(b, c.idx)].alloc)])
      BY <1>5, <2>4, Zenon DEF ReadForAdd
    <3>2. \/ d = Fail(c)
          \/ \E ip : d = [c EXCEPT !.pc = IF OverlappingRanges THEN "getorip" ELSE "patch",
                                   !.snap = pools[PoolOf(b, c.idx)], !.ip = ip,
                                   !.created = ~AlreadyInPool(b, ip, pools[PoolOf(b, c.idx)].alloc)]
      BY <1>5, <3>1, Zenon
    <3> QED
      BY <1>1, <2>1, <3>2, ZenonT(60) DEF Call
  <2>5. CASE ReadForDel(b)
    <3>1. \/ d = NextRange(b, c)
          \/ \E pc, ip : d = [c EXCEPT !.pc = pc, !.ip = ip]
          \/ \E snap, ip : d = [c EXCEPT !.pc = "patch", !.snap = snap, !.ip = ip, !.pending = ip]
      BY <1>5, <2>5, Zenon DEF ReadForDel
    <3> QED
      BY <1>1, <2>1, <3>1, ZenonT(60) DEF Call
  <2> QED
    BY <1>8, <2>2, <2>3, <2>4, <2>5, ZenonT(60)
<1>16. CASE GetOrip(b)
  <2> DEFINE e == [c EXCEPT !.dummies = @ \cup {c.ip}]
  <2>1. e \in Call /\ e.mode = c.mode
    <3>1. c.ip \in IPs /\ c.dummies \in SUBSET IPs
      BY <1>1, <1>16, CallFacts, Zenon DEF GetOrip, At, WellFormed, Attempting, Call
    <3> QED
      BY <1>1, <3>1, Zenon DEF Call
  <2>2. \/ d = NextAttempt(b, e, FALSE) \/ d = [c EXCEPT !.pc = "patch"]
        \/ \E uid : d = [c EXCEPT !.pc = "staleget", !.uid = uid]
        \/ d = [c EXCEPT !.pc = "patch", !.skip = TRUE]
    BY <1>5, <1>16, Zenon DEF GetOrip
  <2>3. NextAttempt(b, e, FALSE).mode = c.mode
    BY <1>7, <2>1, ModeKeptBy, Zenon
  <2> HIDE DEF e
  <2> QED
    BY <1>1, <2>2, <2>3, Zenon DEF Call
<1>17. CASE StaleGet(b) \/ StaleDel(b) \/ DelGet(b) \/ DelDel(b)
  <2>1. \/ d = RangeDone(b, c, FALSE)
        \/ \E pc : d = [c EXCEPT !.pc = pc]
    BY <1>5, <1>17, Zenon DEF StaleGet, StaleDel, DelGet, DelDel
  <2> QED
    BY <1>1, <1>6, <1>7, <2>1, Zenon DEF Call
<1>9. CASE Patch(b)
  <2>1. CASE UpdatePool(PoolOf(b, c.idx), c.snap, NewAlloc(b, c)) /\ d = AfterPatch(b, InMemory(b, c))
    <3>1. InMemory(b, c) \in Call /\ InMemory(b, c).mode = c.mode
      BY <1>1, <1>9, <2>1, AttemptUpdate, Zenon DEF Patch, At, InMemory, Call
    <3> QED
      BY <2>1, <3>1, ModeKept, Zenon
  <2>2. CASE d = NextAttempt(b, c, TRUE)
    BY <1>1, <2>2, ModeKeptBy, Zenon
  <2> QED
    BY <1>5, <1>9, <2>1, <2>2, Zenon DEF Patch
<1>10. CASE CreateOrip(b)
  BY <1>5, <1>6, <1>7, <1>10, Zenon DEF CreateOrip
<1>11. CASE RollbackBegin(b)
  <2>1. \/ d \in {NextAttempt(b, c, TRUE), Fail(c), RollbackNext(c), Finish(c, "failed")}
        \/ d = RollbackOrip(b, [c EXCEPT !.ip = Head(c.rbq).ip])
        \/ d = [c EXCEPT !.pc = "rbpatch", !.snap = Head(c.rbq).snap, !.ip = Head(c.rbq).ip,
                         !.rbtry = 1]
    BY <1>5, <1>11, Zenon DEF RollbackBegin
  <2>2. CASE d \in {NextAttempt(b, c, TRUE), Fail(c), RollbackNext(c), Finish(c, "failed")}
    <3>1. Finish(c, "failed").mode = c.mode
      BY DEF Finish, Fresh
    <3> QED
      BY <1>1, <1>6, <1>7, <2>2, <3>1, ModeKept, Zenon
  <2>3. CASE d = RollbackOrip(b, [c EXCEPT !.ip = Head(c.rbq).ip])
    BY <1>1, <2>3, Zenon DEF RollbackOrip, RollbackNext, Call
  <2>4. CASE d = [c EXCEPT !.pc = "rbpatch", !.snap = Head(c.rbq).snap, !.ip = Head(c.rbq).ip,
                           !.rbtry = 1]
    BY <1>1, <2>4, Zenon DEF Call
  <2> QED
    BY <2>1, <2>2, <2>3, <2>4, Zenon
<1>12. CASE RollbackRead(b) \/ RollbackPatch(b) \/ RollbackOripGet(b) \/ RollbackOripDel(b)
  <2>1. \/ d \in {RollbackNext(c), RollbackOrip(b, c), RollbackAgain(c, "rbread")}
        \/ d = [c EXCEPT !.pc = "rbpatch", !.snap = pools[PoolOf(b, Head(c.rbq).idx)]]
        \/ d = [c EXCEPT !.pc = "rboripdel"]
    BY <1>5, <1>12, Zenon DEF RollbackRead, RollbackPatch, RollbackOripGet, RollbackOripDel
  <2>2. RollbackAgain(c, "rbread").mode = c.mode
    BY <1>1, Zenon DEF RollbackAgain, RollbackNext, Call
  <2>3. CASE d \in {RollbackNext(c), RollbackOrip(b, c), RollbackAgain(c, "rbread")}
    <3>1. RollbackNext(c).mode = c.mode /\ RollbackOrip(b, c).mode = c.mode
      BY <1>1, ModeKept, Zenon
    <3> QED
      BY <2>2, <2>3, <3>1, Zenon
  <2>4. CASE \/ d = [c EXCEPT !.pc = "rbpatch", !.snap = pools[PoolOf(b, Head(c.rbq).idx)]]
             \/ d = [c EXCEPT !.pc = "rboripdel"]
    BY <1>1, <2>4, Zenon DEF Call
  <2> QED
    BY <2>1, <2>3, <2>4, Zenon
<1>13. CASE RequestFails(b)
  <2>1. \E retryable \in BOOLEAN : d = OnError(b, c, retryable)
    BY <1>5, <1>13 DEF RequestFails
  <2> QED
    BY <1>1, <2>1, ModeKeptBy
<1>14. CASE ReplyLost(b)
  <2>1. CASE c.pc = "patch"
    <3>1. /\ UpdatePool(PoolOf(b, c.idx), c.snap, NewAlloc(b, c))
          /\ \E retryable \in BOOLEAN : d = OnError(b, InMemory(b, c), retryable)
      BY <1>5, <1>14, <2>1, Zenon DEF ReplyLost
    <3>2. InMemory(b, c) \in Call /\ InMemory(b, c).mode = c.mode
      BY <1>1, <2>1, <3>1, AttemptUpdate, ZenonT(60) DEF InMemory, Call
    <3> QED
      BY <3>1, <3>2, ModeKeptBy
  <2>2. CASE c.pc # "patch"
    <3>1. \E retryable \in BOOLEAN : d = OnError(b, c, retryable)
      BY <1>5, <1>14, <2>2, Zenon DEF ReplyLost
    <3> QED
      BY <1>1, <3>1, ModeKeptBy
  <2> QED
    BY <2>1, <2>2, ZenonT(60)
<1>15. CASE Crash(b)
  <2>1. d \in {Finish(c, "delfailed"), Finish([c EXCEPT !.results = <<>>], "failed")}
    BY <1>5, <1>15 DEF Crash
  <2>2. [c EXCEPT !.results = <<>>].mode = c.mode
    BY <1>1 DEF Call
  <2>3. \A x, pc : Finish(x, pc).mode = x.mode
    BY DEF Finish, Fresh
  <2> QED
    BY <2>1, <2>2, <2>3, ZenonT(60)
<1> QED
  BY <1>8, <1>9, <1>10, <1>11, <1>12, <1>13, <1>14, <1>15, <1>16, <1>17, Zenon DEF Step, Fault

\* The calls, with their retries, rollbacks and failures, change the pools only
\* by reservations of free addresses, take-overs by an ADD of the same pod
\* interface, and releases by a running call of the recorded container.
THEOREM Refinement == Spec => ImplementsAllocator
<1>1. Init => A!Init
  BY DEF Init, A!Init, Holder, Running, NoPool, NoAlloc, Fresh, Ended
<1>2. ASSUME IInv, NEW b \in Attachments, AddStart(b) \/ DelStart(b) PROVE A!Next
  <2>1. PICK d : call' = [call EXCEPT ![b] = d] /\ d.pc = "read" /\ d.mode \in {"ADD", "DEL"}
    <3>1. CASE AddStart(b)
      <4>1. PICK pref : call' = [call EXCEPT ![b] = [Fresh EXCEPT !.pc = "read", !.pref = pref]]
        BY <3>1, Zenon DEF AddStart, Become
      <4>2. [Fresh EXCEPT !.pc = "read", !.pref = pref].pc = "read"
            /\ [Fresh EXCEPT !.pc = "read", !.pref = pref].mode = "ADD"
        BY DEF Fresh
      <4> QED
        BY <4>1, <4>2, Zenon
    <3>2. CASE DelStart(b)
      <4> DEFINE n == call[b].dels + 1
      <4>1. call' = [call EXCEPT ![b] = [Fresh EXCEPT !.pc = "read", !.mode = "DEL", !.dels = n]]
        BY <3>2, Zenon DEF DelStart, Become
      <4> HIDE DEF n
      <4>2. [Fresh EXCEPT !.pc = "read", !.mode = "DEL", !.dels = n].pc = "read"
            /\ [Fresh EXCEPT !.pc = "read", !.mode = "DEL", !.dels = n].mode = "DEL"
        BY DEF Fresh
      <4> QED
        BY <4>1, <4>2, Zenon
    <3> QED
      BY <1>2, <3>1, <3>2, Zenon
  <2>2. call \in [Attachments -> Call] /\ UNCHANGED pools /\ call[b].pc \in Ended
    BY <1>2 DEF AddStart, DelStart, At, Ended, IInv
  <2>3. Running' = [Running EXCEPT ![b] = d.mode] /\ Running[b] = None
    BY <2>1, <2>2, Zenon DEF Running, Ended
  <2>4. A!Start(b, d.mode)
    BY <2>2, <2>3 DEF A!Start, Holder
  <2> QED
    BY <2>1, <2>4, Zenon DEF A!Next
<1>3. ASSUME IInv, NEW b \in Attachments, Step(b) \/ Fault(b) PROVE A!Next
  <2>1. /\ call[b].pc \notin Ended /\ call[b].mode \in {"ADD", "DEL"}
        /\ call'[b].mode = call[b].mode
        /\ \A a \in Attachments \ {b} : call'[a] = call[a]
    BY <1>3, RunStep, Zenon DEF IInv, Call
  <2>2. Running[b] = call[b].mode /\ A!GoOn(b)
    <3>1. Running[b] = call[b].mode /\ Running[b] # None
      BY <2>1, NoneAssumption, Zenon DEF Running
    <3>2. CASE call'[b].pc \in Ended
      <4>1. Running' = [Running EXCEPT ![b] = None]
        BY <2>1, <3>2, Zenon DEF Running
      <4> QED
        BY <3>1, <4>1 DEF A!GoOn
    <3>3. CASE call'[b].pc \notin Ended
      <4>1. Running' = Running
        BY <2>1, <3>3 DEF Running
      <4> QED
        BY <3>1, <4>1, Zenon DEF A!GoOn
    <3> QED
      BY <3>1, <3>2, <3>3, Zenon
  <2>3. CASE \A p \in Pools : pools'[p].alloc = pools[p].alloc
    <3>1. A!Return(b)
      BY <2>2, <2>3, Zenon DEF A!Return, Holder
    <3> QED
      BY <3>1 DEF A!Next
  <2>4. ASSUME NEW p \in Pools, NEW ip \in IPs, NEW x \in {b, None},
               MaySet(b, pools[p].alloc, ip, x), AddsOnlyInAdd(b, pools, pools'),
               pools'[p].alloc = [pools[p].alloc EXCEPT ![ip] = x],
               \A q \in Pools \ {p} : pools'[q].alloc = pools[q].alloc
        PROVE  A!Next
    <3>1. Holder' = [Holder EXCEPT ![p][ip] = x] /\ Holder[p] = pools[p].alloc
      BY <2>4, Zenon DEF Holder
    <3>2. A!SetHolder(p, ip, x)
      BY <3>1 DEF A!SetHolder
    <3>3. CASE x = b /\ call[b].mode = "DEL"
      <4>1. pools[p].alloc \in Allocations
        BY <1>3, Zenon DEF IInv, PoolsOK, Pool
      <4>2. pools'[p].alloc[ip] = b
        BY <2>4, <3>3, <4>1, Zenon DEF Allocations
      <4>3. pools[p].alloc[ip] = b
        BY <2>4, <3>3, <4>2, Zenon DEF AddsOnlyInAdd
      <4>4. pools'[p].alloc = pools[p].alloc
        BY <2>4, <3>3, <4>1, <4>3, Zenon DEF Allocations
      <4> QED
        BY <2>3, <2>4, <4>4, Zenon
    <3>4. CASE x = b /\ call[b].mode = "ADD" /\ pools[p].alloc[ip] = None
               /\ HeldByRef(b, pools[p].alloc) = {}
      <4>1. A!Reserve(b, p, ip)
        BY <2>2, <3>1, <3>2, <3>4, Zenon DEF A!Reserve, HeldByRef
      <4> QED
        BY <4>1 DEF A!Next
    <3>5. CASE x = b /\ call[b].mode = "ADD" /\ ip \in HeldByRef(b, pools[p].alloc)
      <4>1. A!TakeOver(b, p, ip)
        BY <2>2, <3>1, <3>2, <3>5, Zenon DEF A!TakeOver, HeldByRef
      <4> QED
        BY <4>1 DEF A!Next
    <3>6. CASE x = None /\ pools[p].alloc[ip] = b
      <4>1. A!Release(b, p, ip)
        BY <2>2, <3>1, <3>2, <3>6, Zenon DEF A!Release
      <4> QED
        BY <4>1, Zenon DEF A!Next
    <3> QED
      BY <2>1, <2>4, <3>3, <3>4, <3>5, <3>6, Zenon DEF MaySet
  <2>5. CASE HolderStep(b, pools, pools') /\ AddsOnlyInAdd(b, pools, pools')
    BY <2>3, <2>4, <2>5, ZenonT(60) DEF HolderStep
  <2>6. CASE pools' = pools
    BY <2>3, <2>6
  <2> QED
    BY <1>3, <2>5, <2>6, HolderSteps, Zenon
<1>4. IInv /\ [Next]_vars => [A!Next]_<<Holder, Running>>
  <2>1. UNCHANGED vars => UNCHANGED <<Holder, Running>>
    BY DEF vars, Holder, Running
  <2> QED
    BY <1>2, <1>3, <2>1 DEF Next
<1> QED
  BY <1>1, <1>4, Invariance, PTL DEF Spec, ImplementsAllocator, A!Spec
=============================================================================
