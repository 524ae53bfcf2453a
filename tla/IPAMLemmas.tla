----------------------------- MODULE IPAMLemmas -----------------------------
(***************************************************************************)
(* The inductive invariant of IPAM, and what the control-flow maps and the *)
(* pool updates preserve of it.                                            *)
(***************************************************************************)
EXTENDS IPAM, TLAPS

\* No address of pool p is recorded for attachment a.
FreeOf(a, p, ps) == \A ip \in IPs : ps[p].alloc[ip] # a

\* The ranges a DEL has been through hold nothing of its attachment any more.
Released(a, c, ps) ==
  c.mode = "DEL" =>
    \A i \in RangeIdx(a) :
      i < c.idx \/ c.pc = "gone" \/ (i = c.idx /\ c.pc \in {"delget", "deldel"})
        => FreeOf(a, PoolOf(a, i), ps)

\* What stays true of a running call's record while its control flow decides
\* where to go next.
Base(a, c, ps) ==
  /\ c.idx \in RangeIdx(a)
  /\ \A k \in DOMAIN c.commits : c.commits[k].idx \in RangeIdx(a) /\ Outdated(a, c.commits[k], ps)
  /\ \A k \in DOMAIN c.rbq : c.rbq[k].idx \in RangeIdx(a) /\ Outdated(a, c.rbq[k], ps)
  /\ c.mode = "DEL" => \A i \in RangeIdx(a) : i < c.idx => FreeOf(a, PoolOf(a, i), ps)

\* The inductive invariant, for one call.
RecOK(a, c, ps) ==
  c \in Call /\ WellFormed(a, c) /\ Snapshot(a, c, ps) /\ Released(a, c, ps)
-----------------------------------------------------------------------------
(* The control-flow maps preserve the invariant of a call.                 *)

\* A record that satisfies the invariant has what the maps need.
LEMMA RecBase ==
  ASSUME NEW a \in Attachments, NEW c, NEW ps, RecOK(a, c, ps)
  PROVE  c \in Call /\ Base(a, c, ps)
BY DEF RecOK, Base, WellFormed, Snapshot, Released

\* Every attachment has a first range.
LEMMA FirstRange ==
  ASSUME NEW a \in Attachments
  PROVE  1 \in RangeIdx(a) /\ Len(Ranges[a]) \in Nat
BY ConfigAssumption DEF RangeIdx

\* The pools of the configured ranges are pools.
LEMMA RangePool ==
  ASSUME NEW a \in Attachments, NEW i \in RangeIdx(a)
  PROVE  PoolOf(a, i) \in Pools
BY ConfigAssumption DEF RangeIdx, PoolOf

\* The initial records have their types.
LEMMA FreshType == Fresh \in Call /\ NoPool \in Pool
<1>1. NoPool \in Pool
  BY DEF NoPool, Pool, NoAlloc, Allocations
<1> QED
  BY <1>1 DEF Fresh, Call, Pc, Ended, Address

\* A call that returns leaves a well-formed record.
LEMMA FinishOK ==
  ASSUME NEW a \in Attachments, NEW c \in Call, NEW ps, NEW pc \in Ended,
         pc \in {"up", "failed"} => c.mode = "ADD",
         pc \in {"gone", "delfailed"} => c.mode = "DEL",
         pc = "gone" => \A i \in RangeIdx(a) : FreeOf(a, PoolOf(a, i), ps)
  PROVE  RecOK(a, Finish(c, pc), ps)
<1> DEFINE d == Finish(c, pc)
<1>1. d \in Call
  BY FreshType, ZenonT(60) DEF Finish, Call, Pc
<1>2. /\ d.pc = pc /\ d.mode = c.mode /\ d.idx = 1
      /\ d.commits = <<>> /\ d.rbq = <<>>
  BY DEF Finish, Fresh
<1> HIDE DEF d
<1>3. WellFormed(a, d)
  BY <1>2, FirstRange DEF WellFormed, Ended, Attempting, Reserving, RollingBack
<1>4. Snapshot(a, d, ps)
  BY <1>2 DEF Snapshot, Ended, Attempting
<1>5. Released(a, d, ps)
  BY <1>2 DEF Released, Ended, RangeIdx
<1> QED
  BY <1>1, <1>3, <1>4, <1>5 DEF RecOK, d

\* return with an error.
LEMMA FailOK ==
  ASSUME NEW a \in Attachments, NEW c \in Call, NEW ps, Base(a, c, ps)
  PROVE  RecOK(a, Fail(c), ps)
<1>1. CASE c.mode = "DEL"
  BY <1>1, FinishOK DEF Fail, Ended
<1> DEFINE e == [c EXCEPT !.results = <<>>]
<1>2. e \in Call /\ e.mode = c.mode /\ e.commits = c.commits /\ e.idx = c.idx
  <2>1. <<>> \in Seq(IPs)
    OBVIOUS
  <2> QED
    BY <2>1, Zenon DEF Call
<1>3. CASE c.mode # "DEL" /\ c.commits = <<>>
  <2>1. Fail(c) = Finish(e, "failed")
    BY <1>3 DEF Fail
  <2>2. e.mode = "ADD"
    BY <1>2, <1>3 DEF Call
  <2> HIDE DEF e
  <2> QED
    BY <2>1, <2>2, <1>2, FinishOK DEF Ended
<1>4. CASE c.mode # "DEL" /\ c.commits # <<>>
  <2> DEFINE d == StartRollback(e, c.commits, "failed")
  <2>1. Fail(c) = d
    BY <1>4 DEF Fail
  <2>2. d \in Call
    BY <1>2, Zenon DEF StartRollback, Call, Pc
  <2>3. /\ d.pc = "rollback" /\ d.mode = "ADD" /\ d.idx = c.idx
        /\ d.commits = c.commits /\ d.rbq = c.commits
    BY <1>4 DEF StartRollback, Call
  <2> HIDE DEF d
  <2>4. WellFormed(a, d) /\ Snapshot(a, d, ps) /\ Released(a, d, ps)
    BY <2>3 DEF WellFormed, Snapshot, Released, Base, Attempting, Reserving, RollingBack
  <2> QED
    BY <2>1, <2>2, <2>4 DEF RecOK
<1> QED
  BY <1>1, <1>3, <1>4

\* The next range, or the successful end.
LEMMA NextRangeOK ==
  ASSUME NEW a \in Attachments, NEW c \in Call, NEW ps, Base(a, c, ps),
         c.mode = "DEL" => FreeOf(a, PoolOf(a, c.idx), ps)
  PROVE  RecOK(a, NextRange(a, c), ps)
<1>1. CASE c.idx = Len(Ranges[a])
  <2>1. c.mode = "DEL" => \A i \in RangeIdx(a) : FreeOf(a, PoolOf(a, i), ps)
    BY <1>1 DEF Base, RangeIdx
  <2>2. c.mode \in {"ADD", "DEL"}
    BY DEF Call
  <2>3. CASE c.mode = "ADD"
    BY <1>1, <2>2, <2>3, FinishOK DEF NextRange, Ended
  <2>4. CASE c.mode = "DEL"
    BY <1>1, <2>1, <2>2, <2>4, FinishOK DEF NextRange, Ended
  <2> QED
    BY <2>2, <2>3, <2>4
<1>2. CASE c.idx # Len(Ranges[a])
  <2> DEFINE d == NextRange(a, c)
  <2>1. d \in Call
    <3>1. c.idx + 1 \in Nat /\ None \in Address
      BY DEF Call, Address
    <3> QED
      BY <1>2, <3>1, FreshType, ZenonT(60) DEF NextRange, Call, Pc
  <2>2. /\ d.pc = "read" /\ d.mode = c.mode /\ d.idx = c.idx + 1
        /\ d.commits = c.commits /\ d.rbq = c.rbq
    BY <1>2 DEF NextRange, Call
  <2>3. c.idx + 1 \in RangeIdx(a) /\ c.idx \in Nat
    BY <1>2, FirstRange DEF Base, RangeIdx
  <2> HIDE DEF d
  <2>4. WellFormed(a, d) /\ Snapshot(a, d, ps)
    BY <2>2, <2>3 DEF WellFormed, Snapshot, Base, Attempting, Reserving, RollingBack
  <2>5. Released(a, d, ps)
    BY <2>2, <2>3 DEF Released, Base, RangeIdx
  <2> QED
    BY <2>1, <2>4, <2>5 DEF RecOK, d
<1> QED
  BY <1>1, <1>2

\* What a range that ended without an error may commit.
Committable(a, c, ps) ==
  /\ c.mode = "ADD" => c.ip \in IPs
  /\ c.mode = "ADD" /\ c.created /\ c.snap.alloc[c.ip] = a =>
       c.snap.rv < ps[PoolOf(a, c.idx)].rv
  /\ c.mode = "DEL" => FreeOf(a, PoolOf(a, c.idx), ps)

\* Recording a commit and going on to the next range.
LEMMA RangeDoneOK ==
  ASSUME NEW a \in Attachments, NEW c \in Call, NEW ps, Base(a, c, ps),
         NEW reserved \in BOOLEAN, Committable(a, c, ps)
  PROVE  RecOK(a, RangeDone(a, c, reserved), ps)
<1>1. CASE c.mode = "DEL"
  BY <1>1, NextRangeOK DEF RangeDone, Committable
<1>2. CASE c.mode = "ADD"
  <2> DEFINE h == [idx |-> c.idx, ip |-> c.ip, pool |-> c.created,
                   orip |-> reserved, snap |-> c.snap]
             q == IF c.created \/ reserved THEN Append(c.commits, h) ELSE c.commits
             s == IF OverlappingRanges THEN c.dummies \cup {c.ip} ELSE c.dummies
             r == Append(c.results, c.ip)
             e == [c EXCEPT !.commits = q, !.dummies = s, !.results = r]
  <2>1. h \in Commit /\ h.idx \in RangeIdx(a) /\ Outdated(a, h, ps)
    BY <1>2 DEF Commit, Call, Base, Committable, Outdated
  <2>2. RangeDone(a, c, reserved) = NextRange(a, e)
    BY <1>2 DEF RangeDone
  <2>3. q \in Seq(Commit) /\ s \in SUBSET IPs /\ r \in Seq(IPs)
    <3> HIDE DEF h
    <3> QED BY <1>2, <2>1 DEF Call, Committable
  <2>4. \A k \in DOMAIN q : q[k].idx \in RangeIdx(a) /\ Outdated(a, q[k], ps)
    <3> HIDE DEF h
    <3>1. c.commits \in Seq(Commit)
      BY DEF Call
    <3>2. \A k \in DOMAIN c.commits : c.commits[k].idx \in RangeIdx(a) /\ Outdated(a, c.commits[k], ps)
      BY DEF Base
    <3> QED BY <2>1, <3>1, <3>2
  <2> HIDE DEF h, q, s, r
  <2>5. e \in Call
    BY <2>3, Zenon DEF Call
  <2>6. e.idx = c.idx /\ e.commits = q /\ e.rbq = c.rbq /\ e.mode = "ADD"
    BY <1>2 DEF Call
  <2> HIDE DEF e
  <2>7. Base(a, e, ps)
    BY <2>4, <2>6 DEF Base
  <2> QED
    BY <2>2, <2>5, <2>6, <2>7, NextRangeOK
<1> QED
  BY <1>1, <1>2 DEF Call

\* Starting over, or giving the range up after the last attempt.
LEMMA NextAttemptOK ==
  ASSUME NEW a \in Attachments, NEW c \in Call, NEW ps, Base(a, c, ps),
         NEW err \in BOOLEAN, ~err => Committable(a, c, ps)
  PROVE  RecOK(a, NextAttempt(a, c, err), ps)
<1>1. CASE c.tries < DatastoreRetries
  <2> DEFINE d == NextAttempt(a, c, err)
  <2>1. c.tries + 1 \in Nat /\ None \in Address
    BY DEF Call, Address
  <2>2. d \in Call
    BY <1>1, <2>1, FreshType, ZenonT(60) DEF NextAttempt, Call, Pc
  <2>3. /\ d.pc = "read" /\ d.mode = c.mode /\ d.idx = c.idx
        /\ d.commits = c.commits /\ d.rbq = c.rbq
    BY <1>1 DEF NextAttempt, Call
  <2> HIDE DEF d
  <2>4. WellFormed(a, d) /\ Snapshot(a, d, ps) /\ Released(a, d, ps)
    BY <2>3 DEF WellFormed, Snapshot, Released, Base, Attempting, Reserving, RollingBack
  <2> QED
    BY <2>2, <2>4 DEF RecOK, d
<1>2. CASE ~(c.tries < DatastoreRetries) /\ err
  BY <1>2, FailOK DEF NextAttempt
<1>3. CASE ~(c.tries < DatastoreRetries) /\ ~err
  <2> DEFINE e == [c EXCEPT !.exhausted = TRUE]
  <2>1. e \in Call
    BY Zenon DEF Call
  <2>2. /\ e.idx = c.idx /\ e.commits = c.commits /\ e.rbq = c.rbq /\ e.mode = c.mode
        /\ e.ip = c.ip /\ e.created = c.created /\ e.snap = c.snap
    BY DEF Call
  <2>3. NextAttempt(a, c, err) = RangeDone(a, e, FALSE)
    BY <1>3 DEF NextAttempt
  <2> HIDE DEF e
  <2>4. Base(a, e, ps) /\ Committable(a, e, ps)
    BY <1>3, <2>2 DEF Base, Committable
  <2> QED
    BY <2>1, <2>3, <2>4, RangeDoneOK, Zenon
<1> QED
  BY <1>1, <1>2, <1>3

\* The pool holds the new list; on to the reservation or to the next range.
LEMMA AfterPatchOK ==
  ASSUME NEW a \in Attachments, NEW c \in Call, NEW ps, Base(a, c, ps),
         c.ip \in IPs, Committable(a, c, ps),
         c.mode = "ADD" /\ c.created => c.snap.alloc[c.ip] = a
  PROVE  RecOK(a, AfterPatch(a, c), ps)
<1>1. CASE ~OverlappingRanges \/ c.skip
  BY <1>1, RangeDoneOK, Zenon DEF AfterPatch
<1>2. CASE ~(~OverlappingRanges \/ c.skip)
  <2> DEFINE pc == IF c.mode = "ADD" THEN "createorip"
                   ELSE IF PodUID[a] = NoUID THEN "deldel" ELSE "delget"
             d == [c EXCEPT !.pc = pc]
  <2>1. AfterPatch(a, c) = d
    BY <1>2 DEF AfterPatch
  <2>2. pc \in Pc
    BY DEF Pc
  <2>3. /\ c.mode = "ADD" => pc = "createorip"
        /\ c.mode # "ADD" => pc \in {"deldel", "delget"}
    OBVIOUS
  <2> HIDE DEF pc
  <2>4. d \in Call
    BY <2>2, Zenon DEF Call
  <2>5. /\ d.pc = pc /\ d.mode = c.mode /\ d.idx = c.idx /\ d.ip = c.ip /\ d.snap = c.snap
        /\ d.commits = c.commits /\ d.rbq = c.rbq /\ d.created = c.created
    BY DEF Call
  <2> HIDE DEF d
  <2>6. c.mode \in {"ADD", "DEL"}
    BY DEF Call
  <2>7. WellFormed(a, d) /\ Snapshot(a, d, ps)
    BY <2>3, <2>5, <2>6 DEF WellFormed, Snapshot, Base, Committable, Attempting, Reserving, RollingBack
  <2>8. Released(a, d, ps)
    BY <2>3, <2>5, <2>6 DEF Released, Base, Committable
  <2> QED
    BY <2>1, <2>4, <2>7, <2>8 DEF RecOK
<1> QED
  BY <1>1, <1>2

\* The reservation could not be created or deleted.
LEMMA OverlapUpdateFailedOK ==
  ASSUME NEW a \in Attachments, NEW c \in Call, NEW ps, Base(a, c, ps),
         NEW retryable \in BOOLEAN, c.ip \in IPs,
         c.mode = "ADD" /\ c.created => c.snap.rv < ps[PoolOf(a, c.idx)].rv
  PROVE  RecOK(a, OverlapUpdateFailed(a, c, retryable), ps)
<1>1. CASE c.mode = "ADD" /\ c.created
  <2> DEFINE h == [idx |-> c.idx, ip |-> c.ip, pool |-> TRUE, orip |-> FALSE, snap |-> c.snap]
             t == IF retryable THEN "retry" ELSE "abort"
             d == StartRollback(c, <<h>>, t)
  <2>1. h \in Commit /\ h.idx \in RangeIdx(a) /\ Outdated(a, h, ps)
    BY <1>1 DEF Commit, Call, Base, Outdated
  <2>2. OverlapUpdateFailed(a, c, retryable) = d
    BY <1>1 DEF OverlapUpdateFailed
  <2>3. t \in {"retry", "abort", "failed"}
    OBVIOUS
  <2> HIDE DEF h, t
  <2>4. <<h>> \in Seq(Commit) /\ \A k \in DOMAIN <<h>> : <<h>>[k] = h
    BY <2>1
  <2>5. d \in Call
    BY <2>3, <2>4, Zenon DEF StartRollback, Call, Pc
  <2>6. /\ d.pc = "rollback" /\ d.mode = "ADD" /\ d.idx = c.idx
        /\ d.commits = c.commits /\ d.rbq = <<h>>
    BY <1>1 DEF StartRollback, Call
  <2> HIDE DEF d
  <2>7. WellFormed(a, d) /\ Snapshot(a, d, ps) /\ Released(a, d, ps)
    BY <2>1, <2>4, <2>6
    DEF WellFormed, Snapshot, Released, Base, Attempting, Reserving, RollingBack
  <2> QED
    BY <2>2, <2>5, <2>7, Zenon DEF RecOK
<1>2. CASE ~(c.mode = "ADD" /\ c.created) /\ retryable
  BY <1>2, NextAttemptOK, Zenon DEF OverlapUpdateFailed
<1>3. CASE ~(c.mode = "ADD" /\ c.created) /\ ~retryable
  BY <1>3, FailOK DEF OverlapUpdateFailed
<1> QED
  BY <1>1, <1>2, <1>3

\* Going on to the next commit to roll back.
LEMMA RollbackNextOK ==
  ASSUME NEW a \in Attachments, NEW c \in Call, NEW ps, Base(a, c, ps),
         c.rbq # <<>>, c.mode = "ADD"
  PROVE  RecOK(a, RollbackNext(c), ps)
<1> DEFINE d == RollbackNext(c)
           q == Tail(c.rbq)
<1>1. c.rbq \in Seq(Commit)
  BY DEF Call
<1>2. q \in Seq(Commit) /\ \A k \in DOMAIN q : k + 1 \in DOMAIN c.rbq /\ q[k] = c.rbq[k + 1]
  BY <1>1
<1>3. d \in Call
  BY <1>2, Zenon DEF RollbackNext, Call, Pc
<1>4. /\ d.pc = "rollback" /\ d.mode = "ADD" /\ d.idx = c.idx
      /\ d.commits = c.commits /\ d.rbq = q
  BY DEF RollbackNext, Call
<1> HIDE DEF d, q
<1>5. WellFormed(a, d) /\ Snapshot(a, d, ps) /\ Released(a, d, ps)
  BY <1>2, <1>4, Zenon DEF WellFormed, Snapshot, Released, Base, Attempting, Reserving, RollingBack
<1> QED
  BY <1>3, <1>5 DEF RecOK, d

\* A rollback step that works on no pool object.
LEMMA RollbackStepOK ==
  ASSUME NEW a \in Attachments, NEW d \in Call, NEW ps, Base(a, d, ps),
         d.rbq # <<>>, d.mode = "ADD", d.ip \in IPs, d.rbtry > 0,
         d.pc \in {"rbread", "rboripget", "rboripdel"},
         d.pc = "rbread" => d.rbtry > 1
  PROVE  RecOK(a, d, ps)
BY DEF RecOK, WellFormed, Snapshot, Released, Base, Attempting, Reserving, RollingBack

\* Repeating a rollback attempt, or giving the commit up.
LEMMA RollbackAgainOK ==
  ASSUME NEW a \in Attachments, NEW c \in Call, NEW ps, Base(a, c, ps),
         c.rbq # <<>>, c.mode = "ADD", c.ip \in IPs, c.rbtry > 0,
         NEW pc \in {"rbread", "rboripget", "rboripdel"}
  PROVE  RecOK(a, RollbackAgain(c, pc), ps)
<1>1. CASE c.rbtry < RollbackRetries
  <2> DEFINE d == RollbackAgain(c, pc)
  <2>1. c.rbtry + 1 \in Nat /\ c.rbtry + 1 > 1
    BY DEF Call
  <2>2. d \in Call
    BY <1>1, <2>1, ZenonT(60) DEF RollbackAgain, Call, Pc
  <2>3. /\ d.pc = pc /\ d.mode = "ADD" /\ d.idx = c.idx /\ d.ip = c.ip
        /\ d.rbtry = c.rbtry + 1 /\ d.commits = c.commits /\ d.rbq = c.rbq
    BY <1>1 DEF RollbackAgain, Call
  <2> HIDE DEF d
  <2>4. Base(a, d, ps)
    BY <2>3 DEF Base
  <2>5. d.rbtry > 0 /\ d.rbtry > 1
    BY <2>1, <2>3
  <2> QED
    BY <2>2, <2>3, <2>4, <2>5, RollbackStepOK DEF d
<1>2. CASE ~(c.rbtry < RollbackRetries)
  BY <1>2, RollbackNextOK DEF RollbackAgain
<1> QED
  BY <1>1, <1>2

\* Going on to the reservation of a rolled-back commit.
LEMMA RollbackOripOK ==
  ASSUME NEW a \in Attachments, NEW c \in Call, NEW ps, Base(a, c, ps),
         c.rbq # <<>>, c.mode = "ADD", c.ip \in IPs
  PROVE  RecOK(a, RollbackOrip(a, c), ps)
<1>1. CASE Head(c.rbq).orip
  <2> DEFINE pc == IF PodUID[a] = NoUID THEN "rboripdel" ELSE "rboripget"
             d == [c EXCEPT !.pc = pc, !.rbtry = 1]
  <2>1. pc \in {"rboripget", "rboripdel"} /\ RollbackOrip(a, c) = d
    BY <1>1 DEF RollbackOrip
  <2> HIDE DEF pc
  <2>2. d \in Call
    BY <2>1, Zenon DEF Call, Pc
  <2>3. /\ d.pc = pc /\ d.mode = "ADD" /\ d.idx = c.idx /\ d.ip = c.ip /\ d.rbtry = 1
        /\ d.commits = c.commits /\ d.rbq = c.rbq
    BY <2>1 DEF Call
  <2> HIDE DEF d
  <2>4. Base(a, d, ps)
    BY <2>3 DEF Base
  <2> QED
    BY <2>1, <2>2, <2>3, <2>4, RollbackStepOK
<1>2. CASE ~Head(c.rbq).orip
  BY <1>2, RollbackNextOK DEF RollbackOrip
<1> QED
  BY <1>1, <1>2
-----------------------------------------------------------------------------
(* What a step of one attachment may do to the pools.                      *)

PoolsOK(ps) ==
  /\ ps \in [Pools -> Pool]
  /\ \A p \in Pools : ps[p].rv = 0 => ps[p] = NoPool

\* Whatever changes in a pool changes its version.
Later(ps, qs) == \A p \in Pools : qs[p] = ps[p] \/ qs[p].rv > ps[p].rv

\* b may set ip in p to x.
MaySet(b, alloc, ip, x) ==
  \/ x = b /\ alloc[ip] = None /\ HeldByRef(b, alloc) = {}
  \/ x = b /\ ip \in HeldByRef(b, alloc)
  \/ x = None /\ alloc[ip] = b

HolderStep(b, ps, qs) ==
  \/ \A p \in Pools : qs[p].alloc = ps[p].alloc
  \/ \E p \in Pools, ip \in IPs, x \in {b, None} :
       /\ MaySet(b, ps[p].alloc, ip, x)
       /\ qs[p].alloc = [ps[p].alloc EXCEPT ![ip] = x]
       /\ \A q \in Pools \ {p} : qs[q].alloc = ps[q].alloc

\* A DEL of b makes no entry for b.
AddsOnlyInAdd(b, ps, qs) ==
  call[b].mode = "DEL" =>
    \A q \in Pools, ip \in IPs : qs[q].alloc[ip] = b => ps[q].alloc[ip] = b

WithEntry(alloc, ip, x) == [alloc EXCEPT ![ip] = x]

WithPool(ps, p, pool) == [ps EXCEPT ![p] = pool]

\* Update under the resourceVersion test acts on the pool that was read.
LEMMA UpdateStep ==
  ASSUME NEW b \in Attachments, NEW ps, PoolsOK(ps), NEW p \in Pools, NEW snap \in Pool,
         Clean(snap, ps[p]), ps[p].rv = snap.rv, NEW ip \in IPs, NEW x \in {b, None},
         MaySet(b, snap.alloc, ip, x), NEW qs,
         qs = WithPool(ps, p, Patched(ps[p], WithEntry(snap.alloc, ip, x)))
  PROVE  /\ PoolsOK(qs) /\ Later(ps, qs) /\ HolderStep(b, ps, qs)
         /\ qs[p].alloc = WithEntry(snap.alloc, ip, x)
         /\ snap.alloc[ip] # x => snap.rv < qs[p].rv
<1> DEFINE new == WithEntry(snap.alloc, ip, x)
<1>1. snap = ps[p] /\ snap.rv \in Nat /\ snap.alloc \in Allocations
  BY Zenon DEF Clean, Pool
<1>2. new \in Allocations /\ new[ip] = x
  BY <1>1 DEF Allocations, WithEntry
<1>3. qs[p] = Patched(ps[p], new) /\ \A q \in Pools \ {p} : qs[q] = ps[q]
  BY Zenon DEF PoolsOK, WithPool
<1> HIDE DEF new
<1>4. CASE new = snap.alloc
  <2>1. qs[p] = ps[p]
    BY <1>1, <1>3, <1>4 DEF Patched
  <2>2. qs = ps
    BY <1>3, <2>1, Zenon DEF PoolsOK, WithPool
  <2> QED
    BY <1>1, <1>2, <1>4, <2>2, Zenon DEF Later, HolderStep, new
<1>5. CASE new # snap.alloc
  <2>1. qs[p] = [rv |-> snap.rv + 1, alloc |-> new]
    BY <1>1, <1>3, <1>5, Zenon DEF Patched
  <2>2. qs[p] \in Pool /\ qs[p].rv = snap.rv + 1 /\ qs[p].alloc = new
    BY <1>1, <1>2, <2>1 DEF Pool
  <2>3. qs[p].rv > ps[p].rv /\ qs[p].rv # 0
    BY <1>1, <2>2
  <2>4. PoolsOK(qs)
    BY <1>3, <2>2, <2>3, Zenon DEF PoolsOK, WithPool
  <2>5. Later(ps, qs)
    BY <1>3, <2>3, Zenon DEF Later
  <2>6. HolderStep(b, ps, qs)
    <3>1. /\ MaySet(b, ps[p].alloc, ip, x)
          /\ qs[p].alloc = [ps[p].alloc EXCEPT ![ip] = x]
          /\ \A q \in Pools \ {p} : qs[q].alloc = ps[q].alloc
      BY <1>1, <1>3, <2>2 DEF new, WithEntry
    <3> QED
      BY <3>1, ZenonT(60) DEF HolderStep
  <2> QED
    BY <1>1, <2>2, <2>3, <2>4, <2>5, <2>6, Zenon DEF new
<1> QED
  BY <1>4, <1>5, Zenon

\* GetIPPool creates an empty pool.
LEMMA CreateStep ==
  ASSUME NEW b \in Attachments, NEW ps, PoolsOK(ps), NEW p \in Pools, ps[p].rv = 0
  PROVE  LET qs == [ps EXCEPT ![p].rv = 1]
         IN  PoolsOK(qs) /\ Later(ps, qs) /\ HolderStep(b, ps, qs)
<1> DEFINE qs == [ps EXCEPT ![p].rv = 1]
<1>1. ps[p] \in Pool /\ ps[p].alloc \in Allocations
  BY DEF PoolsOK, Pool
<1>2. qs[p] \in Pool /\ qs[p].rv = 1 /\ qs[p].alloc = ps[p].alloc
  BY <1>1 DEF PoolsOK, Pool
<1>3. qs \in [Pools -> Pool] /\ \A q \in Pools \ {p} : qs[q] = ps[q]
  BY <1>2, Zenon DEF PoolsOK
<1> HIDE DEF qs
<1>4. PoolsOK(qs) /\ Later(ps, qs) /\ HolderStep(b, ps, qs)
  BY <1>2, <1>3 DEF PoolsOK, Later, HolderStep
<1> QED
  BY <1>4 DEF qs

\* A step that leaves the pools alone is a permitted pool step.
LEMMA KeepStep ==
  ASSUME NEW b \in Attachments, NEW ps
  PROVE  Later(ps, ps) /\ HolderStep(b, ps, ps)
BY DEF Later, HolderStep

\* Nobody else records an address for a.
LEMMA NoNewEntry ==
  ASSUME NEW a \in Attachments, NEW b \in Attachments, a # b, NEW ps, NEW qs,
         PoolsOK(ps), HolderStep(b, ps, qs),
         NEW p \in Pools, NEW ip \in IPs, qs[p].alloc[ip] = a
  PROVE  ps[p].alloc[ip] = a
<1>1. \A q \in Pools : ps[q].alloc \in Allocations
  BY DEF PoolsOK, Pool
<1> QED
  BY <1>1, NoneAssumption, ZenonT(60) DEF HolderStep, Allocations

\* Another attachment's step leaves the invariant of a call alone.
LEMMA FrameOK ==
  ASSUME NEW a \in Attachments, NEW c \in Call, NEW ps, NEW qs, PoolsOK(ps), PoolsOK(qs),
         Later(ps, qs), RecOK(a, c, ps),
         \A p \in Pools, ip \in IPs : qs[p].alloc[ip] = a => ps[p].alloc[ip] = a
  PROVE  RecOK(a, c, qs)
<1>1. \A p \in Pools : ps[p].rv \in Nat /\ qs[p].rv \in Nat
  BY DEF PoolsOK, Pool
<1>2. \A i \in RangeIdx(a) : PoolOf(a, i) \in Pools
  BY RangePool
<1>3. \A p \in Pools, snap \in Pool : Clean(snap, ps[p]) => Clean(snap, qs[p])
  BY <1>1, SMT, SMTT(60) DEF Clean, Later, Pool
<1>4. \A h \in Commit : h.idx \in RangeIdx(a) /\ Outdated(a, h, ps) => Outdated(a, h, qs)
  BY <1>1, <1>2 DEF Outdated, Later, Commit, Pool
<1>5. /\ c.snap \in Pool /\ c.idx \in RangeIdx(a) /\ c.commits \in Seq(Commit) /\ c.rbq \in Seq(Commit)
      /\ \A k \in DOMAIN c.commits : c.commits[k] \in Commit /\ c.commits[k].idx \in RangeIdx(a)
      /\ \A k \in DOMAIN c.rbq : c.rbq[k] \in Commit /\ c.rbq[k].idx \in RangeIdx(a)
  BY SMT, SMTT(60) DEF RecOK, WellFormed, Call
<1>6. c.pc \in RollingBack => Head(c.rbq).idx \in RangeIdx(a)
  BY <1>5 DEF RecOK, WellFormed
<1>7. Released(a, c, qs)
  BY <1>2, Zenon DEF RecOK, Released, FreeOf
<1>8. c.pc \in Attempting => Clean(c.snap, qs[PoolOf(a, c.idx)])
  BY <1>2, <1>3, <1>5, Zenon DEF RecOK, Snapshot
<1>9. c.pc = "createorip" /\ c.created => c.snap.rv < qs[PoolOf(a, c.idx)].rv
  <2> DEFINE p == PoolOf(a, c.idx)
  <2>1. p \in Pools /\ ps[p].rv \in Nat /\ qs[p].rv \in Nat /\ c.snap.rv \in Nat
    BY <1>1, <1>2, <1>5, Zenon DEF Pool
  <2>2. c.pc = "createorip" /\ c.created => c.snap.rv < ps[p].rv
    BY Zenon DEF RecOK, Snapshot
  <2>3. qs[p] = ps[p] \/ qs[p].rv > ps[p].rv
    BY <2>1, Zenon DEF Later
  <2> HIDE DEF p
  <2>4. c.pc = "createorip" /\ c.created => c.snap.rv < qs[p].rv
    BY <2>1, <2>2, <2>3
  <2> QED
    BY <2>4, Zenon DEF p
<1>10. /\ \A k \in DOMAIN c.commits : Outdated(a, c.commits[k], qs)
       /\ \A k \in DOMAIN c.rbq : Outdated(a, c.rbq[k], qs)
  BY <1>4, <1>5, Zenon DEF RecOK, Snapshot
<1>11. ASSUME c.pc = "rbpatch"
       PROVE  /\ c.rbtry = 1 => c.snap.rv < qs[PoolOf(a, Head(c.rbq).idx)].rv
              /\ c.rbtry # 1 => Clean(c.snap, qs[PoolOf(a, Head(c.rbq).idx)])
  <2> DEFINE p == PoolOf(a, Head(c.rbq).idx)
  <2>1. p \in Pools
    BY <1>2, <1>6, <1>11, Zenon DEF RollingBack
  <2>2. /\ c.rbtry = 1 => c.snap.rv < ps[p].rv
        /\ c.rbtry # 1 => Clean(c.snap, ps[p])
    BY <1>11 DEF RecOK, Snapshot
  <2> HIDE DEF p
  <2>3. c.snap.rv < ps[p].rv => c.snap.rv < qs[p].rv
    BY <1>1, <1>5, <2>1, SMT, SMTT(60) DEF Later, Pool
  <2> QED
    BY <1>3, <1>5, <2>1, <2>2, <2>3, Zenon DEF p
<1>12. Snapshot(a, c, qs)
  BY <1>8, <1>9, <1>10, <1>11, Zenon DEF RecOK, Snapshot
<1> QED
  BY <1>7, <1>12 DEF RecOK
-----------------------------------------------------------------------------
(* The inductive invariant and its preservation by one attachment.         *)

IInv ==
  /\ PoolsOK(pools)
  /\ orips \in [IPs -> Reservation \cup {None}]
  /\ faults \in Nat
  /\ call \in [Attachments -> Call]
  /\ \A a \in Attachments : RecOK(a, call[a], pools)
  /\ OneIPPerInterface

\* A permitted change of holders keeps one address per pod interface and pool.
LEMMA OneIPStep ==
  ASSUME NEW b \in Attachments, PoolsOK(pools), PoolsOK(pools'), OneIPPerInterface,
         HolderStep(b, pools, pools')
  PROVE  OneIPPerInterface'
<1> SUFFICES ASSUME NEW p \in Pools, NEW i \in IPs, NEW j \in IPs,
                    pools'[p].alloc[i] # None, pools'[p].alloc[j] # None,
                    Ref[pools'[p].alloc[i]] = Ref[pools'[p].alloc[j]]
             PROVE  i = j
  BY Zenon DEF OneIPPerInterface
<1>1. pools[p].alloc \in Allocations
  BY Zenon DEF PoolsOK, Pool
<1>2. CASE pools'[p].alloc = pools[p].alloc
  BY <1>2, SMT, SMTT(60) DEF OneIPPerInterface
<1>3. CASE \E ip \in IPs, x \in {b, None} :
             MaySet(b, pools[p].alloc, ip, x) /\ pools'[p].alloc = [pools[p].alloc EXCEPT ![ip] = x]
  <2> PICK ip \in IPs, x \in {b, None} :
             MaySet(b, pools[p].alloc, ip, x) /\ pools'[p].alloc = [pools[p].alloc EXCEPT ![ip] = x]
    BY <1>3, Zenon
  <2>1. /\ pools'[p].alloc[ip] = x
        /\ \A k \in IPs \ {ip} : pools'[p].alloc[k] = pools[p].alloc[k]
    BY <1>1, Zenon DEF Allocations
  <2>2. \A k \in IPs \ {ip} :
          x = b /\ pools[p].alloc[k] # None => Ref[pools[p].alloc[k]] # Ref[b]
    BY NoneAssumption DEF MaySet, HeldByRef, OneIPPerInterface
  <2> QED
    BY <2>1, <2>2, SMT, SMTT(60) DEF OneIPPerInterface
<1> QED
  BY <1>2, <1>3, ZenonT(60) DEF HolderStep

\* A step of one attachment that changes its record and the pools as
\* permitted preserves the invariant.
LEMMA StepInv ==
  ASSUME IInv, NEW b \in Attachments, NEW d, call' = [call EXCEPT ![b] = d],
         RecOK(b, d, pools'),
         PoolsOK(pools'), Later(pools, pools'), HolderStep(b, pools, pools'),
         orips' \in [IPs -> Reservation \cup {None}], faults' \in Nat
  PROVE  IInv'
<1>1. d \in Call
  BY DEF RecOK
<1>2. call' \in [Attachments -> Call]
  BY <1>1 DEF IInv
<1>3. ASSUME NEW a \in Attachments PROVE RecOK(a, call'[a], pools')
  <2>1. CASE a = b
    BY <2>1, Zenon DEF IInv
  <2>2. CASE a # b
    <3>1. call'[a] = call[a] /\ call[a] \in Call /\ RecOK(a, call[a], pools)
      BY <2>2 DEF IInv
    <3>2. \A p \in Pools, ip \in IPs : pools'[p].alloc[ip] = a => pools[p].alloc[ip] = a
      BY <2>2, NoNewEntry DEF IInv
    <3> QED
      BY <3>1, <3>2, FrameOK DEF IInv
  <2> QED
    BY <2>1, <2>2
<1>4. OneIPPerInterface'
  BY OneIPStep DEF IInv
<1> QED
  BY <1>2, <1>3, <1>4 DEF IInv

\* A step that leaves the pools alone.
LEMMA LocalInv ==
  ASSUME IInv, NEW b \in Attachments, NEW d, call' = [call EXCEPT ![b] = d],
         RecOK(b, d, pools), UNCHANGED pools,
         orips' \in [IPs -> Reservation \cup {None}], faults' \in Nat
  PROVE  IInv'
<1>1. PoolsOK(pools') /\ RecOK(b, d, pools')
  BY DEF IInv
<1>2. Later(pools, pools') /\ HolderStep(b, pools, pools')
  BY KeepStep
<1> QED
  BY <1>1, <1>2, StepInv, Zenon

\* What the invariant says of the record of one call.
LEMMA CallFacts ==
  ASSUME IInv, NEW b \in Attachments
  PROVE  /\ call[b] \in Call /\ RecOK(b, call[b], pools) /\ Base(b, call[b], pools)
         /\ WellFormed(b, call[b]) /\ Snapshot(b, call[b], pools) /\ Released(b, call[b], pools)
         /\ PoolOf(b, call[b].idx) \in Pools
<1>1. RecOK(b, call[b], pools)
  BY DEF IInv
<1>2. call[b] \in Call /\ Base(b, call[b], pools)
  BY <1>1, RecBase, Zenon
<1>3. PoolOf(b, call[b].idx) \in Pools
  BY <1>2, RangePool, Zenon DEF Base
<1> QED
  BY <1>1, <1>2, <1>3 DEF RecOK

\* Deleting or creating a reservation keeps the type of the reservations.
LEMMA OripTypes ==
  ASSUME IInv, NEW b \in Attachments, call[b].ip \in IPs
  PROVE  /\ DeleteOrip(b) => orips' \in [IPs -> Reservation \cup {None}]
         /\ [orips EXCEPT ![call[b].ip] = [ref |-> Ref[b], uid |-> PodUID[b]]]
              \in [IPs -> Reservation \cup {None}]
BY ConfigAssumption, Zenon DEF IInv, DeleteOrip, Reservation

\* Control points without a pool object in hand.
LEMMA PlainOK ==
  ASSUME NEW a \in Attachments, NEW d \in Call, NEW ps, Base(a, d, ps),
         d.pc \in {"read", "create"}, d.pc = "create" => d.mode = "ADD"
  PROVE  RecOK(a, d, ps)
BY Zenon DEF RecOK, WellFormed, Snapshot, Released, Base, Attempting, Reserving, RollingBack

\* Control points between the read of a pool and its update.
LEMMA AttemptOK ==
  ASSUME NEW a \in Attachments, NEW d \in Call, NEW ps, Base(a, d, ps),
         d.pc \in Attempting, d.ip \in IPs, d.pc # "patch" => d.mode = "ADD",
         Clean(d.snap, ps[PoolOf(a, d.idx)]),
         d.mode = "ADD" /\ d.created => d.snap.alloc[d.ip] = None /\ HeldByRef(a, d.snap.alloc) = {},
         d.mode = "ADD" /\ ~d.created => d.ip \in HeldByRef(a, d.snap.alloc),
         d.mode = "DEL" => d.snap.alloc[d.ip] = a
  PROVE  RecOK(a, d, ps)
<1>1. WellFormed(a, d)
  BY Zenon DEF WellFormed, Base, Attempting, Reserving, RollingBack
<1>2. Snapshot(a, d, ps)
  BY DEF Snapshot, Base, Attempting
<1>3. Released(a, d, ps)
  BY Zenon DEF Released, Base, Attempting
<1> QED
  BY <1>1, <1>2, <1>3 DEF RecOK

\* Going on to another request of the same attempt keeps the invariant.
LEMMA AttemptNextOK ==
  ASSUME NEW a \in Attachments, NEW c \in Call, NEW d \in Call, NEW ps, RecOK(a, c, ps),
         c.pc \in Attempting, d.pc \in Attempting, c.mode = "ADD",
         d.mode = c.mode, d.idx = c.idx, d.ip = c.ip, d.snap = c.snap,
         d.created = c.created, d.commits = c.commits, d.rbq = c.rbq
  PROVE  RecOK(a, d, ps)
<1>1. Base(a, d, ps)
  BY RecBase, Zenon DEF Base
<1>2. /\ c.ip \in IPs /\ Clean(c.snap, ps[PoolOf(a, c.idx)])
      /\ c.created => c.snap.alloc[c.ip] = None /\ HeldByRef(a, c.snap.alloc) = {}
      /\ ~c.created => c.ip \in HeldByRef(a, c.snap.alloc)
  BY Zenon DEF RecOK, WellFormed, Snapshot
<1>3. /\ d.ip \in IPs /\ Clean(d.snap, ps[PoolOf(a, d.idx)])
      /\ d.created => d.snap.alloc[d.ip] = None /\ HeldByRef(a, d.snap.alloc) = {}
      /\ ~d.created => d.ip \in HeldByRef(a, d.snap.alloc)
      /\ d.mode = "ADD" /\ d.mode # "DEL"
  BY <1>2, Zenon
<1> QED
  BY <1>1, <1>3, AttemptOK, Zenon

\* Base is kept by a step of the call's own ADD.
LEMMA BaseFrame ==
  ASSUME NEW a \in Attachments, NEW c \in Call, NEW ps, NEW qs, PoolsOK(ps), PoolsOK(qs),
         Later(ps, qs), Base(a, c, ps),
         c.mode = "DEL" =>
           \A p \in Pools, ip \in IPs : qs[p].alloc[ip] = a => ps[p].alloc[ip] = a
  PROVE  Base(a, c, qs)
<1>1. \A p \in Pools : ps[p].rv \in Nat /\ qs[p].rv \in Nat
  BY DEF PoolsOK, Pool
<1>2. \A i \in RangeIdx(a) : PoolOf(a, i) \in Pools
  BY RangePool, Zenon
<1>3. \A h \in Commit : h.idx \in RangeIdx(a) /\ Outdated(a, h, ps) => Outdated(a, h, qs)
  BY <1>1, <1>2 DEF Outdated, Later, Commit, Pool
<1>4. /\ \A k \in DOMAIN c.commits : c.commits[k] \in Commit
      /\ \A k \in DOMAIN c.rbq : c.rbq[k] \in Commit
  BY DEF Call
<1>5. c.mode = "DEL" => \A i \in RangeIdx(a) : i < c.idx => FreeOf(a, PoolOf(a, i), qs)
  BY <1>2 DEF Base, FreeOf
<1> QED
  BY <1>3, <1>4, <1>5 DEF Base
-----------------------------------------------------------------------------
(* What the updates of an attempt and of a rollback do.                    *)

\* AssignIP returns the address of an existing entry of the pod interface, or,
\* when there is none, one that is free in the pool.
LEMMA AssignIPPicks ==
  ASSUME NEW a \in Attachments, NEW p \in Pools, NEW alloc \in Allocations,
         NEW dummies, NEW pref, NEW ip \in AssignIP(a, p, alloc, dummies, pref)
  PROVE  /\ ip \in IPs
         /\ ip \notin HeldByRef(a, alloc) => alloc[ip] = None /\ HeldByRef(a, alloc) = {}
<1>1. CASE HeldByRef(a, alloc) # {}
  BY <1>1 DEF AssignIP, HeldByRef
<1>2. CASE HeldByRef(a, alloc) = {}
  <2>1. FirstOf(Candidates[p], Unreserved(alloc, dummies)) \subseteq Unreserved(alloc, dummies)
    BY DEF FirstOf
  <2>2. ip \in Unreserved(alloc, dummies)
    BY <1>2, <2>1 DEF AssignIP
  <2> QED
    BY <1>2, <2>2 DEF Unreserved
<1> QED
  BY <1>1, <1>2

\* The update of an attempt: what it did to the pools, and where the call is.
LEMMA AttemptUpdate ==
  ASSUME IInv, NEW b \in Attachments, call[b].pc = "patch",
         UpdatePool(PoolOf(b, call[b].idx), call[b].snap, NewAlloc(b, call[b]))
  PROVE  /\ PoolsOK(pools') /\ Later(pools, pools') /\ HolderStep(b, pools, pools')
         /\ InMemory(b, call[b]) \in Call
         /\ Base(b, InMemory(b, call[b]), pools')
         /\ Committable(b, InMemory(b, call[b]), pools')
         /\ LET d == InMemory(b, call[b])
            IN  d.ip \in IPs /\ (d.mode = "ADD" /\ d.created => d.snap.alloc[d.ip] = b)
         /\ AddsOnlyInAdd(b, pools, pools')
<1> DEFINE c == call[b]
           p == PoolOf(b, c.idx)
           x == IF c.mode = "ADD" THEN b ELSE None
           new == NewAlloc(b, c)
           d == InMemory(b, c)
<1>1. /\ c \in Call /\ Base(b, c, pools) /\ Snapshot(b, c, pools) /\ p \in Pools
      /\ c.ip \in IPs /\ c.mode \in {"ADD", "DEL"} /\ c.created \in BOOLEAN
      /\ c.snap \in Pool /\ c.snap.alloc \in Allocations
  BY CallFacts, Zenon DEF WellFormed, Attempting, Call, Pool
<1>2. new = WithEntry(c.snap.alloc, c.ip, x) /\ x \in {b, None}
  BY DEF NewAlloc, WithEntry
<1>3. /\ Clean(c.snap, pools[p])
      /\ c.mode = "ADD" /\ c.created => c.snap.alloc[c.ip] = None /\ HeldByRef(b, c.snap.alloc) = {}
      /\ c.mode = "ADD" /\ ~c.created => c.ip \in HeldByRef(b, c.snap.alloc)
      /\ c.mode = "DEL" => c.snap.alloc[c.ip] = b
  BY <1>1, Zenon DEF Snapshot, Attempting
<1>4. MaySet(b, c.snap.alloc, c.ip, x)
  BY <1>1, <1>3, Zenon DEF MaySet
<1>5. pools[p].rv = c.snap.rv /\ pools' = WithPool(pools, p, Patched(pools[p], new))
  BY DEF UpdatePool, VersionMatches, WithPool
<1>6. x = b \/ (x = None /\ c.mode = "DEL")
  BY <1>1, Zenon
<1> HIDE DEF x, new
<1>7. /\ PoolsOK(pools') /\ Later(pools, pools') /\ HolderStep(b, pools, pools')
      /\ pools'[p].alloc = new
      /\ c.snap.alloc[c.ip] # x => c.snap.rv < pools'[p].rv
  <2> HIDE DEF c, p
  <2>1. PoolsOK(pools)
    BY DEF IInv
  <2>2. /\ p \in Pools /\ c.snap \in Pool /\ c.ip \in IPs /\ Clean(c.snap, pools[p])
    BY <1>1, <1>3, Zenon
  <2>3. pools' = WithPool(pools, p, Patched(pools[p], WithEntry(c.snap.alloc, c.ip, x)))
    BY <1>2, <1>5, Zenon
  <2>4. pools[p].rv = c.snap.rv /\ x \in {b, None}
    BY <1>2, <1>5, ZenonT(60)
  <2>5. /\ PoolsOK(pools') /\ Later(pools, pools') /\ HolderStep(b, pools, pools')
        /\ pools'[p].alloc = WithEntry(c.snap.alloc, c.ip, x)
        /\ c.snap.alloc[c.ip] # x => c.snap.rv < pools'[p].rv
    BY <1>4, <2>1, <2>2, <2>3, <2>4, UpdateStep, SMT, SMTT(60)
  <2> QED
    BY <1>2, <2>5, Zenon
<1>8. new \in Allocations /\ new[c.ip] = x /\ \A ip \in IPs \ {c.ip} : new[ip] = c.snap.alloc[ip]
  BY <1>1, <1>2, Zenon DEF Allocations, WithEntry
<1>9. d \in Call
  <2>1. [c.snap EXCEPT !.alloc = new] \in Pool
    BY <1>1, <1>8 DEF Pool
  <2>2. d = [c EXCEPT !.snap = [c.snap EXCEPT !.alloc = new]]
    BY <1>1 DEF InMemory, new, Call
  <2> QED
    BY <1>1, <2>1, <2>2, ZenonT(60) DEF Call
<1>10. /\ d.mode = c.mode /\ d.idx = c.idx /\ d.ip = c.ip /\ d.created = c.created
       /\ d.commits = c.commits /\ d.rbq = c.rbq
       /\ d.snap.rv = c.snap.rv /\ d.snap.alloc = new
  BY <1>1 DEF InMemory, new, Call, Pool
<1> HIDE DEF d
<1>11. ASSUME c.mode = "DEL"
       PROVE  /\ \A q \in Pools, ip \in IPs : pools'[q].alloc[ip] = b => pools[q].alloc[ip] = b
              /\ FreeOf(b, p, pools')
  <2>1. x = None /\ c.snap = pools[p] /\ c.snap.alloc[c.ip] = b
    BY <1>3, <1>5, <1>11 DEF Clean, x
  <2>2. \A q \in Pools \ {p} : pools'[q] = pools[q]
    BY <1>1, <1>5, Zenon DEF IInv, PoolsOK, WithPool
  <2>3. \A ip \in IPs : pools'[p].alloc[ip] = b => ip # c.ip /\ pools[p].alloc[ip] = b
    BY <1>7, <1>8, <2>1, NoneAssumption, ZenonT(60)
  <2>4. \A ip \in IPs : pools[p].alloc[ip] = b => ip = c.ip
    BY <1>1, <2>1, NoneAssumption DEF IInv, OneIPPerInterface
  <2> QED
    BY <2>2, <2>3, <2>4, ZenonT(60) DEF FreeOf
<1>12. Base(b, c, pools')
  BY <1>1, <1>7, <1>11, BaseFrame, ZenonT(60) DEF IInv
<1>13. Base(b, d, pools')
  BY <1>10, <1>12, Zenon DEF Base
<1>14. c.mode = "ADD" => x = b
  BY DEF x
<1>15. Committable(b, d, pools')
  BY <1>1, <1>3, <1>7, <1>10, <1>11, <1>14, NoneAssumption, ZenonT(60) DEF Committable
<1>16. d.ip \in IPs /\ (d.mode = "ADD" /\ d.created => d.snap.alloc[d.ip] = b)
  BY <1>1, <1>8, <1>10, <1>14, Zenon
<1> QED
  BY <1>7, <1>9, <1>11, <1>13, <1>15, <1>16, Zenon DEF d, AddsOnlyInAdd

\* What the invariant says of a call that is rolling a commit back.
LEMMA RollbackFacts ==
  ASSUME IInv, NEW b \in Attachments, call[b].pc \in RollingBack
  PROVE  /\ call[b] \in Call /\ Base(b, call[b], pools) /\ call[b].mode = "ADD"
         /\ call[b].ip \in IPs /\ call[b].rbq # <<>> /\ call[b].rbtry \in Nat /\ call[b].rbtry > 0
         /\ Head(call[b].rbq).idx \in RangeIdx(b)
         /\ PoolOf(b, Head(call[b].rbq).idx) \in Pools
<1> DEFINE c == call[b]
<1>1. /\ c \in Call /\ Base(b, c, pools) /\ c.mode = "ADD" /\ c.ip \in IPs
      /\ c.rbq # <<>> /\ c.rbtry \in Nat /\ c.rbtry > 0 /\ c.rbq \in Seq(Commit)
  BY CallFacts, Zenon DEF WellFormed, RollingBack, Call
<1>2. 1 \in DOMAIN c.rbq /\ Head(c.rbq) = c.rbq[1]
  BY <1>1
<1>3. Head(c.rbq).idx \in RangeIdx(b)
  BY <1>1, <1>2, Zenon DEF Base
<1> QED
  BY <1>1, <1>3, RangePool

\* The update of a rollback releases an address of the call's own.
LEMMA RollbackUpdate ==
  ASSUME IInv, NEW b \in Attachments, call[b].pc = "rbpatch",
         UpdatePool(PoolOf(b, Head(call[b].rbq).idx), call[b].snap,
                    [call[b].snap.alloc EXCEPT ![call[b].ip] = None])
  PROVE  /\ PoolsOK(pools') /\ Later(pools, pools') /\ HolderStep(b, pools, pools')
         /\ Base(b, call[b], pools')
<1> DEFINE c == call[b]
           p == PoolOf(b, Head(c.rbq).idx)
           new == WithEntry(c.snap.alloc, c.ip, None)
<1>1. /\ c \in Call /\ Base(b, c, pools) /\ c.mode = "ADD" /\ c.ip \in IPs /\ p \in Pools
      /\ c.snap \in Pool /\ c.snap.rv \in Nat /\ pools[p].rv \in Nat
  BY RollbackFacts, ZenonT(60) DEF RollingBack, Call, Pool, IInv, PoolsOK
<1>2. pools[p].rv = c.snap.rv /\ pools' = WithPool(pools, p, Patched(pools[p], new))
  BY Zenon DEF UpdatePool, VersionMatches, WithPool, WithEntry
<1>3. c.snap.alloc[c.ip] = b /\ Clean(c.snap, pools[p])
  <2>1. Snapshot(b, c, pools)
    BY CallFacts
  <2>2. c.snap.alloc[c.ip] = b /\ (c.snap.rv < pools[p].rv \/ Clean(c.snap, pools[p]))
    BY <2>1, Zenon DEF Snapshot
  <2> HIDE DEF p, c
  <2>3. ~(c.snap.rv < pools[p].rv)
    BY <1>1, <1>2
  <2> QED
    BY <2>2, <2>3, Zenon
<1>4. MaySet(b, c.snap.alloc, c.ip, None) /\ None \in {b, None}
  BY <1>3, ZenonT(60) DEF MaySet
<1> HIDE DEF p, c
<1>5. PoolsOK(pools') /\ Later(pools, pools') /\ HolderStep(b, pools, pools')
  BY <1>1, <1>2, <1>3, <1>4, UpdateStep DEF IInv, new
<1>6. Base(b, c, pools')
  BY <1>1, <1>5, BaseFrame, Zenon DEF IInv
<1> QED
  BY <1>5, <1>6 DEF c

\* The steps of a running call change the recorded holders the way its
\* attachment may.
LEMMA HolderSteps ==
  ASSUME IInv, NEW b \in Attachments, Step(b) \/ Fault(b)
  PROVE  pools' = pools \/ (HolderStep(b, pools, pools') /\ AddsOnlyInAdd(b, pools, pools'))
<1> DEFINE c == call[b]
           p == PoolOf(b, c.idx)
<1>1. CASE c.pc = "patch" /\ UpdatePool(p, c.snap, NewAlloc(b, c))
  BY <1>1, AttemptUpdate, Zenon
<1>2. CASE /\ c.pc = "rbpatch"
           /\ UpdatePool(PoolOf(b, Head(c.rbq).idx), c.snap, [c.snap.alloc EXCEPT ![c.ip] = None])
  <2>1. c.mode = "ADD"
    BY <1>2, RollbackFacts DEF RollingBack
  <2> QED
    BY <1>2, <2>1, RollbackUpdate, Zenon DEF AddsOnlyInAdd
<1>3. CASE c.pc = "create" /\ pools[p].rv = 0 /\ pools' = [pools EXCEPT ![p].rv = 1]
  <2>1. p \in Pools /\ PoolsOK(pools) /\ c.mode = "ADD"
    BY <1>3, CallFacts DEF IInv, WellFormed
  <2> QED
    BY <1>3, <2>1, CreateStep, Zenon DEF AddsOnlyInAdd
<1>4. ASSUME ~CreatePool(b), ~Patch(b), ~RollbackPatch(b), ~ReplyLost(b) PROVE UNCHANGED pools
  BY <1>4, Zenon DEF Step, Fault, ReadMissing, ReadForAdd, ReadForDel, GetOrip, StaleGet, StaleDel,
     CreateOrip, DelGet, DelDel, RollbackBegin, RollbackRead, RollbackOripGet, RollbackOripDel,
     RequestFails, Crash
<1>5. CASE CreatePool(b)
  BY <1>3, <1>5 DEF CreatePool, At
<1>6. CASE Patch(b)
  BY <1>1, <1>6, Zenon DEF Patch, At
<1>7. CASE RollbackPatch(b)
  BY <1>2, <1>7, Zenon DEF RollbackPatch, At
<1>8. CASE ReplyLost(b)
  BY <1>1, <1>2, <1>3, <1>8, Zenon DEF ReplyLost
<1> QED
  BY <1>4, <1>5, <1>6, <1>7, <1>8

-----------------------------------------------------------------------------
(* What an attachment has entered into the pools and what is reserved for  *)
(* its pod interface, against what its call has committed.                 *)

\* The entries of a in the pools ps, and the reservations of its pod interface
\* among os.
Entries(a, ps)  == {e \in Pools \X IPs : ps[e[1]].alloc[e[2]] = a}

Reserved(a, os) == {ip \in IPs : os[ip] # None /\ os[ip].ref = Ref[a]}

\* A commit whose entry was written; a range that ran out of attempts leaves
\* one that was not.
Real(a, h)  == h.snap.alloc[h.ip] = a

Reals(a, q) == {k \in DOMAIN q : Real(a, q[k])}

Spot(a, h)  == <<PoolOf(a, h.idx), h.ip>>

Spots(a, q) == {Spot(a, q[k]) : k \in Reals(a, q)}

Addrs(a, q) == {q[k].ip : k \in Reals(a, q)}

\* The commits kept for a rollback: entry and reservation together, no address
\* twice.
Committed(a, q) ==
  /\ \A k \in DOMAIN q : q[k].pool /\ (q[k].orip <=> Real(a, q[k]))
  /\ \A j, k \in Reals(a, q) : q[j].ip = q[k].ip => j = k

\* No commits.
LEMMA NoSpots ==
  ASSUME NEW a
  PROVE  Spots(a, <<>>) = {} /\ Addrs(a, <<>>) = {} /\ Committed(a, <<>>)
<1>1. Reals(a, <<>>) = {}
  BY DEF Reals
<1>2. \A k \in DOMAIN <<>> : FALSE
  OBVIOUS
<1> QED
  BY <1>1, <1>2, Zenon DEF Spots, Addrs, Committed

\* A sequence with one more element.
LEMMA AppendFacts ==
  ASSUME NEW S, NEW s \in Seq(S), NEW x \in S
  PROVE  /\ Append(s, x) \in Seq(S) /\ DOMAIN Append(s, x) = DOMAIN s \cup {Len(s) + 1}
         /\ Append(s, x)[Len(s) + 1] = x /\ Len(s) + 1 \notin DOMAIN s
         /\ \A k \in DOMAIN s : Append(s, x)[k] = s[k]
OBVIOUS

\* One more commit with a reservation.
LEMMA AppendReal ==
  ASSUME NEW a, NEW q \in Seq(Commit), NEW h \in Commit, Committed(a, q),
         h.pool, h.orip, Real(a, h), h.ip \notin Addrs(a, q)
  PROVE  /\ Committed(a, Append(q, h)) /\ Addrs(a, Append(q, h)) = Addrs(a, q) \cup {h.ip}
         /\ Spots(a, Append(q, h)) = Spots(a, q) \cup {Spot(a, h)}
<1> DEFINE n == Len(q) + 1
           r == Append(q, h)
<1>1. /\ DOMAIN r = DOMAIN q \cup {n} /\ n \notin DOMAIN q /\ r[n] = h
      /\ \A k \in DOMAIN q : r[k] = q[k]
  BY AppendFacts
<1> HIDE DEF n, r
<1>2. Reals(a, r) = Reals(a, q) \cup {n}
  BY <1>1, Zenon DEF Reals
<1>3. \A k \in Reals(a, q) : k \in DOMAIN q /\ r[k] = q[k] /\ k # n
  BY <1>1, Zenon DEF Reals
<1>4. \A k \in Reals(a, q) : q[k].ip \in Addrs(a, q)
  BY Zenon DEF Addrs
<1>5. Committed(a, r)
  <2>1. \A k \in DOMAIN r : r[k].pool /\ (r[k].orip <=> Real(a, r[k]))
    BY <1>1, Zenon DEF Committed
  <2>2. ASSUME NEW j \in Reals(a, r), NEW k \in Reals(a, r), r[j].ip = r[k].ip PROVE j = k
    <3>1. ASSUME NEW x \in Reals(a, q), r[x].ip = r[n].ip PROVE FALSE
      BY <1>1, <1>3, <1>4, <3>1, Zenon
    <3>2. CASE j \in Reals(a, q) /\ k \in Reals(a, q)
      BY <1>3, <2>2, <3>2, Zenon DEF Committed
    <3> QED
      BY <1>2, <2>2, <3>1, <3>2, Zenon
  <2> QED
    BY <2>1, <2>2, Zenon DEF Committed
<1>6. Addrs(a, r) = Addrs(a, q) \cup {h.ip}
  BY <1>1, <1>2, <1>3 DEF Addrs
<1>7. Spots(a, r) = Spots(a, q) \cup {Spot(a, h)}
  BY <1>1, <1>2, <1>3 DEF Spots
<1> QED
  BY <1>5, <1>6, <1>7, Zenon DEF r

\* One more commit without a reservation.
LEMMA AppendUnreal ==
  ASSUME NEW a, NEW q \in Seq(Commit), NEW h \in Commit, Committed(a, q),
         h.pool, ~h.orip, ~Real(a, h)
  PROVE  /\ Committed(a, Append(q, h)) /\ Addrs(a, Append(q, h)) = Addrs(a, q)
         /\ Spots(a, Append(q, h)) = Spots(a, q)
<1> DEFINE n == Len(q) + 1
           r == Append(q, h)
<1>1. /\ DOMAIN r = DOMAIN q \cup {n} /\ n \notin DOMAIN q /\ r[n] = h
      /\ \A k \in DOMAIN q : r[k] = q[k]
  BY AppendFacts
<1> HIDE DEF n, r
<1>2. Reals(a, r) = Reals(a, q)
  BY <1>1, Zenon DEF Reals
<1>3. \A k \in Reals(a, q) : k \in DOMAIN q /\ r[k] = q[k]
  BY <1>1, Zenon DEF Reals
<1>4. \A k \in DOMAIN r : r[k].pool /\ (r[k].orip <=> Real(a, r[k]))
  BY <1>1, Zenon DEF Committed
<1>5. Committed(a, r)
  BY <1>2, <1>3, <1>4, Zenon DEF Committed
<1>6. Spots(a, r) = Spots(a, q) /\ Addrs(a, r) = Addrs(a, q)
  BY <1>2, <1>3, Zenon DEF Spots, Addrs
<1> QED
  BY <1>5, <1>6, Zenon DEF r

\* One commit less.
LEMMA TailSpots ==
  ASSUME NEW a, NEW q \in Seq(Commit), q # <<>>, Committed(a, q)
  PROVE  /\ Tail(q) \in Seq(Commit) /\ Head(q) \in Commit
         /\ Committed(a, Tail(q))
         /\ Head(q).pool /\ (Head(q).orip <=> Real(a, Head(q)))
         /\ Real(a, Head(q)) => /\ Spots(a, q) = Spots(a, Tail(q)) \cup {Spot(a, Head(q))}
                                /\ Addrs(a, q) = Addrs(a, Tail(q)) \cup {Head(q).ip}
                                /\ Head(q).ip \notin Addrs(a, Tail(q))
         /\ ~Real(a, Head(q)) => Spots(a, q) = Spots(a, Tail(q)) /\ Addrs(a, q) = Addrs(a, Tail(q))
<1> DEFINE t == Tail(q)
           h == Head(q)
<1>1. t \in Seq(Commit) /\ h \in Commit /\ 1 \in DOMAIN q /\ q[1] = h
  OBVIOUS
<1>2. \A k \in DOMAIN t : k + 1 \in DOMAIN q /\ t[k] = q[k + 1] /\ k + 1 # 1
  OBVIOUS
<1>3. \A k \in DOMAIN q : k # 1 => \E j \in DOMAIN t : k = j + 1 /\ t[j] = q[k]
  <2> SUFFICES ASSUME NEW k \in DOMAIN q, k # 1 PROVE k - 1 \in DOMAIN t /\ k = (k - 1) + 1 /\ t[k - 1] = q[k]
    BY Zenon
  <2> QED
    OBVIOUS
<1>4. \A j, k \in DOMAIN t : j + 1 = k + 1 => j = k
  OBVIOUS
<1> HIDE DEF t, h
<1>5. \A k \in Reals(a, t) : k \in DOMAIN t /\ k + 1 \in Reals(a, q) /\ t[k] = q[k + 1] /\ k + 1 # 1
  BY <1>2, Zenon DEF Reals
<1>6. \A k \in Reals(a, q) : k # 1 => \E j \in Reals(a, t) : k = j + 1 /\ t[j] = q[k]
  BY <1>3, Zenon DEF Reals
<1>7. 1 \in Reals(a, q) <=> Real(a, h)
  BY <1>1, Zenon DEF Reals
<1>8. Committed(a, t)
  <2>1. \A k \in DOMAIN t : t[k].pool /\ (t[k].orip <=> Real(a, t[k]))
    BY <1>2, Zenon DEF Committed
  <2>2. \A j, k \in Reals(a, t) : t[j].ip = t[k].ip => j = k
    BY <1>4, <1>5 DEF Committed
  <2> QED
    BY <2>1, <2>2, Zenon DEF Committed
<1>9. h.pool /\ (h.orip <=> Real(a, h))
  BY <1>1, Zenon DEF Committed
<1>10. ASSUME Real(a, h) PROVE h.ip \notin Addrs(a, t)
  BY <1>1, <1>5, <1>7, <1>10 DEF Addrs, Committed
<1>11. ASSUME Real(a, h)
       PROVE  Spots(a, q) = Spots(a, t) \cup {Spot(a, h)} /\ Addrs(a, q) = Addrs(a, t) \cup {h.ip}
  <2>1. Spots(a, q) = Spots(a, t) \cup {Spot(a, h)}
    BY <1>1, <1>5, <1>6, <1>7, <1>11 DEF Spots
  <2>2. Addrs(a, q) = Addrs(a, t) \cup {h.ip}
    BY <1>1, <1>5, <1>6, <1>7, <1>11 DEF Addrs
  <2> QED
    BY <2>1, <2>2, Zenon
<1>12. ASSUME ~Real(a, h) PROVE Spots(a, q) = Spots(a, t) /\ Addrs(a, q) = Addrs(a, t)
  BY <1>5, <1>6, <1>7, <1>12 DEF Spots, Addrs
<1>13. Real(a, h) => /\ Spots(a, q) = Spots(a, t) \cup {Spot(a, h)}
                     /\ Addrs(a, q) = Addrs(a, t) \cup {h.ip}
                     /\ h.ip \notin Addrs(a, t)
  BY <1>10, <1>11, Zenon
<1>14. ~Real(a, h) => Spots(a, q) = Spots(a, t) /\ Addrs(a, q) = Addrs(a, t)
  BY <1>12, Zenon
<1> QED
  BY <1>1, <1>8, <1>9, <1>13, <1>14, Zenon DEF t, h
-----------------------------------------------------------------------------
(* Entries and reservations of one attachment, E and R, at every point of  *)
(* its calls.                                                              *)

Undoing == {"rollback"} \cup RollingBack

\* Every entry has its reservation and every reservation one entry.
Matched(E, R) ==
  /\ R = {e[2] : e \in E}
  /\ \A e, f \in E : e[2] = f[2] => e = f

\* All entries are in pools of its ranges.
InRange(a, E) == \A e \in E : \E i \in RangeIdx(a) : e[1] = PoolOf(a, i)

\* The ranges an ADD is through: what it committed is reserved, and barred from
\* the ranges to come.
Progress(a, c, R) ==
  /\ Committed(a, c.commits)
  /\ \A k \in DOMAIN c.commits : c.commits[k].ip \in c.dummies
  /\ R = Addrs(a, c.commits)
  /\ c.exhausted \/ \A k \in DOMAIN c.results : c.results[k] \in R

\* The spot the current range works on.
Here(a, c) == <<PoolOf(a, c.idx), c.ip>>

\* An ADD at work on a range.  A new address is not barred, so neither is it
\* reserved for an earlier range; one that is not new has been committed.  A
\* stale reservation is never met.
Adding(a, c, E, R) ==
  /\ Progress(a, c, R)
  /\ c.pc \in {"read", "create", "getorip", "patch", "createorip"}
  /\ c.pc # "createorip" => E = Spots(a, c.commits)
  /\ c.pc \in {"read", "create", "getorip"} => ~c.skip
  /\ c.pc \in {"getorip", "patch"} /\ c.created => c.ip \notin c.dummies
  /\ c.pc \in {"getorip", "patch"} /\ ~c.created => Here(a, c) \in E
  /\ c.pc = "patch" => (c.skip <=> ~c.created)
  /\ c.pc = "createorip" => /\ c.created /\ c.snap.alloc[c.ip] = a /\ c.ip \notin c.dummies
                            /\ E = Spots(a, c.commits) \cup {Here(a, c)}

\* The entry of the current range is given back before the next attempt.
Reverting(a, c, E, R) ==
  /\ Progress(a, c, R)
  /\ c.then = "retry"
  /\ c.pc \in {"rollback", "rbread", "rbpatch"}
  /\ c.rbq = <<>> => c.pc = "rollback" /\ E = Spots(a, c.commits)
  /\ c.rbq # <<>> =>
       LET h == Head(c.rbq)
       IN  /\ Tail(c.rbq) = <<>> /\ h.pool /\ ~h.orip /\ Real(a, h)
           /\ h.ip \notin c.dummies
           /\ c.pc # "rollback" => c.ip = h.ip
           /\ E = Spots(a, c.commits) \cup {Spot(a, h)}

\* The commits of a failed ADD are undone one by one, entry before reservation.
Unwinding(a, c, E, R) ==
  /\ Committed(a, c.rbq)
  /\ c.then = "failed"
  /\ c.pc # "rollback" => Real(a, Head(c.rbq)) /\ c.ip = Head(c.rbq).ip
  /\ R = Addrs(a, c.rbq)
  /\ c.pc \notin {"rboripget", "rboripdel"} => E = Spots(a, c.rbq)
  /\ c.pc \in {"rboripget", "rboripdel"} => E = Spots(a, Tail(c.rbq))

\* A DEL removes an entry, then its reservation; pending is an entry it means
\* to remove, still there as long as nobody else removes it.
Deleting(a, c, E, R) ==
  /\ c.pc \in {"read", "patch", "delget", "deldel"}
  /\ ~c.skip
  /\ c.pc \in {"read", "patch"} => Matched(E, R)
  /\ c.pc \in {"read", "patch"} /\ c.pending # None => <<PoolOf(a, c.idx), c.pending>> \in E
  /\ c.pc = "patch" => c.pending = c.ip
  /\ c.pc \in {"delget", "deldel"} => c.ip \in R /\ Matched(E, R \ {c.ip})

\* A call that has returned.
Returned(c, E, R) ==
  /\ Matched(E, R)
  /\ c.pc \in {"absent", "failed"} => E = {}
  /\ c.pc = "up" => c.exhausted \/ \A k \in DOMAIN c.results : c.results[k] \in R

\* The invariant of the entries and reservations of one attachment.
Tidy(a, c, E, R) ==
  /\ InRange(a, E)
  /\ c.pc \in Ended => Returned(c, E, R)
  /\ c.pc \in Undoing => Reverting(a, c, E, R) \/ Unwinding(a, c, E, R)
  /\ c.pc \notin Ended \cup Undoing => IF c.mode = "ADD" THEN Adding(a, c, E, R)
                                                        ELSE Deleting(a, c, E, R)
-----------------------------------------------------------------------------
(* The control-flow maps.                                                  *)

\* Between two ranges or two attempts.
Steady(a, c, E, R) ==
  /\ InRange(a, E)
  /\ c.mode = "ADD" => Progress(a, c, R) /\ E = Spots(a, c.commits)
  /\ c.mode = "DEL" => Matched(E, R)

\* What is committed is matched.
LEMMA SpotsMatched ==
  ASSUME NEW a, NEW q \in Seq(Commit), Committed(a, q)
  PROVE  Matched(Spots(a, q), Addrs(a, q))
<1>1. \A e \in Spots(a, q) : \E k \in Reals(a, q) : e = Spot(a, q[k])
  BY Zenon DEF Spots
<1>2. \A k \in Reals(a, q) : Spot(a, q[k])[2] = q[k].ip /\ Spot(a, q[k]) \in Spots(a, q)
  BY DEF Spot, Spots
<1>3. Addrs(a, q) = {e[2] : e \in Spots(a, q)}
  BY <1>1, <1>2 DEF Addrs
<1>4. ASSUME NEW e \in Spots(a, q), NEW f \in Spots(a, q), e[2] = f[2] PROVE e = f
  <2> PICK j \in Reals(a, q), k \in Reals(a, q) : e = Spot(a, q[j]) /\ f = Spot(a, q[k])
    BY <1>1, Zenon
  <2>1. q[j].ip = q[k].ip
    BY <1>2, <1>4, Zenon
  <2> QED
    BY <2>1, Zenon DEF Committed
<1> QED
  BY <1>3, <1>4, Zenon DEF Matched

\* The control-flow maps: a call that returns,
LEMMA FinishTidy ==
  ASSUME NEW a \in Attachments, NEW c, NEW E, NEW R, NEW pc \in Ended, InRange(a, E), Matched(E, R),
         pc \in {"absent", "failed"} => E = {},
         pc = "up" => c.exhausted \/ \A k \in DOMAIN c.results : c.results[k] \in R
  PROVE  Tidy(a, Finish(c, pc), E, R)
<1> DEFINE d == Finish(c, pc)
<1>1. d.pc = pc /\ d.results = c.results /\ d.exhausted = c.exhausted
  BY DEF Finish, Fresh
<1> HIDE DEF d
<1>2. Returned(d, E, R)
  BY <1>1, Zenon DEF Returned
<1>3. d.pc \in Ended /\ d.pc \notin Undoing
  BY <1>1 DEF Ended, Undoing, RollingBack
<1> QED
  BY <1>2, <1>3, Zenon DEF Tidy, d

\* one that fails and rolls back what it committed,
LEMMA FailTidy ==
  ASSUME NEW a \in Attachments, NEW c \in Call, NEW E, NEW R, Steady(a, c, E, R)
  PROVE  Tidy(a, Fail(c), E, R)
<1>1. CASE c.mode = "DEL"
  <2>1. "delfailed" \in Ended /\ InRange(a, E) /\ Matched(E, R)
    BY <1>1, Zenon DEF Ended, Steady
  <2>2. Tidy(a, Finish(c, "delfailed"), E, R)
    BY <2>1, FinishTidy, Zenon
  <2> QED
    BY <1>1, <2>2, Zenon DEF Fail
<1>2. CASE c.mode # "DEL"
  <2> DEFINE e == [c EXCEPT !.results = <<>>]
  <2>1. c.mode = "ADD" /\ c.commits \in Seq(Commit)
    BY <1>2 DEF Call
  <2>2. /\ InRange(a, E) /\ Committed(a, c.commits)
        /\ E = Spots(a, c.commits) /\ R = Addrs(a, c.commits)
    BY <2>1, Zenon DEF Steady, Progress
  <2>3. CASE c.commits = <<>>
    <3>1. E = {} /\ Matched(E, R) /\ "failed" \in Ended
      BY <2>1, <2>2, <2>3, NoSpots, SpotsMatched, Zenon DEF Ended
    <3>2. Tidy(a, Finish(e, "failed"), E, R)
      BY <2>2, <3>1, FinishTidy
    <3> QED
      BY <1>2, <2>3, <3>2, Zenon DEF Fail
  <2>4. CASE c.commits # <<>>
    <3> DEFINE d == StartRollback(e, c.commits, "failed")
    <3>1. d.pc = "rollback" /\ d.then = "failed" /\ d.rbq = c.commits
      BY DEF StartRollback, Call
    <3>2. Fail(c) = d
      BY <1>2, <2>4, Zenon DEF Fail
    <3> HIDE DEF d
    <3>3. Unwinding(a, d, E, R)
      BY <2>2, <3>1 DEF Unwinding
    <3>4. d.pc \in Undoing /\ d.pc \notin Ended
      BY <3>1 DEF Undoing, Ended
    <3> QED
      BY <2>2, <3>2, <3>3, <3>4, Zenon DEF Tidy
  <2> QED
    BY <2>3, <2>4
<1> QED
  BY <1>1, <1>2

\* and one that goes on to its next range, or succeeds.
LEMMA NextRangeTidy ==
  ASSUME NEW a \in Attachments, NEW c \in Call, NEW E, NEW R, Steady(a, c, E, R)
  PROVE  Tidy(a, NextRange(a, c), E, R)
<1>1. CASE c.idx = Len(Ranges[a])
  <2> DEFINE pc == IF c.mode = "ADD" THEN "up" ELSE "gone"
  <2>1. pc \in Ended /\ pc \notin {"absent", "failed"} /\ (pc = "up" => c.mode = "ADD")
    BY DEF Ended
  <2>2. NextRange(a, c) = Finish(c, pc)
    BY <1>1, Zenon DEF NextRange
  <2> HIDE DEF pc
  <2>3. InRange(a, E) /\ Matched(E, R)
    BY SpotsMatched DEF Steady, Progress, Call
  <2>4. pc = "up" => c.exhausted \/ \A k \in DOMAIN c.results : c.results[k] \in R
    BY <2>1, Zenon DEF Steady, Progress
  <2> QED
    BY <2>1, <2>2, <2>3, <2>4, FinishTidy, Zenon
<1>2. CASE c.idx # Len(Ranges[a])
  <2> DEFINE d == NextRange(a, c)
  <2>1. /\ d.pc = "read" /\ d.mode = c.mode /\ d.commits = c.commits /\ d.dummies = c.dummies
        /\ d.results = c.results /\ d.exhausted = c.exhausted /\ ~d.skip /\ d.pending = None
    BY <1>2 DEF NextRange, Call
  <2>2. c.mode \in {"ADD", "DEL"}
    BY Zenon DEF Call
  <2> HIDE DEF d
  <2>3. CASE c.mode = "ADD"
    <3>1. Adding(a, d, E, R)
      BY <2>1, <2>3, Zenon DEF Steady, Progress, Adding
    <3> QED
      BY <2>1, <2>3, <3>1, Zenon DEF Steady, Tidy, Ended, Undoing, RollingBack, d
  <2>4. CASE c.mode = "DEL"
    <3>1. Deleting(a, d, E, R)
      BY <2>1, <2>4 DEF Steady, Deleting
    <3> QED
      BY <2>1, <2>4, <3>1, Zenon DEF Steady, Tidy, Ended, Undoing, RollingBack, d
  <2> QED
    BY <2>2, <2>3, <2>4
<1> QED
  BY <1>1, <1>2, Zenon

\* A conflict: the next attempt, or an error.
LEMMA RetryTidy ==
  ASSUME NEW a \in Attachments, NEW c \in Call, NEW E, NEW R, Steady(a, c, E, R),
         c.mode = "DEL" /\ c.pending # None => <<PoolOf(a, c.idx), c.pending>> \in E
  PROVE  Tidy(a, NextAttempt(a, c, TRUE), E, R)
<1>1. CASE c.tries < DatastoreRetries
  <2> DEFINE d == NextAttempt(a, c, TRUE)
  <2>1. /\ d.pc = "read" /\ d.mode = c.mode /\ d.commits = c.commits /\ d.dummies = c.dummies
        /\ d.results = c.results /\ d.exhausted = c.exhausted /\ ~d.skip /\ d.pending = c.pending
        /\ d.idx = c.idx
    BY <1>1 DEF NextAttempt, Call
  <2>2. c.mode \in {"ADD", "DEL"}
    BY DEF Call
  <2> HIDE DEF d
  <2>3. CASE c.mode = "ADD"
    <3>1. Adding(a, d, E, R)
      BY <2>1, <2>3 DEF Steady, Progress, Adding
    <3> QED
      BY <2>1, <2>3, <3>1, ZenonT(60) DEF Steady, Tidy, Ended, Undoing, RollingBack, d
  <2>4. CASE c.mode = "DEL"
    <3>1. Deleting(a, d, E, R)
      BY <2>1, <2>4 DEF Steady, Deleting
    <3> QED
      BY <2>1, <2>4, <3>1, Zenon DEF Steady, Tidy, Ended, Undoing, RollingBack, d
  <2> QED
    BY <2>2, <2>3, <2>4, Zenon
<1>2. CASE ~(c.tries < DatastoreRetries)
  BY <1>2, FailTidy, Zenon DEF NextAttempt
<1> QED
  BY <1>1, <1>2, Zenon

\* A range that ends without an error.
LEMMA RangeDoneTidy ==
  ASSUME OverlappingRanges, NEW a \in Attachments, NEW c \in Call, NEW E, NEW R, NEW S,
         NEW reserved \in BOOLEAN, c.mode = "ADD", c.ip \in IPs, InRange(a, E), Progress(a, c, R),
         reserved => /\ c.created /\ c.snap.alloc[c.ip] = a /\ c.ip \notin c.dummies
                     /\ E = Spots(a, c.commits) \cup {Here(a, c)} /\ S = R \cup {c.ip},
         ~reserved => E = Spots(a, c.commits) /\ S = R,
         ~reserved /\ c.created => c.exhausted /\ c.snap.alloc[c.ip] # a,
         ~reserved /\ ~c.created => c.ip \in R
  PROVE  Tidy(a, RangeDone(a, c, reserved), E, S)
<1> DEFINE h == [idx |-> c.idx, ip |-> c.ip, pool |-> c.created, orip |-> reserved, snap |-> c.snap]
           q == IF c.created \/ reserved THEN Append(c.commits, h) ELSE c.commits
           s == IF OverlappingRanges THEN c.dummies \cup {c.ip} ELSE c.dummies
           r == Append(c.results, c.ip)
           e == [c EXCEPT !.commits = q, !.dummies = s, !.results = r]
<1>1. h \in Commit /\ h.ip = c.ip /\ (h.pool <=> c.created) /\ (h.orip <=> reserved)
  BY Zenon DEF Commit, Call
<1>2. Spot(a, h) = Here(a, c) /\ (Real(a, h) <=> c.snap.alloc[c.ip] = a)
  BY DEF Spot, Here, Real
<1>3. RangeDone(a, c, reserved) = NextRange(a, e)
  BY Zenon DEF RangeDone
<1>4. s = c.dummies \cup {c.ip} /\ s \in SUBSET IPs
  BY Zenon DEF Call
<1> HIDE DEF h
<1>5. q \in Seq(Commit) /\ c.commits \in Seq(Commit)
  <2>1. c.commits \in Seq(Commit)
    BY Zenon DEF Call
  <2> QED
    BY <1>1, <2>1, AppendFacts, Zenon
<1>6. /\ r \in Seq(IPs) /\ DOMAIN r = DOMAIN c.results \cup {Len(c.results) + 1}
      /\ r[Len(c.results) + 1] = c.ip /\ \A k \in DOMAIN c.results : r[k] = c.results[k]
  <2>1. c.results \in Seq(IPs)
    BY Zenon DEF Call
  <2> QED
    BY <2>1
<1>7. \A k \in DOMAIN q : (k \in DOMAIN c.commits /\ q[k] = c.commits[k]) \/ q[k] = h
  <2>1. CASE c.created \/ reserved
    <3> DEFINE f == Append(c.commits, h)
    <3>1. DOMAIN f = DOMAIN c.commits \cup {Len(c.commits) + 1} /\ f[Len(c.commits) + 1] = h
      BY <1>1, <1>5
    <3>2. \A k \in DOMAIN c.commits : f[k] = c.commits[k]
      BY <1>1, <1>5
    <3>3. q = f
      BY <2>1, Zenon
    <3> HIDE DEF f, q
    <3> QED
      BY <3>1, <3>2, <3>3, Zenon
  <2>2. CASE ~(c.created \/ reserved)
    <3>1. q = c.commits
      BY <2>2, ZenonT(60)
    <3> HIDE DEF q
    <3> QED
      BY <3>1, Zenon
  <2> QED
    BY <2>1, <2>2, Zenon
<1>8. Addrs(a, c.commits) \subseteq c.dummies
  BY DEF Progress, Addrs, Reals
<1>9. Committed(a, q) /\ E = Spots(a, q) /\ S = Addrs(a, q)
  <2>1. CASE reserved
    <3>1. Real(a, h) /\ h.pool /\ h.orip /\ h.ip \notin Addrs(a, c.commits)
      BY <1>1, <1>2, <1>8, <2>1, Zenon
    <3>2. q = Append(c.commits, h)
      BY <2>1, Zenon
    <3> HIDE DEF q, s, r, e
    <3>3. Committed(a, c.commits)
      BY Zenon DEF Progress
    <3>4. /\ Committed(a, q) /\ Spots(a, q) = Spots(a, c.commits) \cup {Spot(a, h)}
          /\ Addrs(a, q) = Addrs(a, c.commits) \cup {h.ip}
      <4> DEFINE f == Append(c.commits, h)
      <4>1. h \in Commit /\ c.commits \in Seq(Commit)
        BY <1>1, <1>5, Zenon
      <4>2. /\ Committed(a, f) /\ Addrs(a, f) = Addrs(a, c.commits) \cup {h.ip}
            /\ Spots(a, f) = Spots(a, c.commits) \cup {Spot(a, h)}
        BY <3>1, <3>3, <4>1, AppendReal, ZenonT(60)
      <4> HIDE DEF f
      <4>3. q = f
        BY <3>2, Zenon DEF f
      <4> QED
        BY <4>2, <4>3, Zenon
    <3> QED
      BY <1>1, <1>2, <2>1, <3>4, Zenon DEF Progress
  <2>2. CASE ~reserved /\ c.created
    <3>1. ~Real(a, h) /\ h.pool /\ ~h.orip
      BY <1>1, <1>2, <2>2, Zenon
    <3>2. q = Append(c.commits, h)
      BY <2>2, Zenon
    <3> HIDE DEF q, s, r, e
    <3>3. Committed(a, c.commits)
      BY Zenon DEF Progress
    <3>4. /\ Committed(a, q) /\ Spots(a, q) = Spots(a, c.commits)
          /\ Addrs(a, q) = Addrs(a, c.commits)
      BY <1>1, <1>5, <3>1, <3>2, <3>3, AppendUnreal, Zenon
    <3> QED
      BY <2>2, <3>4, Zenon DEF Progress
  <2>3. CASE ~reserved /\ ~c.created
    BY <2>3, Zenon DEF Progress
  <2> QED
    BY <2>1, <2>2, <2>3, Zenon
<1> HIDE DEF q, s, r
<1>10. /\ e \in Call /\ e.mode = "ADD" /\ e.commits = q /\ e.dummies = s /\ e.results = r
       /\ e.exhausted = c.exhausted
  BY <1>4, <1>5, <1>6, Zenon DEF Call
<1>11. \A k \in DOMAIN q : q[k].ip \in s
  BY <1>1, <1>4, <1>7, Zenon DEF Progress
<1>12. c.exhausted \/ \A k \in DOMAIN r : r[k] \in S
  <2>1. c.exhausted \/ c.ip \in S
    BY Zenon
  <2>2. R \subseteq S
    BY Zenon
  <2> QED
    BY <1>6, <2>1, <2>2, Zenon DEF Progress
<1> HIDE DEF e
<1>13. Steady(a, e, E, S)
  BY <1>9, <1>10, <1>11, <1>12, Zenon DEF Steady, Progress
<1> QED
  BY <1>3, <1>10, <1>13, NextRangeTidy

\* The address is reserved by another pod: the next attempt, or a range given up.
LEMMA TakenTidy ==
  ASSUME OverlappingRanges, NEW a \in Attachments, NEW c \in Call, NEW E, NEW R, Steady(a, c, E, R),
         c.mode = "ADD", c.ip \in IPs, c.created, c.snap.alloc[c.ip] # a
  PROVE  Tidy(a, NextAttempt(a, c, FALSE), E, R)
<1>1. CASE c.tries < DatastoreRetries
  <2>1. NextAttempt(a, c, FALSE) = NextAttempt(a, c, TRUE)
    BY <1>1 DEF NextAttempt
  <2> QED
    BY <2>1, RetryTidy, Zenon
<1>2. CASE ~(c.tries < DatastoreRetries)
  <2> DEFINE e == [c EXCEPT !.exhausted = TRUE]
  <2>1. e \in Call
    BY Zenon DEF Call
  <2>2. /\ e.mode = "ADD" /\ e.ip = c.ip /\ e.created /\ e.snap = c.snap /\ e.exhausted
        /\ e.commits = c.commits /\ e.dummies = c.dummies /\ e.results = c.results
    BY Zenon DEF Call
  <2>3. NextAttempt(a, c, FALSE) = RangeDone(a, e, FALSE)
    BY <1>2 DEF NextAttempt
  <2> HIDE DEF e
  <2>4. Progress(a, e, R) /\ E = Spots(a, e.commits) /\ InRange(a, E)
    BY <2>2, Zenon DEF Steady, Progress
  <2>5. FALSE \in BOOLEAN
    OBVIOUS
  <2>6. Tidy(a, RangeDone(a, e, FALSE), E, R)
    BY <2>1, <2>2, <2>4, <2>5, RangeDoneTidy, ZenonT(60)
  <2> QED
    BY <2>3, <2>6, Zenon
<1> QED
  BY <1>1, <1>2, Zenon

\* Moving on to the next commit of a failed ADD.
LEMMA UnwindNext ==
  ASSUME NEW b \in Attachments, NEW c \in Call, NEW E, NEW R, c.rbq # <<>>, c.then = "failed",
         Committed(b, c.rbq), InRange(b, E),
         R = Addrs(b, Tail(c.rbq)), E = Spots(b, Tail(c.rbq))
  PROVE  Tidy(b, RollbackNext(c), E, R)
<1> DEFINE d == RollbackNext(c)
<1>1. d.pc = "rollback" /\ d.rbq = Tail(c.rbq) /\ d.then = "failed"
  BY Zenon DEF RollbackNext, Call
<1>2. Committed(b, Tail(c.rbq))
  BY TailSpots, Zenon DEF Call
<1> HIDE DEF d
<1>3. Unwinding(b, d, E, R)
  BY <1>1, <1>2, Zenon DEF Unwinding
<1> QED
  BY <1>1, <1>3 DEF Tidy, Ended, Undoing, d
-----------------------------------------------------------------------------
(* The invariant, and steps of one attachment.                             *)

\* The reservations carry the UID of their pod.
Owned(os) == \A ip \in IPs, a \in Attachments : ip \in Reserved(a, os) => os[ip].uid = PodUID[a]

\* The invariant of the reservations.
TInv ==
  /\ Owned(orips)
  /\ \A a \in Attachments : Tidy(a, call[a], Entries(a, pools), Reserved(a, orips))

\* Nobody touches the entries of another pod interface.
LEMMA EntriesFrame ==
  ASSUME DistinctPods, NEW a \in Attachments, NEW b \in Attachments, a # b, NEW ps, NEW qs,
         PoolsOK(ps), HolderStep(b, ps, qs)
  PROVE  Entries(a, qs) = Entries(a, ps)
<1>1. \A q \in Pools : ps[q].alloc \in Allocations
  BY Zenon DEF PoolsOK, Pool
<1>2. \A p \in Pools, ip \in IPs : qs[p].alloc[ip] = a => ps[p].alloc[ip] = a
  BY NoNewEntry
<1>3. ASSUME NEW p \in Pools, NEW ip \in IPs, ps[p].alloc[ip] = a PROVE qs[p].alloc[ip] = a
  <2>1. \A alloc, i, x : MaySet(b, alloc, i, x) => alloc[i] # a
    BY NoneAssumption, Zenon DEF DistinctPods, MaySet, HeldByRef
  <2> QED
    BY <1>1, <1>3, <2>1, Zenon DEF HolderStep, Allocations
<1> QED
  BY <1>2, <1>3 DEF Entries

\* The entries with, and without, the one of ip in p.
Filled(E, p, ip)  == E \cup {<<p, ip>>}

Cleared(E, p, ip) == E \ {<<p, ip>>}

\* ps with the entry of ip in the pool p set to x
Updated(ps, p, ip, x) == WithPool(ps, p, Patched(ps[p], WithEntry(ps[p].alloc, ip, x)))

\* An update sets one entry.
LEMMA EntriesUpdate ==
  ASSUME NEW b \in Attachments, NEW ps, NEW p \in Pools, NEW ip \in IPs,
         ps[p].alloc \in Allocations, ps \in [Pools -> Pool]
  PROVE  /\ Entries(b, Updated(ps, p, ip, b)) = Filled(Entries(b, ps), p, ip)
         /\ Entries(b, Updated(ps, p, ip, None)) = Cleared(Entries(b, ps), p, ip)
<1>1. ASSUME NEW x
      PROVE  /\ x = b => Entries(b, Updated(ps, p, ip, x)) = Filled(Entries(b, ps), p, ip)
             /\ x # b => Entries(b, Updated(ps, p, ip, x)) = Cleared(Entries(b, ps), p, ip)
  <2> DEFINE new == WithEntry(ps[p].alloc, ip, x)
             qs == Updated(ps, p, ip, x)
  <2>2. new[ip] = x /\ \A i \in IPs \ {ip} : new[i] = ps[p].alloc[i]
    BY Zenon DEF Allocations, WithEntry
  <2>3. qs[p] = Patched(ps[p], new) /\ \A q \in Pools \ {p} : qs[q] = ps[q]
    BY Zenon DEF WithPool, Updated
  <2> HIDE DEF new, qs
  <2>4. qs[p].alloc = new
    BY <2>3 DEF Patched
  <2>5. qs[p].alloc[ip] = x /\ \A i \in IPs \ {ip} : qs[p].alloc[i] = ps[p].alloc[i]
    BY <2>2, <2>4, Zenon
  <2>6. \A e \in Pools \X IPs : e # <<p, ip>> => qs[e[1]].alloc[e[2]] = ps[e[1]].alloc[e[2]]
    BY <2>3, <2>5
  <2>7. <<p, ip>> \in Pools \X IPs /\ qs[<<p, ip>>[1]].alloc[<<p, ip>>[2]] = x
    BY <2>5, Zenon
  <2>8. /\ x = b => Entries(b, qs) = Filled(Entries(b, ps), p, ip)
        /\ x # b => Entries(b, qs) = Cleared(Entries(b, ps), p, ip)
    BY <2>6, <2>7 DEF Entries, Filled, Cleared
  <2> QED
    BY <2>8, Zenon DEF qs
<1>2. None # b
  BY NoneAssumption, Zenon
<1> QED
  BY <1>1, <1>2, Zenon

\* A step of b that keeps to what is b's preserves the invariant.
LEMMA TidyStep ==
  ASSUME DistinctPods, IInv, TInv, NEW b \in Attachments, NEW d, call' = [call EXCEPT ![b] = d],
         pools' = pools \/ HolderStep(b, pools, pools'), Owned(orips'),
         \A a \in Attachments \ {b} : Reserved(a, orips') = Reserved(a, orips),
         Tidy(b, d, Entries(b, pools'), Reserved(b, orips'))
  PROVE  TInv'
<1>1. ASSUME NEW a \in Attachments
      PROVE  Tidy(a, call'[a], Entries(a, pools'), Reserved(a, orips'))
  <2>1. CASE a = b
    BY <2>1, Zenon DEF IInv
  <2>2. CASE a # b
    <3>1. call'[a] = call[a] /\ Reserved(a, orips') = Reserved(a, orips)
      BY <2>2, Zenon DEF IInv
    <3>2. Entries(a, pools') = Entries(a, pools)
      BY <2>2, EntriesFrame DEF IInv
    <3> QED
      BY <3>1, <3>2, Zenon DEF TInv
  <2> QED
    BY <2>1, <2>2
<1> QED
  BY <1>1, Zenon DEF TInv

\* A step that only changes the record of the call.
LEMMA TidyLocal ==
  ASSUME DistinctPods, IInv, TInv, NEW b \in Attachments, NEW d, call' = [call EXCEPT ![b] = d],
         UNCHANGED <<pools, orips>>, Tidy(b, d, Entries(b, pools), Reserved(b, orips))
  PROVE  TInv'
BY TidyStep, Zenon DEF TInv

\* The deletion of a reservation of b.
LEMMA TidyRelease ==
  ASSUME DistinctPods, IInv, TInv, NEW b \in Attachments, NEW d, call' = [call EXCEPT ![b] = d],
         UNCHANGED pools, NEW ip \in Reserved(b, orips), orips' = [orips EXCEPT ![ip] = None],
         Tidy(b, d, Entries(b, pools), Reserved(b, orips) \ {ip})
  PROVE  TInv'
<1>1. /\ ip \in IPs /\ orips[ip] # None /\ orips[ip].ref = Ref[b]
      /\ orips'[ip] = None /\ \A i \in IPs \ {ip} : orips'[i] = orips[i]
  BY Zenon DEF IInv, Reserved
<1>2. Reserved(b, orips') = Reserved(b, orips) \ {ip}
  BY <1>1, Zenon DEF Reserved
<1>3. ASSUME NEW a \in Attachments \ {b} PROVE Reserved(a, orips') = Reserved(a, orips)
  <2>1. Ref[a] # Ref[b]
    BY DEF DistinctPods
  <2> QED
    BY <1>1, <2>1, Zenon DEF Reserved
<1>4. Owned(orips')
  <2> SUFFICES ASSUME NEW i \in IPs, NEW a \in Attachments, i \in Reserved(a, orips')
               PROVE  orips'[i].uid = PodUID[a]
    BY Zenon DEF Owned
  <2>1. i # ip
    BY <1>1, Zenon DEF Reserved
  <2>2. i \in Reserved(a, orips) /\ orips'[i] = orips[i]
    BY <1>1, <2>1, Zenon DEF Reserved
  <2> QED
    BY <2>2, Zenon DEF TInv, Owned
<1>5. Tidy(b, d, Entries(b, pools'), Reserved(b, orips'))
  BY <1>2, Zenon
<1> QED
  BY <1>3, <1>4, <1>5, TidyStep, Zenon

\* The creation of a reservation for b.
LEMMA TidyReserve ==
  ASSUME DistinctPods, IInv, TInv, NEW b \in Attachments, NEW d, call' = [call EXCEPT ![b] = d],
         UNCHANGED pools, NEW ip \in IPs, orips[ip] = None,
         orips' = [orips EXCEPT ![ip] = [ref |-> Ref[b], uid |-> PodUID[b]]],
         Tidy(b, d, Entries(b, pools), Reserved(b, orips) \cup {ip})
  PROVE  TInv'
<1> DEFINE r == [ref |-> Ref[b], uid |-> PodUID[b]]
<1>1. r # None /\ r.ref = Ref[b] /\ r.uid = PodUID[b]
  <2>1. r \in [ref : Refs, uid : UIDs \cup {NoUID}]
    BY ConfigAssumption
  <2> QED
    BY <2>1, NoneAssumption, Zenon
<1>2. orips'[ip] = r /\ \A i \in IPs \ {ip} : orips'[i] = orips[i]
  BY Zenon DEF IInv
<1> HIDE DEF r
<1>3. Reserved(b, orips') = Reserved(b, orips) \cup {ip}
  BY <1>1, <1>2, Zenon DEF Reserved
<1>4. ASSUME NEW a \in Attachments \ {b} PROVE Reserved(a, orips') = Reserved(a, orips)
  <2>1. Ref[a] # Ref[b]
    BY Zenon DEF DistinctPods
  <2> QED
    BY <1>1, <1>2, <2>1, Zenon DEF Reserved
<1>5. Owned(orips')
  <2> SUFFICES ASSUME NEW i \in IPs, NEW a \in Attachments, i \in Reserved(a, orips')
               PROVE  orips'[i].uid = PodUID[a]
    BY Zenon DEF Owned
  <2>1. CASE i = ip
    BY <1>1, <1>2, <2>1, Zenon DEF Reserved, DistinctPods
  <2>2. CASE i # ip
    <3>1. i \in Reserved(a, orips) /\ orips'[i] = orips[i]
      BY <1>2, <2>2, Zenon DEF Reserved
    <3> QED
      BY <3>1, Zenon DEF TInv, Owned
  <2> QED
    BY <2>1, <2>2
<1>6. Tidy(b, d, Entries(b, pools'), Reserved(b, orips'))
  BY <1>3, Zenon
<1> QED
  BY <1>4, <1>5, <1>6, TidyStep, Zenon

\* The invariant at the control points of a running ADD,
LEMMA TidyAdding ==
  ASSUME IInv, TInv, NEW b \in Attachments,
         call[b].pc \in {"read", "create", "getorip", "staleget", "staledel", "patch", "createorip"},
         call[b].mode = "ADD"
  PROVE  /\ call[b] \in Call /\ InRange(b, Entries(b, pools))
         /\ Adding(b, call[b], Entries(b, pools), Reserved(b, orips))
<1>1. call[b].pc \notin Ended \cup Undoing
  BY DEF Ended, Undoing, RollingBack
<1> QED
  BY <1>1, Zenon DEF TInv, Tidy, IInv

\* of a DEL,
LEMMA TidyDeleting ==
  ASSUME IInv, TInv, NEW b \in Attachments,
         call[b].pc \in {"read", "patch", "delget", "deldel"}, call[b].mode = "DEL"
  PROVE  /\ call[b] \in Call /\ InRange(b, Entries(b, pools))
         /\ Deleting(b, call[b], Entries(b, pools), Reserved(b, orips))
<1>1. call[b].pc \notin Ended \cup Undoing /\ call[b].mode # "ADD"
  BY DEF Ended, Undoing, RollingBack
<1> QED
  BY <1>1, Zenon DEF TInv, Tidy, IInv

\* and of a rollback.
LEMMA TidyUndoing ==
  ASSUME IInv, TInv, NEW b \in Attachments, call[b].pc \in Undoing
  PROVE  /\ call[b] \in Call /\ InRange(b, Entries(b, pools)) /\ call[b].mode = "ADD"
         /\ \/ Reverting(b, call[b], Entries(b, pools), Reserved(b, orips))
            \/ Unwinding(b, call[b], Entries(b, pools), Reserved(b, orips))
<1>1. call[b] \in Call /\ WellFormed(b, call[b])
  BY CallFacts, Zenon
<1>2. call[b].mode = "ADD"
  BY <1>1 DEF WellFormed, Undoing, RollingBack
<1> QED
  BY <1>1, <1>2, Zenon DEF TInv, Tidy

=============================================================================
