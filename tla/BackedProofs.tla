---------------------------- MODULE BackedProofs ----------------------------
(***************************************************************************)
(* An address that an ADD reported stays recorded for its container: no    *)
(* step of IPAM drops what a running call has recorded for its pod.        *)
(***************************************************************************)
EXTENDS IPAMProofs

-----------------------------------------------------------------------------
(* What a call owes the runtime: the addresses it has put into its result, *)
(* and the range it is at.                                                 *)

Recorded(a, c, ps) ==
  \A k \in DOMAIN c.results : k \in RangeIdx(a) /\ ps[PoolOf(a, k)].alloc[c.results[k]] = a

\* The ranges before the current one have their addresses.
InOrder(c) == Len(c.results) + 1 = c.idx

\* An entry made for the current range is the first of a in its pool, so its
\* rollback takes none of the addresses in the results.
Alone(a, c) == c.created => \A k \in DOMAIN c.results : PoolOf(a, k) # PoolOf(a, c.idx)

Trying == {"read", "create"} \cup Attempting

Backed(a, c, ps) ==
  /\ Recorded(a, c, ps)
  /\ c.pc = "up" => Len(c.results) = Len(Ranges[a])
  /\ c.pc \in Trying \cup {"createorip"} => InOrder(c)
  /\ c.pc = "createorip" => ps[PoolOf(a, c.idx)].alloc[c.ip] = a /\ Alone(a, c)
  /\ c.pc \in Undoing =>
       \/ c.then = "failed" /\ c.results = <<>>
       \/ /\ c.then # "failed" /\ InOrder(c) /\ c.created /\ Alone(a, c)
          /\ \A k \in DOMAIN c.rbq : c.rbq[k].idx = c.idx

\* live says that no other sandbox of the pod interface has been set up.
Owes(c, live) == live /\ c.mode = "ADD" /\ ~c.exhausted

Kept(a, c, ps, live) == c.pc # "absent" /\ (Owes(c, live) => Backed(a, c, ps))

Going(a, c, ps, live) == Owes(c, live) => Recorded(a, c, ps) /\ InOrder(c)

\* A call that returns.
LEMMA FinishKept ==
  ASSUME NEW a \in Attachments, NEW c \in Call, NEW ps, NEW live \in BOOLEAN,
         NEW pc \in {"up", "failed", "gone", "delfailed"},
         Owes(c, live) => Recorded(a, c, ps),
         Owes(c, live) /\ pc = "up" => Len(c.results) = Len(Ranges[a])
  PROVE  Kept(a, Finish(c, pc), ps, live)
<1> DEFINE d == Finish(c, pc)
<1>1. /\ d.pc = pc /\ d.mode = c.mode /\ d.results = c.results /\ d.exhausted = c.exhausted
  BY DEF Finish, Fresh
<1> HIDE DEF d
<1>2. Owes(d, live) => Recorded(a, d, ps) /\ (d.pc = "up" => Len(d.results) = Len(Ranges[a]))
  BY <1>1, Zenon DEF Owes, Recorded
<1>3. d.pc \notin Trying \cup Undoing \cup {"createorip", "absent"}
  BY <1>1 DEF Trying, Undoing, Attempting, RollingBack
<1> QED
  BY <1>2, <1>3 DEF Kept, Backed, d

\* return with an error drops the results.
LEMMA FailKept ==
  ASSUME NEW a \in Attachments, NEW c \in Call, NEW ps, NEW live \in BOOLEAN
  PROVE  Kept(a, Fail(c), ps, live)
<1> DEFINE e == [c EXCEPT !.results = <<>>]
<1>1. <<>> \in Seq(IPs)
  OBVIOUS
<1>2. e \in Call /\ e.results = <<>> /\ e.mode = c.mode
  BY <1>1, Zenon DEF Call
<1>3. Recorded(a, e, ps)
  BY <1>2 DEF Recorded
<1>4. CASE c.mode = "DEL"
  <2>1. ~Owes(c, live)
    BY <1>4 DEF Owes
  <2> QED
    BY <1>4, <2>1, FinishKept DEF Fail
<1> HIDE DEF e
<1>5. CASE c.mode # "DEL" /\ c.commits = <<>>
  BY <1>2, <1>3, <1>5, FinishKept, Zenon DEF Fail, e
<1>6. CASE c.mode # "DEL" /\ c.commits # <<>>
  <2> DEFINE d == StartRollback(e, c.commits, "failed")
  <2>1. d.pc = "rollback" /\ d.then = "failed" /\ d.results = <<>>
    BY <1>2 DEF StartRollback, Call
  <2>2. Fail(c) = d
    BY <1>6 DEF Fail, e
  <2> HIDE DEF d
  <2>3. Backed(a, d, ps)
    BY <2>1 DEF Backed, Recorded, Trying, Undoing, Attempting, RollingBack
  <2> QED
    BY <2>1, <2>2, <2>3 DEF Kept
<1> QED
  BY <1>4, <1>5, <1>6

\* The next range, or the successful end.
LEMMA NextRangeKept ==
  ASSUME NEW a \in Attachments, NEW c \in Call, NEW ps, NEW live \in BOOLEAN,
         c.idx \in RangeIdx(a),
         Owes(c, live) => Recorded(a, c, ps) /\ Len(c.results) = c.idx
  PROVE  Kept(a, NextRange(a, c), ps, live)
<1>1. CASE c.idx = Len(Ranges[a])
  <2> DEFINE pc == IF c.mode = "ADD" THEN "up" ELSE "gone"
  <2>1. pc \in {"up", "failed", "gone", "delfailed"}
    OBVIOUS
  <2>2. NextRange(a, c) = Finish(c, pc)
    BY <1>1 DEF NextRange
  <2> HIDE DEF pc
  <2> QED
    BY <1>1, <2>1, <2>2, FinishKept, Zenon
<1>2. CASE c.idx # Len(Ranges[a])
  <2> DEFINE d == NextRange(a, c)
  <2>1. /\ d.pc = "read" /\ d.mode = c.mode /\ d.idx = c.idx + 1
        /\ d.results = c.results /\ d.exhausted = c.exhausted
    BY <1>2 DEF NextRange, Call
  <2> HIDE DEF d
  <2>2. Owes(d, live) => Recorded(a, d, ps) /\ InOrder(d)
    BY <2>1, Zenon DEF Owes, Recorded, InOrder
  <2> QED
    BY <2>1, <2>2, Zenon DEF Kept, Backed, Trying, Undoing, Attempting, RollingBack, d
<1> QED
  BY <1>1, <1>2

\* The entry of the current range is recorded too.
Entered(a, c, ps, live) ==
  Owes(c, live) => c.ip \in IPs /\ ps[PoolOf(a, c.idx)].alloc[c.ip] = a

LEMMA RangeDoneKept ==
  ASSUME NEW a \in Attachments, NEW c \in Call, NEW ps, NEW live \in BOOLEAN,
         NEW reserved \in BOOLEAN, c.idx \in RangeIdx(a), c.mode = "ADD" => c.ip \in IPs,
         Going(a, c, ps, live), Entered(a, c, ps, live)
  PROVE  Kept(a, RangeDone(a, c, reserved), ps, live)
<1>1. CASE c.mode = "DEL"
  BY <1>1, NextRangeKept DEF RangeDone, Owes
<1>2. CASE c.mode = "ADD"
  <2> DEFINE h == [idx |-> c.idx, ip |-> c.ip, pool |-> c.created,
                   orip |-> reserved, snap |-> c.snap]
             q == IF c.created \/ reserved THEN Append(c.commits, h) ELSE c.commits
             s == IF OverlappingRanges THEN c.dummies \cup {c.ip} ELSE c.dummies
             r == Append(c.results, c.ip)
             e == [c EXCEPT !.commits = q, !.dummies = s, !.results = r]
  <2>1. h \in Commit
    BY <1>2 DEF Commit, Call
  <2>2. RangeDone(a, c, reserved) = NextRange(a, e)
    BY <1>2 DEF RangeDone
  <2>3. q \in Seq(Commit) /\ s \in SUBSET IPs /\ r \in Seq(IPs)
    <3> HIDE DEF h
    <3> QED BY <1>2, <2>1 DEF Call
  <2>4. /\ Len(r) = Len(c.results) + 1 /\ r[Len(c.results) + 1] = c.ip
        /\ DOMAIN r = 1..(Len(c.results) + 1) /\ DOMAIN c.results = 1..Len(c.results)
        /\ \A k \in DOMAIN c.results : r[k] = c.results[k]
        /\ Len(c.results) \in Nat
    BY <1>2 DEF Call
  <2> HIDE DEF h, q, s, r
  <2>5. e \in Call
    BY <2>3, Zenon DEF Call
  <2>6. e.idx = c.idx /\ e.results = r /\ e.mode = "ADD" /\ e.exhausted = c.exhausted
    BY <1>2, Zenon DEF Call
  <2> HIDE DEF e
  <2>7. ASSUME Owes(e, live) PROVE Recorded(a, e, ps) /\ Len(e.results) = e.idx
    <3>1. Owes(c, live)
      BY <1>2, <2>6, <2>7, Zenon DEF Owes
    <3>2. Recorded(a, c, ps) /\ Len(c.results) + 1 = c.idx
      BY <3>1, Zenon DEF Going, InOrder
    <3>3. ps[PoolOf(a, c.idx)].alloc[c.ip] = a
      BY <3>1 DEF Entered
    <3>4. ASSUME NEW k \in DOMAIN r PROVE k \in RangeIdx(a) /\ ps[PoolOf(a, k)].alloc[r[k]] = a
      <4>1. CASE k = c.idx
        BY <2>4, <3>2, <3>3, <4>1, Zenon
      <4>2. CASE k # c.idx
        <5>1. k \in DOMAIN c.results
          BY <2>4, <3>2, <4>2
        <5> QED
          BY <2>4, <3>2, <5>1, Zenon DEF Recorded
      <4> QED
        BY <4>1, <4>2, Zenon
    <3> QED
      BY <2>4, <2>6, <3>2, <3>4, Zenon DEF Recorded
  <2> QED
    BY <2>2, <2>5, <2>6, <2>7, NextRangeKept, Zenon
<1> QED
  BY <1>1, <1>2 DEF Call

\* Starting over keeps what is recorded; a range given up without an error
\* leaves its mark in exhausted.
LEMMA NextAttemptKept ==
  ASSUME NEW a \in Attachments, NEW c \in Call, NEW ps, NEW live \in BOOLEAN,
         NEW err \in BOOLEAN, c.idx \in RangeIdx(a), ~err /\ c.mode = "ADD" => c.ip \in IPs,
         Going(a, c, ps, live)
  PROVE  Kept(a, NextAttempt(a, c, err), ps, live)
<1>1. CASE c.tries < DatastoreRetries
  <2> DEFINE d == NextAttempt(a, c, err)
  <2>1. /\ d.pc = "read" /\ d.mode = c.mode /\ d.idx = c.idx
        /\ d.results = c.results /\ d.exhausted = c.exhausted
    BY <1>1 DEF NextAttempt, Call
  <2> HIDE DEF d
  <2>2. Owes(d, live) => Recorded(a, d, ps) /\ InOrder(d)
    BY <2>1, Zenon DEF Owes, Going, Recorded, InOrder
  <2> QED
    BY <2>1, <2>2 DEF Kept, Backed, Trying, Undoing, Attempting, RollingBack, d
<1>2. CASE ~(c.tries < DatastoreRetries) /\ err
  BY <1>2, FailKept DEF NextAttempt
<1>3. CASE ~(c.tries < DatastoreRetries) /\ ~err
  <2> DEFINE e == [c EXCEPT !.exhausted = TRUE]
  <2>1. e \in Call
    BY Zenon DEF Call
  <2>2. e.idx = c.idx /\ e.mode = c.mode /\ e.ip = c.ip
    BY DEF Call
  <2>3. e.exhausted
    BY Zenon DEF Call
  <2>4. NextAttempt(a, c, err) = RangeDone(a, e, FALSE)
    BY <1>3 DEF NextAttempt
  <2> HIDE DEF e
  <2>5. Going(a, e, ps, live) /\ Entered(a, e, ps, live)
    BY <2>3, Zenon DEF Going, Entered, Owes
  <2> QED
    BY <1>3, <2>1, <2>2, <2>4, <2>5, RangeDoneKept, Zenon
<1> QED
  BY <1>1, <1>2, <1>3, Zenon

\* The pool holds the new list.
LEMMA AfterPatchKept ==
  ASSUME NEW a \in Attachments, NEW c \in Call, NEW ps, NEW live \in BOOLEAN,
         c.idx \in RangeIdx(a), c.ip \in IPs, Going(a, c, ps, live), Entered(a, c, ps, live),
         Owes(c, live) => Alone(a, c)
  PROVE  Kept(a, AfterPatch(a, c), ps, live)
<1>1. CASE ~OverlappingRanges \/ c.skip
  BY <1>1, RangeDoneKept, Zenon DEF AfterPatch
<1>2. CASE ~(~OverlappingRanges \/ c.skip)
  <2> DEFINE pc == IF c.mode = "ADD" THEN "createorip"
                   ELSE IF PodUID[a] = NoUID THEN "deldel" ELSE "delget"
             d == [c EXCEPT !.pc = pc]
  <2>1. AfterPatch(a, c) = d
    BY <1>2 DEF AfterPatch
  <2>2. pc \in {"createorip", "deldel", "delget"}
    OBVIOUS
  <2> HIDE DEF pc
  <2>3. /\ d.pc = pc /\ d.mode = c.mode /\ d.idx = c.idx /\ d.ip = c.ip
        /\ d.results = c.results /\ d.exhausted = c.exhausted /\ d.created = c.created
    BY DEF Call
  <2> HIDE DEF d
  <2>4. Owes(d, live) => /\ Recorded(a, d, ps) /\ InOrder(d) /\ Alone(a, d)
                         /\ ps[PoolOf(a, d.idx)].alloc[d.ip] = a
    BY <2>3, Zenon DEF Owes, Going, Entered, Recorded, InOrder, Alone
  <2> QED
    BY <2>1, <2>2, <2>3, <2>4, Zenon DEF Kept, Backed, Trying, Undoing, Attempting, RollingBack
<1> QED
  BY <1>1, <1>2

\* The reservation could not be created: the entry of this range is given back.
LEMMA OverlapUpdateFailedKept ==
  ASSUME NEW a \in Attachments, NEW c \in Call, NEW ps, NEW live \in BOOLEAN,
         NEW retryable \in BOOLEAN, c.idx \in RangeIdx(a), c.ip \in IPs,
         Going(a, c, ps, live), Owes(c, live) => Alone(a, c)
  PROVE  Kept(a, OverlapUpdateFailed(a, c, retryable), ps, live)
<1>1. CASE c.mode = "ADD" /\ c.created
  <2> DEFINE h == [idx |-> c.idx, ip |-> c.ip, pool |-> TRUE, orip |-> FALSE, snap |-> c.snap]
             t == IF retryable THEN "retry" ELSE "abort"
             d == StartRollback(c, <<h>>, t)
  <2>1. OverlapUpdateFailed(a, c, retryable) = d
    BY <1>1 DEF OverlapUpdateFailed
  <2>2. t # "failed" /\ h.idx = c.idx
    OBVIOUS
  <2> HIDE DEF h, t
  <2>3. \A k \in DOMAIN <<h>> : <<h>>[k] = h
    OBVIOUS
  <2>4. /\ d.pc = "rollback" /\ d.mode = c.mode /\ d.idx = c.idx /\ d.rbq = <<h>> /\ d.then = t
        /\ d.results = c.results /\ d.exhausted = c.exhausted
    BY DEF StartRollback, Call
  <2>5. d.created = c.created
    BY DEF StartRollback, Call
  <2> HIDE DEF d
  <2>6. Owes(d, live) => Recorded(a, d, ps) /\ InOrder(d) /\ Alone(a, d) /\ d.created
    BY <1>1, <2>4, <2>5, Zenon DEF Owes, Going, Recorded, InOrder, Alone
  <2>7. \A k \in DOMAIN d.rbq : d.rbq[k].idx = d.idx
    BY <2>2, <2>3, <2>4, Zenon
  <2> QED
    BY <2>1, <2>2, <2>4, <2>6, <2>7, Zenon DEF Kept, Backed, Trying, Undoing, Attempting, RollingBack
<1>2. CASE ~(c.mode = "ADD" /\ c.created) /\ retryable
  BY <1>2, NextAttemptKept, Zenon DEF OverlapUpdateFailed
<1>3. CASE ~(c.mode = "ADD" /\ c.created) /\ ~retryable
  BY <1>3, FailKept, Zenon DEF OverlapUpdateFailed
<1> QED
  BY <1>1, <1>2, <1>3, Zenon

\* A rollback step: only the place, the attempt and the queue change.
UndoStep(c, d) ==
  /\ c.pc \in Undoing /\ d.pc \in Undoing
  /\ d.mode = c.mode /\ d.exhausted = c.exhausted /\ d.results = c.results /\ d.idx = c.idx
  /\ d.created = c.created /\ d.then = c.then
  /\ \A k \in DOMAIN d.rbq : \E j \in DOMAIN c.rbq : d.rbq[k] = c.rbq[j]

LEMMA UndoKept ==
  ASSUME NEW a \in Attachments, NEW c, NEW d, NEW ps, NEW live \in BOOLEAN,
         Kept(a, c, ps, live), UndoStep(c, d)
  PROVE  Kept(a, d, ps, live)
<1> USE DEF UndoStep
<1>1. d.pc # "absent" /\ d.pc # "up" /\ d.pc \notin Trying \cup {"createorip"}
  BY DEF Trying, Undoing, Attempting, RollingBack
<1>2. ASSUME Owes(d, live) PROVE Backed(a, d, ps)
  <2>1. Backed(a, c, ps)
    BY <1>2, Zenon DEF Owes, Kept
  <2>2. Recorded(a, d, ps) /\ (InOrder(c) => InOrder(d)) /\ (Alone(a, c) => Alone(a, d))
    BY <2>1, Zenon DEF Backed, Recorded, InOrder, Alone
  <2> QED
    BY <1>1, <2>1, <2>2, Zenon DEF Backed
<1> QED
  BY <1>1, <1>2 DEF Kept

LEMMA RollbackNextKept ==
  ASSUME NEW a \in Attachments, NEW c \in Call, NEW ps, NEW live \in BOOLEAN,
         Kept(a, c, ps, live), c.pc \in Undoing, c.rbq # <<>>
  PROVE  Kept(a, RollbackNext(c), ps, live)
<1> DEFINE d == RollbackNext(c)
           q == Tail(c.rbq)
<1>1. c.rbq \in Seq(Commit)
  BY DEF Call
<1>2. \A k \in DOMAIN q : k + 1 \in DOMAIN c.rbq /\ q[k] = c.rbq[k + 1]
  BY <1>1
<1>3. /\ d.pc = "rollback" /\ d.mode = c.mode /\ d.idx = c.idx /\ d.rbq = q /\ d.then = c.then
      /\ d.results = c.results /\ d.exhausted = c.exhausted /\ d.created = c.created
  BY DEF RollbackNext, Call
<1> HIDE DEF d, q
<1>4. \A k \in DOMAIN d.rbq : \E j \in DOMAIN c.rbq : d.rbq[k] = c.rbq[j]
  BY <1>2, <1>3, Zenon
<1>5. d.pc \in Undoing
  BY <1>3 DEF Undoing
<1>6. UndoStep(c, d)
  BY <1>3, <1>4, <1>5, Zenon DEF UndoStep
<1>7. Kept(a, d, ps, live)
  BY <1>6, UndoKept
<1> QED
  BY <1>7 DEF d

LEMMA RollbackAgainKept ==
  ASSUME NEW a \in Attachments, NEW c \in Call, NEW ps, NEW live \in BOOLEAN,
         Kept(a, c, ps, live), c.pc \in Undoing, c.rbq # <<>>,
         NEW pc \in {"rbread", "rboripget", "rboripdel"}
  PROVE  Kept(a, RollbackAgain(c, pc), ps, live)
<1>1. CASE c.rbtry < RollbackRetries
  <2> DEFINE d == RollbackAgain(c, pc)
  <2>1. /\ d.pc = pc /\ d.mode = c.mode /\ d.idx = c.idx /\ d.rbq = c.rbq /\ d.then = c.then
        /\ d.results = c.results /\ d.exhausted = c.exhausted /\ d.created = c.created
    BY <1>1 DEF RollbackAgain, Call
  <2> HIDE DEF d
  <2>2. d.pc \in Undoing
    BY <2>1 DEF Undoing, RollingBack
  <2>3. UndoStep(c, d)
    BY <2>1, <2>2, Zenon DEF UndoStep
  <2> QED
    BY <2>3, UndoKept, Zenon DEF d
<1>2. CASE ~(c.rbtry < RollbackRetries)
  BY <1>2, RollbackNextKept DEF RollbackAgain
<1> QED
  BY <1>1, <1>2

LEMMA RollbackOripKept ==
  ASSUME NEW a \in Attachments, NEW c \in Call, NEW ps, NEW live \in BOOLEAN,
         Kept(a, c, ps, live), c.pc \in Undoing, c.rbq # <<>>
  PROVE  Kept(a, RollbackOrip(a, c), ps, live)
<1>1. CASE Head(c.rbq).orip
  <2> DEFINE pc == IF PodUID[a] = NoUID THEN "rboripdel" ELSE "rboripget"
             d == [c EXCEPT !.pc = pc, !.rbtry = 1]
  <2>1. pc \in {"rboripget", "rboripdel"} /\ RollbackOrip(a, c) = d
    BY <1>1 DEF RollbackOrip
  <2> HIDE DEF pc
  <2>2. /\ d.pc = pc /\ d.mode = c.mode /\ d.idx = c.idx /\ d.rbq = c.rbq /\ d.then = c.then
        /\ d.results = c.results /\ d.exhausted = c.exhausted /\ d.created = c.created
    BY DEF Call
  <2> HIDE DEF d
  <2>3. d.pc \in Undoing
    BY <2>1, <2>2 DEF Undoing, RollingBack
  <2>4. UndoStep(c, d)
    BY <2>2, <2>3, Zenon DEF UndoStep
  <2> QED
    BY <2>1, <2>4, UndoKept, Zenon
<1>2. CASE ~Head(c.rbq).orip
  BY <1>2, RollbackNextKept, Zenon DEF RollbackOrip
<1> QED
  BY <1>1, <1>2, Zenon

\* Every error path.
LEMMA OnErrorKept ==
  ASSUME NEW a \in Attachments, NEW c \in Call, NEW ps, NEW live \in BOOLEAN,
         NEW retryable \in BOOLEAN, WellFormed(a, c), Kept(a, c, ps, live)
  PROVE  Kept(a, OnError(a, c, retryable), ps, live)
<1>1. CASE c.pc \in Reserving
  <2>1. OnError(a, c, retryable) = OverlapUpdateFailed(a, c, retryable)
    BY <1>1 DEF OnError, Reserving
  <2>2. c.idx \in RangeIdx(a) /\ c.ip \in IPs /\ (c.mode = "ADD" => c.pc = "createorip")
    BY <1>1, Zenon DEF WellFormed, Reserving
  <2>3. Going(a, c, ps, live) /\ (Owes(c, live) => Alone(a, c))
    BY <2>2, Zenon DEF Kept, Backed, Going, Owes
  <2> QED
    BY <2>1, <2>2, <2>3, OverlapUpdateFailedKept, Zenon
<1>2. CASE c.pc \in RollingBack
  <2>1. c.rbq # <<>> /\ c.pc \in Undoing
    BY <1>2, Zenon DEF WellFormed, Undoing
  <2>2. \/ OnError(a, c, retryable) = RollbackNext(c)
        \/ \E pc \in {"rbread", "rboripget", "rboripdel"} :
             OnError(a, c, retryable) = RollbackAgain(c, pc)
    <3>1. CASE c.pc = "rbread"
      BY <3>1 DEF OnError
    <3>2. CASE c.pc = "rbpatch"
      BY <3>2, Zenon DEF OnError
    <3>3. CASE c.pc \in {"rboripget", "rboripdel"}
      BY <3>3, Zenon DEF OnError
    <3> QED
      BY <1>2, <3>1, <3>2, <3>3, Zenon DEF RollingBack
  <2> QED
    BY <2>1, <2>2, RollbackNextKept, RollbackAgainKept, Zenon
<1>3. CASE c.pc \notin Reserving \cup RollingBack
  <2>1. OnError(a, c, retryable) = Fail(c)
    BY <1>3, Zenon DEF OnError, Reserving, RollingBack
  <2> QED
    BY <2>1, FailKept
<1> QED
  BY <1>1, <1>2, <1>3, Zenon
-----------------------------------------------------------------------------
(* The results of a call stay recorded.                                    *)

\* qs has every entry of a that ps has.
KeepsEntries(a, ps, qs) ==
  \A p \in Pools, ip \in IPs : ps[p].alloc[ip] = a => qs[p].alloc[ip] = a

LEMMA RecordedFrame ==
  ASSUME NEW a \in Attachments, NEW c \in Call, NEW ps, NEW qs, KeepsEntries(a, ps, qs),
         Recorded(a, c, ps)
  PROVE  Recorded(a, c, qs)
<1> SUFFICES ASSUME NEW k \in DOMAIN c.results
             PROVE  k \in RangeIdx(a) /\ qs[PoolOf(a, k)].alloc[c.results[k]] = a
  BY DEF Recorded
<1>1. c.results[k] \in IPs
  BY DEF Call
<1>2. k \in RangeIdx(a) /\ ps[PoolOf(a, k)].alloc[c.results[k]] = a
  BY DEF Recorded
<1>3. PoolOf(a, k) \in Pools
  BY <1>2, RangePool
<1> QED
  BY <1>1, <1>2, <1>3, Zenon DEF KeepsEntries

LEMMA KeptFrame ==
  ASSUME NEW a \in Attachments, NEW c \in Call, NEW ps, NEW qs, NEW live \in BOOLEAN,
         KeepsEntries(a, ps, qs), WellFormed(a, c), Kept(a, c, ps, live)
  PROVE  Kept(a, c, qs, live)
<1> SUFFICES ASSUME Owes(c, live) PROVE Backed(a, c, qs)
  BY DEF Kept
<1>1. Backed(a, c, ps)
  BY Zenon DEF Kept
<1>2. Recorded(a, c, qs)
  BY <1>1, RecordedFrame DEF Backed
<1>3. c.pc = "createorip" => qs[PoolOf(a, c.idx)].alloc[c.ip] = a
  <2>1. c.pc = "createorip" => c.ip \in IPs /\ PoolOf(a, c.idx) \in Pools
    BY RangePool, Zenon DEF WellFormed, Reserving
  <2> QED
    BY <1>1, <2>1, Zenon DEF Backed, KeepsEntries
<1> QED
  BY <1>1, <1>2, <1>3, Zenon DEF Backed

\* Between the tries of a range.
TryStep(c, d) ==
  /\ c.pc \in Trying /\ d.pc \in Trying
  /\ d.mode = c.mode /\ d.exhausted = c.exhausted /\ d.results = c.results /\ d.idx = c.idx

LEMMA TryKept ==
  ASSUME NEW a \in Attachments, NEW c, NEW d, NEW ps, NEW live \in BOOLEAN,
         Kept(a, c, ps, live), TryStep(c, d)
  PROVE  Kept(a, d, ps, live)
<1> USE DEF TryStep
<1>1. d.pc # "absent" /\ d.pc # "up" /\ d.pc # "createorip" /\ d.pc \notin Undoing
  BY DEF Trying, Undoing, Attempting, RollingBack
<1>2. ASSUME Owes(d, live) PROVE Backed(a, d, ps)
  <2>1. Recorded(a, c, ps) /\ InOrder(c)
    BY <1>2, Zenon DEF Owes, Kept, Backed
  <2>2. Recorded(a, d, ps) /\ InOrder(d)
    BY <2>1, Zenon DEF Recorded, InOrder
  <2> QED
    BY <1>1, <2>2, Zenon DEF Backed
<1> QED
  BY <1>1, <1>2, Zenon DEF Kept

\* A DEL owes nothing.
LEMMA DelKept ==
  ASSUME NEW a \in Attachments, NEW d, NEW ps, NEW live \in BOOLEAN,
         d.pc # "absent", d.mode = "DEL"
  PROVE  Kept(a, d, ps, live)
BY Zenon DEF Kept, Owes

\* What Kept says at each place of a call.
LEMMA KeptFacts ==
  ASSUME NEW a \in Attachments, NEW c, NEW ps, NEW live \in BOOLEAN, Kept(a, c, ps, live)
  PROVE  /\ c.pc \in Trying \cup {"createorip"} => Going(a, c, ps, live)
         /\ c.pc = "createorip" /\ Owes(c, live) => ps[PoolOf(a, c.idx)].alloc[c.ip] = a /\ Alone(a, c)
         /\ c.pc = "rollback" /\ c.then # "failed" => Going(a, c, ps, live)
         /\ Owes(c, live) => Recorded(a, c, ps)
BY DEF Kept, Backed, Going, Undoing

\* What a call reports are addresses.
LEMMA ResultsAreIPs ==
  ASSUME NEW c \in Call
  PROVE  \A k \in DOMAIN c.results : c.results[k] \in IPs
BY DEF Call

\* The successful update of an ADD: the address is recorded, nothing is lost,
\* and a new entry is the only one of its attachment in the pool.
LEMMA UpdateKept ==
  ASSUME IInv, NEW b \in Attachments, NEW live \in BOOLEAN, call[b].pc = "patch",
         Kept(b, call[b], pools, live),
         UpdatePool(PoolOf(b, call[b].idx), call[b].snap, NewAlloc(b, call[b]))
  PROVE  LET m == InMemory(b, call[b])
         IN  /\ m \in Call /\ m.idx \in RangeIdx(b) /\ m.ip \in IPs
             /\ Going(b, m, pools', live) /\ Entered(b, m, pools', live)
             /\ Owes(m, live) => Alone(b, m)
<1> DEFINE c == call[b]
           p == PoolOf(b, c.idx)
           m == InMemory(b, c)
<1>1. /\ c \in Call /\ Snapshot(b, c, pools) /\ p \in Pools /\ c.ip \in IPs
      /\ c.idx \in RangeIdx(b) /\ c.snap \in Pool /\ c.snap.alloc \in Allocations
      /\ c.snap.rv \in Nat
  BY CallFacts, Zenon DEF WellFormed, Attempting, Call, Pool
<1>2. m \in Call
  BY AttemptUpdate, Zenon
<1>3. /\ m.mode = c.mode /\ m.idx = c.idx /\ m.ip = c.ip
      /\ m.results = c.results
  BY <1>1, Zenon DEF InMemory, Call
<1>4. m.created = c.created /\ m.exhausted = c.exhausted
  BY <1>1 DEF InMemory, Call
<1> HIDE DEF m
<1>5. SUFFICES ASSUME Owes(c, live)
               PROVE  /\ Recorded(b, c, pools') /\ pools'[p].alloc[c.ip] = b
                      /\ InOrder(c) /\ Alone(b, c)
  <2>1. Owes(m, live) => Owes(c, live)
    BY <1>3, <1>4, Zenon DEF Owes
  <2>2. /\ Recorded(b, c, pools') => Recorded(b, m, pools')
        /\ InOrder(c) => InOrder(m)
        /\ Alone(b, c) => Alone(b, m)
    BY <1>3, <1>4, Zenon DEF Recorded, InOrder, Alone
  <2>3. Going(b, m, pools', live) /\ Entered(b, m, pools', live) /\ (Owes(m, live) => Alone(b, m))
    BY <1>1, <1>3, <1>5, <2>1, <2>2, ZenonT(60) DEF Going, Entered
  <2>4. m.idx \in RangeIdx(b) /\ m.ip \in IPs
    BY <1>1, <1>3
  <2> QED
    BY <1>2, <2>3, <2>4, Zenon DEF m
<1>6. c.mode = "ADD" /\ Recorded(b, c, pools) /\ InOrder(c)
  <2>1. c.pc \in Trying \cup {"createorip"}
    BY Zenon DEF Trying, Attempting
  <2>2. Going(b, c, pools, live)
    BY <2>1, KeptFacts
  <2> QED
    BY <1>5, <2>2, Zenon DEF Going, Owes
<1>7. c.snap = pools[p]
  <2>1. Clean(c.snap, pools[p]) /\ pools[p].rv = c.snap.rv
    BY <1>1, Zenon DEF Snapshot, Attempting, UpdatePool, VersionMatches
  <2> QED
    BY <2>1, Zenon DEF Clean
<1>8. /\ pools'[p].alloc = NewAlloc(b, c)
      /\ \A q \in Pools \ {p} : pools'[q] = pools[q]
  <2>1. pools' = [pools EXCEPT ![p] = Patched(pools[p], NewAlloc(b, c))] /\ DOMAIN pools = Pools
    BY Zenon DEF UpdatePool, IInv, PoolsOK
  <2>2. Patched(pools[p], NewAlloc(b, c)).alloc = NewAlloc(b, c)
    BY Zenon DEF Patched
  <2> QED
    BY <1>1, <2>1, <2>2, Zenon
<1>9. /\ NewAlloc(b, c)[c.ip] = b
      /\ \A ip \in IPs \ {c.ip} : NewAlloc(b, c)[ip] = pools[p].alloc[ip]
  BY <1>1, <1>6, <1>7, Zenon DEF NewAlloc, Allocations
<1>10. KeepsEntries(b, pools, pools')
  BY <1>8, <1>9, ZenonT(60) DEF KeepsEntries
<1>11. Recorded(b, c, pools')
  BY <1>1, <1>6, <1>10, RecordedFrame, Zenon
<1>12. Alone(b, c)
  <2> SUFFICES ASSUME c.created, NEW k \in DOMAIN c.results, PoolOf(b, k) = p PROVE FALSE
    BY DEF Alone
  <2>1. HeldByRef(b, pools[p].alloc) = {}
    BY <1>1, <1>6, <1>7, Zenon DEF Snapshot, Attempting
  <2>2. c.results[k] \in IPs
    BY <1>1, ResultsAreIPs, Zenon
  <2>3. pools[p].alloc[c.results[k]] = b
    BY <1>6, Zenon DEF Recorded
  <2>4. b # None
    BY NoneAssumption
  <2> QED
    BY <2>1, <2>2, <2>3, <2>4, Zenon DEF HeldByRef
<1> QED
  BY <1>6, <1>8, <1>9, <1>11, <1>12, Zenon

\* The update of a rollback takes no entry of the results.
LEMMA UndoUpdateKept ==
  ASSUME IInv, NEW b \in Attachments, NEW live \in BOOLEAN, call[b].pc = "rbpatch",
         Kept(b, call[b], pools, live),
         UpdatePool(PoolOf(b, Head(call[b].rbq).idx), call[b].snap,
                    [call[b].snap.alloc EXCEPT ![call[b].ip] = None])
  PROVE  Kept(b, call[b], pools', live)
<1> DEFINE c == call[b]
           p == PoolOf(b, Head(c.rbq).idx)
<1>1. c \in Call /\ c.rbq # <<>> /\ c.rbq \in Seq(Commit)
  BY CallFacts, Zenon DEF WellFormed, RollingBack, Call
<1>2. \A q \in Pools \ {p} : pools'[q] = pools[q]
  BY Zenon DEF UpdatePool, IInv, PoolsOK
<1> SUFFICES ASSUME Owes(c, live) PROVE Backed(b, c, pools')
  BY DEF Kept
<1>3. Backed(b, c, pools) /\ c.pc \in Undoing /\ c.pc \notin Trying \cup {"up", "createorip"}
  BY Zenon DEF Kept, Undoing, RollingBack, Trying, Attempting
<1>4. Recorded(b, c, pools')
  <2>1. CASE c.results = <<>>
    BY <2>1 DEF Recorded
  <2>2. CASE c.results # <<>>
    <3>1. c.created /\ Alone(b, c) /\ \A k \in DOMAIN c.rbq : c.rbq[k].idx = c.idx
      BY <1>3, <2>2, Zenon DEF Backed
    <3>2. Head(c.rbq).idx = c.idx
      BY <1>1, <3>1
    <3>3. \A k \in DOMAIN c.results : PoolOf(b, k) # p
      BY <3>1, <3>2, Zenon DEF Alone
    <3>4. \A k \in DOMAIN c.results : k \in RangeIdx(b) /\ PoolOf(b, k) \in Pools
      BY <1>3, RangePool, Zenon DEF Backed, Recorded
    <3> QED
      BY <1>2, <1>3, <3>3, <3>4, ZenonT(60) DEF Backed, Recorded
  <2> QED
    BY <2>1, <2>2, Zenon
<1> QED
  BY <1>3, <1>4, Zenon DEF Backed

\* The steps of an attempt.
LEMMA AttemptKept ==
  ASSUME IInv, NEW b \in Attachments, NEW live \in BOOLEAN, Kept(b, call[b], pools, live),
         ReadMissing(b) \/ CreatePool(b) \/ ReadForAdd(b) \/ ReadForDel(b) \/ GetOrip(b)
           \/ StaleGet(b) \/ StaleDel(b) \/ Patch(b)
  PROVE  Kept(b, call'[b], pools', live)
<1> DEFINE c == call[b]
           p == PoolOf(b, c.idx)
<1>1. /\ c \in Call /\ WellFormed(b, c) /\ p \in Pools /\ c.idx \in RangeIdx(b)
      /\ c.mode \in {"ADD", "DEL"}
  BY CallFacts, Zenon DEF WellFormed, Call
<1>2. \A x : Become(b, x) => call'[b] = x
  BY Zenon DEF Become, IInv
<1>3. c.pc \in Trying => Going(b, c, pools, live)
  BY KeptFacts, ZenonT(60)
<1>4. CASE ReadMissing(b)
  <2>1. c.pc = "read" /\ UNCHANGED pools
    BY <1>4 DEF ReadMissing, At
  <2>2. CASE c.mode = "DEL"
    <3>1. call'[b] = NextRange(b, c) /\ ~Owes(c, live)
      BY <1>2, <1>4, <2>2, Zenon DEF ReadMissing, Owes
    <3> QED
      BY <1>1, <2>1, <3>1, NextRangeKept, Zenon
  <2>3. CASE c.mode # "DEL"
    <3> DEFINE d == [c EXCEPT !.pc = "create"]
    <3>1. call'[b] = d
      BY <1>2, <1>4, <2>3, Zenon DEF ReadMissing
    <3>2. /\ d.pc = "create" /\ d.mode = c.mode /\ d.exhausted = c.exhausted
          /\ d.results = c.results /\ d.idx = c.idx
      BY <1>1, Zenon DEF Call
    <3> HIDE DEF d
    <3>3. c.pc \in Trying /\ d.pc \in Trying
      BY <2>1, <3>2, Zenon DEF Trying
    <3>4. TryStep(c, d)
      BY <3>2, <3>3, Zenon DEF TryStep
    <3> QED
      BY <2>1, <3>1, <3>4, TryKept, Zenon
  <2> QED
    BY <2>2, <2>3
<1>5. CASE CreatePool(b)
  <2>1. c.pc = "create" /\ call'[b] = NextAttempt(b, c, TRUE)
    BY <1>2, <1>5, Zenon DEF CreatePool, At
  <2>2. KeepsEntries(b, pools, pools')
    <3>1. \A q \in Pools : pools'[q].alloc = pools[q].alloc
      BY <1>1, <1>5, Zenon DEF CreatePool, IInv, PoolsOK, Pool
    <3> QED
      BY <3>1, Zenon DEF KeepsEntries
  <2>3. Kept(b, c, pools', live)
    BY <1>1, <2>2, KeptFrame, Zenon
  <2>4. Going(b, c, pools', live)
    BY <2>1, <2>3, KeptFacts, ZenonT(60) DEF Trying
  <2> QED
    BY <1>1, <2>1, <2>4, NextAttemptKept, ZenonT(60)
<1>6. CASE ReadForAdd(b)
  <2>1. c.pc = "read" /\ UNCHANGED pools
    BY <1>6, Zenon DEF ReadForAdd, At
  <2>2. CASE call'[b] = Fail(c)
    BY <1>1, <2>1, <2>2, FailKept, Zenon
  <2> DEFINE after == IF OverlappingRanges THEN "getorip" ELSE "patch"
             new(ip) == ~AlreadyInPool(b, ip, pools[p].alloc)
  <2>3. after \in {"getorip", "patch"}
    OBVIOUS
  <2>4. \/ call'[b] = Fail(c)
        \/ \E ip : call'[b] = [c EXCEPT !.pc = after, !.snap = pools[p], !.ip = ip, !.created = new(ip)]
    BY <1>2, <1>6, Zenon DEF ReadForAdd
  <2> HIDE DEF after, new
  <2>5. ASSUME NEW ip,
               call'[b] = [c EXCEPT !.pc = after, !.snap = pools[p], !.ip = ip, !.created = new(ip)]
        PROVE  Kept(b, call'[b], pools', live)
    <3> DEFINE d == [c EXCEPT !.pc = after, !.snap = pools[p], !.ip = ip, !.created = new(ip)]
    <3>1. /\ d.pc = after /\ d.mode = c.mode /\ d.exhausted = c.exhausted
          /\ d.results = c.results /\ d.idx = c.idx
      BY <1>1, Zenon DEF Call
    <3> HIDE DEF d
    <3>2. c.pc \in Trying /\ d.pc \in Trying
      BY <2>1, <2>3, <3>1, Zenon DEF Trying, Attempting
    <3>3. TryStep(c, d)
      BY <3>1, <3>2, Zenon DEF TryStep
    <3> QED
      BY <2>1, <2>5, <3>3, TryKept DEF d
  <2> QED
    BY <2>2, <2>4, <2>5, Zenon
<1>7. CASE ReadForDel(b)
  <2>1. c.pc = "read" /\ c.mode = "DEL" /\ UNCHANGED pools
    BY <1>7, Zenon DEF ReadForDel, At
  <2>2. \/ call'[b] = NextRange(b, c)
        \/ \E pc \in {"deldel", "delget"} : \E ip : call'[b] = [c EXCEPT !.pc = pc, !.ip = ip]
        \/ \E snap, ip : call'[b] = [c EXCEPT !.pc = "patch", !.snap = snap, !.ip = ip, !.pending = ip]
    <3>1. (IF PodUID[b] = NoUID THEN "deldel" ELSE "delget") \in {"deldel", "delget"}
      BY Zenon
    <3> QED
      BY <1>2, <1>7, <3>1, Zenon DEF ReadForDel
  <2>3. CASE call'[b] = NextRange(b, c)
    BY <1>1, <2>1, <2>3, NextRangeKept, Zenon DEF Owes
  <2>4. CASE \/ \E pc \in {"deldel", "delget"} : \E ip : call'[b] = [c EXCEPT !.pc = pc, !.ip = ip]
             \/ \E snap, ip : call'[b] = [c EXCEPT !.pc = "patch", !.snap = snap, !.ip = ip, !.pending = ip]
    <3>1. call'[b].mode = "DEL" /\ call'[b].pc # "absent"
      BY <1>1, <2>1, <2>4, Zenon DEF Call
    <3> QED
      BY <3>1, DelKept, Zenon
  <2> QED
    BY <2>2, <2>3, <2>4, Zenon
<1>8. CASE GetOrip(b)
  <2> DEFINE e == [c EXCEPT !.dummies = @ \cup {c.ip}]
  <2>1. c.pc = "getorip" /\ c.ip \in IPs /\ UNCHANGED pools
    BY <1>1, <1>8, Zenon DEF GetOrip, At, WellFormed, Attempting
  <2>2. /\ e \in Call /\ e.idx = c.idx /\ e.ip = c.ip /\ e.mode = c.mode
        /\ e.results = c.results /\ e.exhausted = c.exhausted
    <3>1. c.dummies \cup {c.ip} \in SUBSET IPs
      BY <1>1, <2>1, Zenon DEF Call
    <3> QED
      BY <1>1, <3>1, Zenon DEF Call
  <2>3. \/ call'[b] = NextAttempt(b, e, FALSE) \/ call'[b] = [c EXCEPT !.pc = "patch"]
        \/ \E uid : call'[b] = [c EXCEPT !.pc = "staleget", !.uid = uid]
        \/ call'[b] = [c EXCEPT !.pc = "patch", !.skip = TRUE]
    BY <1>2, <1>8, Zenon DEF GetOrip
  <2> HIDE DEF e
  <2>4. CASE call'[b] = NextAttempt(b, e, FALSE)
    <3>1. Going(b, c, pools, live)
      BY <1>3, <2>1, Zenon DEF Trying, Attempting
    <3>2. Going(b, e, pools, live)
      BY <2>2, <3>1, Zenon DEF Going, Owes, Recorded, InOrder
    <3> QED
      BY <1>1, <2>1, <2>2, <2>4, <3>2, NextAttemptKept, Zenon
  <2>5. CASE call'[b] # NextAttempt(b, e, FALSE)
    <3> DEFINE d == call'[b]
    <3>1. /\ d.pc \in {"patch", "staleget"} /\ d.mode = c.mode /\ d.exhausted = c.exhausted
          /\ d.results = c.results /\ d.idx = c.idx
      BY <1>1, <2>3, <2>5, ZenonT(60) DEF Call
    <3> HIDE DEF d
    <3>2. c.pc \in Trying /\ d.pc \in Trying
      BY <2>1, <3>1 DEF Trying, Attempting
    <3>3. TryStep(c, d)
      BY <3>1, <3>2, Zenon DEF TryStep
    <3> QED
      BY <2>1, <3>3, TryKept, Zenon DEF d
  <2> QED
    BY <2>4, <2>5, Zenon
<1>9. CASE StaleGet(b) \/ StaleDel(b)
  <2>1. c.pc \in {"staleget", "staledel"} /\ UNCHANGED pools
    BY <1>9, Zenon DEF StaleGet, StaleDel, At
  <2>2. \E pc \in {"patch", "staledel"} : call'[b] = [c EXCEPT !.pc = pc]
    BY <1>2, <1>9, Zenon DEF StaleGet, StaleDel
  <2> DEFINE d == call'[b]
  <2>3. /\ d.pc \in {"patch", "staledel"} /\ d.mode = c.mode /\ d.exhausted = c.exhausted
        /\ d.results = c.results /\ d.idx = c.idx
    BY <1>1, <2>2, Zenon DEF Call
  <2> HIDE DEF d
  <2>4. c.pc \in Trying /\ d.pc \in Trying
    BY <2>1, <2>3 DEF Trying, Attempting
  <2>5. TryStep(c, d)
    BY <2>3, <2>4, Zenon DEF TryStep
  <2> QED
    BY <2>1, <2>5, TryKept, Zenon DEF d
<1>10. CASE Patch(b)
  <2>1. c.pc = "patch"
    BY <1>10, Zenon DEF Patch, At
  <2>2. CASE UpdatePool(p, c.snap, NewAlloc(b, c)) /\ call'[b] = AfterPatch(b, InMemory(b, c))
    <3> DEFINE m == InMemory(b, c)
    <3>1. /\ m \in Call /\ m.idx \in RangeIdx(b) /\ m.ip \in IPs
          /\ Going(b, m, pools', live) /\ Entered(b, m, pools', live)
          /\ Owes(m, live) => Alone(b, m)
      BY <2>1, <2>2, UpdateKept, Zenon
    <3> HIDE DEF m
    <3>2. Kept(b, AfterPatch(b, m), pools', live)
      BY <3>1, AfterPatchKept, Zenon
    <3> QED
      BY <2>2, <3>2 DEF m
  <2>3. CASE call'[b] = NextAttempt(b, c, TRUE) /\ UNCHANGED pools
    <3>1. Going(b, c, pools, live)
      BY <1>3, <2>1, Zenon DEF Trying, Attempting
    <3> QED
      BY <1>1, <2>3, <3>1, NextAttemptKept, Zenon
  <2> QED
    BY <1>2, <1>10, <2>2, <2>3, Zenon DEF Patch
<1> QED
  BY <1>4, <1>5, <1>6, <1>7, <1>8, <1>9, <1>10, Zenon

\* The steps on reservations and of the rollback.
LEMMA FollowUpKept ==
  ASSUME IInv, NEW b \in Attachments, NEW live \in BOOLEAN, Kept(b, call[b], pools, live),
         CreateOrip(b) \/ DelGet(b) \/ DelDel(b) \/ RollbackBegin(b) \/ RollbackRead(b)
           \/ RollbackPatch(b) \/ RollbackOripGet(b) \/ RollbackOripDel(b)
  PROVE  Kept(b, call'[b], pools', live)
<1> DEFINE c == call[b]
           h == Head(c.rbq)
<1>1. /\ c \in Call /\ WellFormed(b, c) /\ c.idx \in RangeIdx(b)
      /\ c.mode \in {"ADD", "DEL"} /\ c.rbq \in Seq(Commit)
  BY CallFacts, Zenon DEF WellFormed, Call
<1>2. \A x : Become(b, x) => call'[b] = x
  BY Zenon DEF Become, IInv
<1>3. CASE CreateOrip(b)
  <2>1. c.pc = "createorip" /\ c.ip \in IPs /\ c.mode = "ADD" /\ UNCHANGED pools
    BY <1>1, <1>3, Zenon DEF CreateOrip, At, WellFormed, Reserving
  <2>2. /\ Going(b, c, pools, live) /\ Entered(b, c, pools, live)
        /\ Owes(c, live) => Alone(b, c)
    BY <2>1, KeptFacts, ZenonT(60) DEF Entered
  <2>3. call'[b] \in {RangeDone(b, c, TRUE), OverlapUpdateFailed(b, c, TRUE)}
    BY <1>2, <1>3, Zenon DEF CreateOrip
  <2>4. TRUE \in BOOLEAN
    OBVIOUS
  <2>5. Kept(b, RangeDone(b, c, TRUE), pools, live)
    BY <1>1, <2>1, <2>2, <2>4, RangeDoneKept, Zenon
  <2>6. Kept(b, OverlapUpdateFailed(b, c, TRUE), pools, live)
    BY <1>1, <2>1, <2>2, <2>4, OverlapUpdateFailedKept, Zenon
  <2> QED
    BY <2>1, <2>3, <2>5, <2>6, Zenon
<1>4. CASE DelGet(b) \/ DelDel(b)
  <2>1. c.mode = "DEL" /\ UNCHANGED pools
    BY <1>1, <1>4, Zenon DEF DelGet, DelDel, At, WellFormed
  <2>2. call'[b] = RangeDone(b, c, FALSE) \/ call'[b] = [c EXCEPT !.pc = "deldel"]
    BY <1>2, <1>4, Zenon DEF DelGet, DelDel
  <2>3. CASE call'[b] = RangeDone(b, c, FALSE)
    BY <1>1, <2>1, <2>3, RangeDoneKept, ZenonT(60) DEF Going, Entered, Owes
  <2>4. CASE call'[b] = [c EXCEPT !.pc = "deldel"]
    <3>1. call'[b].mode = "DEL" /\ call'[b].pc # "absent"
      BY <1>1, <2>1, <2>4, Zenon DEF Call
    <3> QED
      BY <3>1, DelKept, Zenon
  <2> QED
    BY <2>2, <2>3, <2>4, Zenon
<1>5. CASE RollbackBegin(b)
  <2>1. c.pc = "rollback" /\ c.pc \in Undoing /\ UNCHANGED pools
    BY <1>5, Zenon DEF RollbackBegin, At, Undoing
  <2>2. CASE c.then = "retry" /\ call'[b] = NextAttempt(b, c, TRUE)
    <3>1. Going(b, c, pools, live)
      BY <2>1, <2>2, KeptFacts, Zenon
    <3> QED
      BY <1>1, <2>1, <2>2, <3>1, NextAttemptKept, ZenonT(60)
  <2>3. CASE call'[b] = Fail(c)
    BY <1>1, <2>1, <2>3, FailKept, Zenon
  <2>4. CASE call'[b] = Finish(c, "failed")
    <3>1. Owes(c, live) => Recorded(b, c, pools)
      BY KeptFacts, Zenon
    <3> QED
      BY <1>1, <2>1, <2>4, <3>1, FinishKept, ZenonT(60)
  <2>5. CASE c.rbq # <<>> /\ call'[b] = RollbackOrip(b, [c EXCEPT !.ip = h.ip])
    <3> DEFINE e == [c EXCEPT !.ip = h.ip]
    <3>1. h.ip \in Address
      <4>1. c.rbq \in Seq(Commit) /\ c.rbq # <<>>
        BY <1>1, <2>5, Zenon
      <4> HIDE DEF c
      <4>2. h \in Commit
        BY <4>1
      <4> HIDE DEF h
      <4> QED
        BY <4>2, Zenon DEF Commit, Address
    <3>2. e \in Call
      BY <1>1, <3>1, Zenon DEF Call
    <3>3. /\ e.pc = c.pc /\ e.mode = c.mode /\ e.idx = c.idx /\ e.rbq = c.rbq /\ e.then = c.then
          /\ e.results = c.results /\ e.exhausted = c.exhausted /\ e.created = c.created
      BY <1>1, Zenon DEF Call
    <3> HIDE DEF e
    <3>4. Kept(b, e, pools, live)
      <4>1. UndoStep(c, e)
        BY <2>1, <3>3, Zenon DEF UndoStep
      <4> QED
        BY <4>1, UndoKept, Zenon
    <3>5. Kept(b, RollbackOrip(b, e), pools, live)
      BY <2>1, <2>5, <3>2, <3>3, <3>4, RollbackOripKept, ZenonT(60)
    <3> QED
      BY <2>1, <2>5, <3>5, Zenon DEF e
  <2>6. CASE c.rbq # <<>> /\ call'[b] = RollbackNext(c)
    BY <1>1, <2>1, <2>6, RollbackNextKept, Zenon
  <2>7. CASE call'[b] = [c EXCEPT !.pc = "rbpatch", !.snap = h.snap, !.ip = h.ip, !.rbtry = 1]
    <3> DEFINE d == call'[b]
    <3>1. /\ d.pc = "rbpatch" /\ d.mode = c.mode /\ d.idx = c.idx /\ d.rbq = c.rbq /\ d.then = c.then
          /\ d.results = c.results /\ d.exhausted = c.exhausted /\ d.created = c.created
      BY <1>1, <2>7, ZenonT(60) DEF Call
    <3> HIDE DEF d
    <3>2. d.pc \in Undoing
      BY <3>1 DEF Undoing, RollingBack
    <3>3. UndoStep(c, d)
      BY <2>1, <3>1, <3>2, Zenon DEF UndoStep
    <3> QED
      BY <2>1, <3>3, UndoKept, Zenon DEF d
  <2> QED
    BY <1>2, <1>5, <2>2, <2>3, <2>4, <2>5, <2>6, <2>7, ZenonT(60) DEF RollbackBegin
<1>6. CASE RollbackRead(b) \/ RollbackOripGet(b) \/ RollbackOripDel(b)
  <2>1. c.pc \in RollingBack /\ UNCHANGED pools
    BY <1>6, Zenon DEF RollbackRead, RollbackOripGet, RollbackOripDel, At, RollingBack
  <2>2. c.pc \in Undoing /\ c.rbq # <<>>
    BY <1>1, <2>1, Zenon DEF Undoing, WellFormed
  <2>3. \/ call'[b] = RollbackNext(c)
        \/ \E snap : call'[b] = [c EXCEPT !.pc = "rbpatch", !.snap = snap]
        \/ call'[b] = [c EXCEPT !.pc = "rboripdel"]
    BY <1>2, <1>6, Zenon DEF RollbackRead, RollbackOripGet, RollbackOripDel
  <2>4. CASE call'[b] = RollbackNext(c)
    BY <1>1, <2>1, <2>2, <2>4, RollbackNextKept, Zenon
  <2>5. CASE \/ \E snap : call'[b] = [c EXCEPT !.pc = "rbpatch", !.snap = snap]
             \/ call'[b] = [c EXCEPT !.pc = "rboripdel"]
    <3> DEFINE d == call'[b]
    <3>1. /\ d.pc \in {"rbpatch", "rboripdel"} /\ d.mode = c.mode /\ d.idx = c.idx
          /\ d.rbq = c.rbq /\ d.then = c.then
          /\ d.results = c.results /\ d.exhausted = c.exhausted /\ d.created = c.created
      BY <1>1, <2>5, ZenonT(60) DEF Call
    <3> HIDE DEF d
    <3>2. d.pc \in Undoing
      BY <3>1 DEF Undoing, RollingBack
    <3>3. UndoStep(c, d)
      BY <2>2, <3>1, <3>2, Zenon DEF UndoStep
    <3> QED
      BY <2>1, <3>3, UndoKept, Zenon DEF d
  <2> QED
    BY <2>3, <2>4, <2>5, ZenonT(60)
<1>7. CASE RollbackPatch(b)
  <2>1. c.pc = "rbpatch" /\ c.pc \in Undoing /\ c.rbq # <<>>
    BY <1>1, <1>7, Zenon DEF RollbackPatch, At, WellFormed, RollingBack, Undoing
  <2>2. CASE /\ UpdatePool(PoolOf(b, h.idx), c.snap, [c.snap.alloc EXCEPT ![c.ip] = None])
             /\ call'[b] = RollbackOrip(b, c)
    <3>1. Kept(b, c, pools', live)
      BY <2>1, <2>2, UndoUpdateKept, Zenon
    <3> QED
      BY <1>1, <2>1, <2>2, <3>1, RollbackOripKept, Zenon
  <2>3. CASE call'[b] = RollbackAgain(c, "rbread") /\ UNCHANGED pools
    BY <1>1, <2>1, <2>3, RollbackAgainKept, Zenon
  <2> QED
    BY <1>2, <1>7, <2>2, <2>3, Zenon DEF RollbackPatch
<1> QED
  BY <1>3, <1>4, <1>5, <1>6, <1>7, Zenon

\* Failed requests, lost replies, killed plugins.
LEMMA FaultKept ==
  ASSUME IInv, NEW b \in Attachments, NEW live \in BOOLEAN, Kept(b, call[b], pools, live), Fault(b)
  PROVE  Kept(b, call'[b], pools', live)
<1> DEFINE c == call[b]
           p == PoolOf(b, c.idx)
<1>1. /\ c \in Call /\ WellFormed(b, c) /\ p \in Pools /\ c.mode \in {"ADD", "DEL"}
  BY CallFacts, Zenon DEF Call
<1>2. \A x : Become(b, x) => call'[b] = x
  BY Zenon DEF Become, IInv
<1>3. CASE RequestFails(b)
  <2>1. UNCHANGED pools /\ \E retryable \in BOOLEAN : call'[b] = OnError(b, c, retryable)
    BY <1>2, <1>3, Zenon DEF RequestFails
  <2> QED
    BY <1>1, <2>1, OnErrorKept, Zenon
<1>4. CASE Crash(b)
  <2>1. UNCHANGED pools
    BY <1>4, Zenon DEF Crash
  <2>2. CASE c.mode = "DEL"
    <3>1. call'[b] = Finish(c, "delfailed") /\ ~Owes(c, live)
      BY <1>2, <1>4, <2>2, Zenon DEF Crash, Owes
    <3> QED
      BY <1>1, <2>1, <3>1, FinishKept, Zenon
  <2>3. CASE c.mode = "ADD"
    <3> DEFINE e == [c EXCEPT !.results = <<>>]
    <3>1. call'[b] = Finish(e, "failed")
      BY <1>2, <1>4, <2>3, Zenon DEF Crash
    <3>2. <<>> \in Seq(IPs)
      OBVIOUS
    <3>3. e \in Call /\ e.results = <<>>
      BY <1>1, <3>2, Zenon DEF Call
    <3> HIDE DEF e
    <3>4. Recorded(b, e, pools)
      BY <3>3 DEF Recorded
    <3> QED
      BY <2>1, <3>1, <3>3, <3>4, FinishKept, Zenon
  <2> QED
    BY <1>1, <2>2, <2>3, Zenon
<1>5. CASE ReplyLost(b)
  <2>1. CASE c.pc = "patch"
    <3> DEFINE m == InMemory(b, c)
    <3>1. /\ UpdatePool(p, c.snap, NewAlloc(b, c))
          /\ \E retryable \in BOOLEAN : call'[b] = OnError(b, m, retryable)
      BY <1>2, <1>5, <2>1, Zenon DEF ReplyLost
    <3>2. m \in Call /\ m.pc = "patch"
      BY <1>1, <2>1, <3>1, AttemptUpdate, ZenonT(60) DEF InMemory, Call
    <3>3. call'[b] = Fail(m)
      BY <3>1, <3>2, Zenon DEF OnError
    <3> QED
      BY <3>2, <3>3, FailKept, Zenon
  <2>2. CASE c.pc # "patch"
    <3>1. \E retryable \in BOOLEAN : call'[b] = OnError(b, c, retryable)
      BY <1>2, <1>5, <2>2, Zenon DEF ReplyLost
    <3>2. Kept(b, c, pools', live)
      <4>1. CASE c.pc = "create" /\ pools' = [pools EXCEPT ![p].rv = 1]
        <5>1. \A q \in Pools : pools'[q].alloc = pools[q].alloc
          BY <1>1, <4>1, Zenon DEF IInv, PoolsOK, Pool
        <5>2. KeepsEntries(b, pools, pools')
          BY <5>1, Zenon DEF KeepsEntries
        <5> QED
          BY <1>1, <5>2, KeptFrame, Zenon
      <4>2. CASE /\ c.pc = "rbpatch"
                 /\ UpdatePool(PoolOf(b, Head(c.rbq).idx), c.snap, [c.snap.alloc EXCEPT ![c.ip] = None])
        BY <4>2, UndoUpdateKept, Zenon
      <4>3. CASE UNCHANGED pools
        BY <4>3, Zenon
      <4> QED
        BY <1>5, <2>2, <4>1, <4>2, <4>3, Zenon DEF ReplyLost
    <3> QED
      BY <1>1, <3>1, <3>2, OnErrorKept, Zenon
  <2> QED
    BY <2>1, <2>2, Zenon
<1> QED
  BY <1>3, <1>4, <1>5, Zenon DEF Fault
-----------------------------------------------------------------------------
(* Addresses that are up.                                                  *)

\* Every sandbox that has appeared is backed by the pools, as far as it is owed.
BackedInv ==
  \A a \in Attachments : call[a].pc # "absent" => Kept(a, call[a], pools, ~Superseded(a))

\* A step of b leaves the entries of another pod interface alone.
LEMMA OthersEntries ==
  ASSUME NEW a \in Attachments, NEW b \in Attachments, Ref[a] # Ref[b],
         NEW ps, PoolsOK(ps), NEW qs, HolderStep(b, ps, qs)
  PROVE  KeepsEntries(a, ps, qs)
<1> SUFFICES ASSUME NEW q \in Pools, NEW i \in IPs, ps[q].alloc[i] = a
             PROVE  qs[q].alloc[i] = a
  BY Zenon DEF KeepsEntries
<1>1. CASE \A p \in Pools : qs[p].alloc = ps[p].alloc
  BY <1>1
<1>2. ASSUME NEW p \in Pools, NEW ip \in IPs, NEW x \in {b, None},
             MaySet(b, ps[p].alloc, ip, x), qs[p].alloc = [ps[p].alloc EXCEPT ![ip] = x],
             \A r \in Pools \ {p} : qs[r].alloc = ps[r].alloc
      PROVE  qs[q].alloc[i] = a
  <2>1. CASE q # p
    BY <1>2, <2>1, Zenon
  <2>2. CASE q = p
    <3>1. DOMAIN ps[p].alloc = IPs
      <4>1. ps[p] \in Pool
        BY Zenon DEF PoolsOK
      <4> QED
        BY <4>1 DEF Pool, Allocations
    <3>2. ps[p].alloc[ip] # a
      BY <1>2, NoneAssumption, Zenon DEF MaySet, HeldByRef
    <3> QED
      BY <1>2, <2>2, <3>1, <3>2, Zenon
  <2> QED
    BY <2>1, <2>2, Zenon
<1> QED
  BY <1>1, <1>2, ZenonT(60) DEF HolderStep

\* A step of b keeps everybody backed if it keeps b backed.
LEMMA OneStepBacked ==
  ASSUME IInv, BackedInv, NEW b \in Attachments,
         \A a \in Attachments \ {b} : call'[a] = call[a],
         Kept(b, call'[b], pools', ~Superseded(b)),
         pools' = pools \/ HolderStep(b, pools, pools')
  PROVE  BackedInv'
<1> SUFFICES ASSUME NEW a \in Attachments, call'[a].pc # "absent"
             PROVE  Kept(a, call'[a], pools', ~Superseded(a)')
  BY Zenon DEF BackedInv
<1>1. CASE a = b
  <2>1. Superseded(a)' <=> Superseded(a)
    BY <1>1, Zenon DEF Superseded
  <2> QED
    BY <1>1, <2>1, Zenon DEF Kept, Owes
<1>2. CASE a # b
  <2>1. call'[a] = call[a] /\ Kept(a, call[a], pools, ~Superseded(a))
    BY <1>2, Zenon DEF BackedInv
  <2>2. call'[b].pc # "absent"
    BY Zenon DEF Kept
  <2>3. CASE Superseded(a)'
    BY <2>1, <2>3, Zenon DEF Kept, Owes
  <2>4. CASE ~Superseded(a)'
    <3>1. Ref[b] # Ref[a]
      BY <1>2, <2>2, <2>4, Zenon DEF Superseded
    <3>2. ~Superseded(a)
      <4>1. ASSUME NEW x \in Attachments \ {a}, Ref[x] = Ref[a], call[x].pc # "absent"
            PROVE  FALSE
        <5>1. x # b
          BY <3>1, <4>1, Zenon
        <5> QED
          BY <2>4, <4>1, <5>1, Zenon DEF Superseded
      <4> QED
        BY <4>1, Zenon DEF Superseded
    <3>3. KeepsEntries(a, pools, pools')
      <4>1. CASE pools' = pools
        BY <4>1, Zenon DEF KeepsEntries
      <4>2. CASE HolderStep(b, pools, pools')
        BY <3>1, <4>2, OthersEntries, Zenon DEF IInv
      <4> QED
        BY <4>1, <4>2, Zenon
    <3>4. call[a] \in Call /\ WellFormed(a, call[a])
      BY CallFacts, Zenon
    <3>5. Kept(a, call[a], pools, TRUE)
      BY <2>1, <3>2, Zenon DEF Kept, Owes
    <3>6. Kept(a, call[a], pools', TRUE)
      BY <3>3, <3>4, <3>5, KeptFrame, Zenon
    <3> QED
      BY <2>1, <3>6, Zenon DEF Kept, Owes
  <2> QED
    BY <2>3, <2>4, Zenon
<1> QED
  BY <1>1, <1>2, Zenon

\* The two invocations.
LEMMA StartBacked ==
  ASSUME IInv, BackedInv, NEW b \in Attachments, AddStart(b) \/ DelStart(b)
  PROVE  BackedInv'
<1>1. PICK d : call' = [call EXCEPT ![b] = d]
  BY Zenon DEF AddStart, DelStart, Become
<1>2. call'[b] = d /\ \A a \in Attachments \ {b} : call'[a] = call[a]
  BY <1>1, Zenon DEF IInv
<1>3. \A x : Become(b, x) => d = x
  BY <1>1, <1>2, Zenon DEF Become, IInv
<1>4. UNCHANGED pools
  BY Zenon DEF AddStart, DelStart
<1>5. CASE AddStart(b)
  <2>1. PICK pref \in {Preferred[b], None} : d = [Fresh EXCEPT !.pc = "read", !.pref = pref]
    BY <1>3, <1>5, Zenon DEF AddStart
  <2>2. d.pc = "read" /\ d.idx = 1 /\ d.results = <<>>
    BY <2>1, Zenon DEF Fresh
  <2>3. Recorded(b, d, pools) /\ InOrder(d)
    <3>1. DOMAIN d.results = {} /\ Len(d.results) = 0
      BY <2>2
    <3>2. 0 + 1 = 1
      OBVIOUS
    <3> QED
      BY <2>2, <3>1, <3>2, Zenon DEF Recorded, InOrder
  <2>4. Kept(b, d, pools', ~Superseded(b))
    BY <1>4, <2>2, <2>3, Zenon DEF Kept, Backed, Undoing, RollingBack
  <2> QED
    BY <1>2, <1>4, <2>4, OneStepBacked, Zenon
<1>6. CASE DelStart(b)
  <2>1. d = [Fresh EXCEPT !.pc = "read", !.mode = "DEL", !.dels = call[b].dels + 1]
    BY <1>3, <1>6, Zenon DEF DelStart
  <2>2. d.pc = "read" /\ d.mode = "DEL"
    BY <2>1, Zenon DEF Fresh
  <2>3. Kept(b, d, pools', ~Superseded(b))
    BY <2>2 DEF Kept, Owes
  <2> QED
    BY <1>2, <1>4, <2>3, OneStepBacked, Zenon
<1> QED
  BY <1>5, <1>6, Zenon

\* The invariant is inductive relative to IInv.
LEMMA NextBacked == IInv /\ BackedInv /\ [Next]_vars => BackedInv'
<1> SUFFICES ASSUME IInv, BackedInv, [Next]_vars PROVE BackedInv'
  OBVIOUS
<1>1. CASE UNCHANGED vars
  <2>1. pools' = pools /\ call' = call
    BY <1>1 DEF vars
  <2> QED
    BY <2>1, Zenon DEF BackedInv, Superseded
<1>2. ASSUME NEW b \in Attachments, AddStart(b) \/ DelStart(b) PROVE BackedInv'
  BY <1>2, StartBacked, Zenon
<1>3. ASSUME NEW b \in Attachments, Step(b) \/ Fault(b) PROVE BackedInv'
  <2> DEFINE live == ~Superseded(b)
  <2>1. call[b].pc # "absent" /\ \A a \in Attachments \ {b} : call'[a] = call[a]
    BY <1>3, RunStep, Zenon DEF Ended
  <2>2. live \in BOOLEAN /\ Kept(b, call[b], pools, live)
    BY <2>1, Zenon DEF BackedInv
  <2> HIDE DEF live
  <2>3. Kept(b, call'[b], pools', live)
    <3>1. CASE Step(b)
      BY <2>2, <3>1, AttemptKept, FollowUpKept, Zenon DEF Step
    <3>2. CASE Fault(b)
      BY <2>2, <3>2, FaultKept, Zenon
    <3> QED
      BY <1>3, <3>1, <3>2, Zenon
  <2>4. pools' = pools \/ HolderStep(b, pools, pools')
    BY <1>3, HolderSteps, Zenon
  <2> QED
    BY <2>1, <2>3, <2>4, OneStepBacked, Zenon DEF live
<1> QED
  BY <1>1, <1>2, <1>3, Zenon DEF Next

\* An address reported to the runtime by a successful ADD stays recorded for its
\* container until its DEL (IPManagementKubernetesUpdate, rollbackCommitted).
THEOREM UpBacked == Spec => []UpIsBacked
<1>1. Init => BackedInv
  <2> SUFFICES ASSUME Init, NEW a \in Attachments PROVE call[a].pc = "absent"
    BY Zenon DEF BackedInv
  <2>1. call[a] = Fresh
    BY Zenon DEF Init
  <2> QED
    BY <2>1 DEF Fresh
<1>2. IInv /\ BackedInv => UpIsBacked
  <2> SUFFICES ASSUME IInv, BackedInv, NEW a \in Attachments, call[a].pc = "up",
                      ~call[a].exhausted, ~Superseded(a)
               PROVE  /\ Len(call[a].results) = Len(Ranges[a])
                      /\ \A i \in RangeIdx(a) : pools[PoolOf(a, i)].alloc[call[a].results[i]] = a
    BY Zenon DEF UpIsBacked
  <2>1. call[a].mode = "ADD" /\ call[a] \in Call
    BY CallFacts DEF WellFormed
  <2>2. Backed(a, call[a], pools)
    BY <2>1, Zenon DEF BackedInv, Kept, Owes
  <2>3. Len(call[a].results) = Len(Ranges[a]) /\ Recorded(a, call[a], pools)
    BY <2>2, Zenon DEF Backed
  <2>4. DOMAIN call[a].results = RangeIdx(a)
    BY <2>1, <2>3 DEF Call, RangeIdx
  <2> QED
    BY <2>3, <2>4, Zenon DEF Recorded
<1> QED
  BY <1>1, <1>2, Invariance, NextBacked, PTL DEF Spec
=============================================================================
