------------------------------- MODULE Lease -------------------------------
(***************************************************************************)
(* IPManagement and newLeaderElector: a call takes the lease before it     *)
(* updates the pools, unless OptimisticIPAM.  Each call runs two           *)
(* goroutines: one waits for leadership and does the update, the other     *)
(* runs the elector and stops it when the first has finished.  They talk   *)
(* through the channels leader, deposed and stopM, and the call returns    *)
(* when both are done.                                                     *)
(*                                                                         *)
(* The elector is client-go's, vendored, as it runs with the configuration *)
(* it is given.  Time passes in ticks of one retry period; of the clock    *)
(* only the age of what an elector last saw or wrote is kept.              *)
(* A request that finds the lease unchanged since it was read succeeds, so *)
(* a read and the write that follows it are one step.                      *)
(***************************************************************************)
EXTENDS Naturals

CONSTANTS
  Calls,          \* invocations of the plugin
  Pod,            \* Pod[c]: the pod of the call, its identity as a candidate
  LeaseTicks,     \* lease duration, in the whole seconds the record holds
  RenewTicks,     \* renew deadline
  MaxFaults,      \* bound: requests lost, calls killed, contexts expired
  None

Identities == {Pod[c] : c \in Calls}
RetryTicks == 1
GiveUpTicks == RetryTicks + RenewTicks
Cap == IF LeaseTicks > GiveUpTicks THEN LeaseTicks ELSE GiveUpTicks

ASSUME LeaseAssumption ==
  /\ LeaseTicks \in Nat /\ LeaseTicks > RetryTicks
  /\ RenewTicks \in Nat \ {0}
  /\ MaxFaults \in Nat
  /\ None \notin Identities

VARIABLES
  holder,     \* holderIdentity of the lease, None when it is released
  main,       \* the goroutine that updates
  elector,    \* the goroutine that runs the elector
  leader,     \* the leader channel: "open", about to be closed, "closed"
  deposed,    \* the deposed channel is closed
  stop,       \* stopM was sent
  expired,    \* the context is done
  mine,       \* the elector's observed record names its own identity
  seen,       \* the elector has observed the record that is stored
  age,        \* ticks since it last observed or wrote a new record
  tried,      \* a renewal failed in this tick
  faults      \* failures so far

vars == <<holder, main, elector, leader, deposed, stop, expired, mine, seen, age,
          tried, faults>>
channels == <<leader, deposed, stop>>
clock == <<age, tried, faults>>

Init ==
  /\ holder = None
  /\ main = [c \in Calls |-> "idle"] /\ elector = [c \in Calls |-> "off"]
  /\ leader = [c \in Calls |-> "open"] /\ deposed = [c \in Calls |-> FALSE]
  /\ stop = [c \in Calls |-> FALSE] /\ expired = [c \in Calls |-> FALSE]
  /\ mine = [c \in Calls |-> FALSE] /\ seen = [c \in Calls |-> FALSE]
  /\ age = [c \in Calls |-> 0] /\ tried = [c \in Calls |-> FALSE]
  /\ faults = [lost |-> 0, crashes |-> 0, expired |-> 0]
-----------------------------------------------------------------------------
(* The call                                                                *)

Faulty == faults.lost + faults.crashes + faults.expired < MaxFaults

\* IPManagement begins both goroutines; without a pod name, or when the
\* elector cannot be made, it returns an error instead.
Call(c) ==
  /\ main[c] = "idle"
  /\ \/ /\ main' = [main EXCEPT ![c] = "wait"]
        /\ elector' = [elector EXCEPT ![c] = "acquire"]
     \/ /\ main' = [main EXCEPT ![c] = "returned"]
        /\ UNCHANGED elector
  /\ UNCHANGED <<holder, channels, expired, mine, seen, clock>>

\* AddTimeLimit or DelTimeLimit is over.
ContextDone(c) ==
  /\ ~expired[c] /\ main[c] \notin {"idle", "returned"} /\ Faulty
  /\ expired' = [expired EXCEPT ![c] = TRUE]
  /\ faults' = [faults EXCEPT !.expired = @ + 1]
  /\ UNCHANGED <<holder, main, elector, channels, mine, seen, age, tried>>

\* The select takes any case that is ready: the context, a lost or a won
\* election.
Waited(c) == expired[c] \/ deposed[c]

\* Mutant: stopM is not sent when the wait fails.
StopSilently(c) ==
  /\ main[c] = "wait" /\ Waited(c)
  /\ main' = [main EXCEPT ![c] = "stopped"]
  /\ UNCHANGED <<holder, elector, channels, expired, mine, seen, clock>>

Stop(c) ==
  /\ main[c] = "wait" /\ Waited(c)
  /\ main' = [main EXCEPT ![c] = "stopped"]
  /\ stop' = [stop EXCEPT ![c] = TRUE]
  /\ UNCHANGED <<holder, elector, leader, deposed, expired, mine, seen, clock>>

\* Mutant: stopM is sent when the update begins.
UpdateStopsElector(c) ==
  /\ main[c] = "wait" /\ leader[c] = "closed"
  /\ main' = [main EXCEPT ![c] = "update"]
  /\ stop' = [stop EXCEPT ![c] = TRUE]
  /\ UNCHANGED <<holder, elector, leader, deposed, expired, mine, seen, clock>>

\* IPManagementKubernetesUpdate runs with the context of the call, which the
\* loss of the lease does not cancel.
Update(c) ==
  /\ main[c] = "wait" /\ leader[c] = "closed"
  /\ main' = [main EXCEPT ![c] = "update"]
  /\ UNCHANGED <<holder, elector, channels, expired, mine, seen, clock>>

UpdateEnds(c) ==
  /\ main[c] = "update"
  /\ main' = [main EXCEPT ![c] = "stopped"]
  /\ stop' = [stop EXCEPT ![c] = TRUE]
  /\ UNCHANGED <<holder, elector, leader, deposed, expired, mine, seen, clock>>

\* wg.Wait is over: the second goroutine has received stopM and seen the
\* elector end.
Return(c) ==
  /\ main[c] = "stopped" /\ stop[c] /\ elector[c] = "done"
  /\ main' = [main EXCEPT ![c] = "returned"]
  /\ UNCHANGED <<holder, elector, channels, expired, mine, seen, clock>>

\* The runtime kills the plugin.
Crash(c) ==
  /\ main[c] \notin {"idle", "returned"} /\ Faulty
  /\ main' = [main EXCEPT ![c] = "returned"]
  /\ elector' = [elector EXCEPT ![c] = "done"]
  /\ faults' = [faults EXCEPT !.crashes = @ + 1]
  /\ UNCHANGED <<holder, channels, expired, mine, seen, age, tried>>
-----------------------------------------------------------------------------
(* The elector                                                             *)

\* leCtx: a child of the call's context, cancelled after stopM.
Cancelled(c) == expired[c] \/ stop[c]

\* The record is written: nobody else has seen it yet.
Write(c, h) ==
  /\ holder' = h
  /\ seen' = [d \in Calls |-> d = c]
  /\ mine' = [mine EXCEPT ![c] = h = Pod[c]]
  /\ age' = [age EXCEPT ![c] = 0]

\* A candidate reads a record that is new to it: its lease runs from now.
Observe(c) ==
  /\ elector[c] = "acquire" /\ ~Cancelled(c) /\ ~seen[c] /\ holder \notin {None, Pod[c]}
  /\ seen' = [seen EXCEPT ![c] = TRUE]
  /\ age' = [age EXCEPT ![c] = 0]
  /\ UNCHANGED <<holder, main, elector, channels, expired, mine, tried, faults>>

\* The lease is free, the candidate's own, or expired.
Available(c) == holder \in {None, Pod[c]} \/ (seen[c] /\ age[c] >= LeaseTicks)

Acquire(c) ==
  /\ elector[c] = "acquire" /\ ~Cancelled(c) /\ Available(c)
  /\ Write(c, Pod[c])
  /\ elector' = [elector EXCEPT ![c] = "lead"]
  /\ leader' = [leader EXCEPT ![c] = "closing"]
  /\ UNCHANGED <<main, deposed, stop, expired, tried, faults>>

\* OnStartedLeading runs in a goroutine of its own.
OnStartedLeading(c) ==
  /\ leader[c] = "closing" /\ main[c] # "returned"
  /\ leader' = [leader EXCEPT ![c] = "closed"]
  /\ UNCHANGED <<holder, main, elector, deposed, stop, expired, mine, seen, clock>>

\* The context ends the attempt; Run calls OnStoppedLeading in any case.
AcquireStops(c) ==
  /\ elector[c] = "acquire" /\ Cancelled(c)
  /\ elector' = [elector EXCEPT ![c] = "done"]
  /\ deposed' = [deposed EXCEPT ![c] = TRUE]
  /\ UNCHANGED <<holder, main, leader, stop, expired, mine, seen, clock>>

Renew(c) ==
  /\ elector[c] = "lead" /\ ~Cancelled(c) /\ age[c] >= RetryTicks
  /\ holder \in {None, Pod[c]}
  /\ Write(c, Pod[c])
  /\ tried' = [tried EXCEPT ![c] = FALSE]
  /\ UNCHANGED <<main, elector, channels, expired, faults>>

\* A renewal fails, or finds that the lease is another's.
RenewFails(c) ==
  /\ elector[c] = "lead" /\ ~Cancelled(c) /\ age[c] >= RetryTicks /\ ~tried[c]
  /\ tried' = [tried EXCEPT ![c] = TRUE]
  /\ \/ /\ Faulty
        /\ faults' = [faults EXCEPT !.lost = @ + 1]
        /\ UNCHANGED mine
     \/ /\ holder \notin {None, Pod[c]}
        /\ mine' = [mine EXCEPT ![c] = FALSE]
        /\ UNCHANGED faults
  /\ UNCHANGED <<holder, main, elector, channels, expired, seen, age>>

\* The renew loop ends: cancelled, or not renewed within the deadline.
StopLeading(c) ==
  /\ elector[c] = "lead"
  /\ Cancelled(c) \/ age[c] >= GiveUpTicks
  /\ elector' = [elector EXCEPT ![c] = "release"]
  /\ UNCHANGED <<holder, main, channels, expired, mine, seen, clock>>

\* Mutant: ReleaseOnCancel is not set.
ReleaseNever(c) ==
  /\ elector[c] = "release"
  /\ elector' = [elector EXCEPT ![c] = "done"]
  /\ deposed' = [deposed EXCEPT ![c] = TRUE]
  /\ UNCHANGED <<holder, main, leader, stop, expired, mine, seen, clock>>

\* ReleaseOnCancel: the lease is emptied if the elector's observed record says
\* it is its own, whoever holds it now.  Then OnStoppedLeading.
Release(c) ==
  /\ elector[c] = "release"
  /\ elector' = [elector EXCEPT ![c] = "done"]
  /\ deposed' = [deposed EXCEPT ![c] = TRUE]
  /\ \/ mine[c] /\ Write(c, None) /\ UNCHANGED faults
     \/ ~mine[c] /\ UNCHANGED <<holder, seen, mine, age, faults>>
     \/ /\ mine[c] /\ Faulty
        /\ faults' = [faults EXCEPT !.lost = @ + 1]
        /\ UNCHANGED <<holder, seen, mine, age>>
  /\ UNCHANGED <<main, leader, stop, expired, tried>>

\* Time passes, but not past a renewal or a release that is due, nor past the
\* renew deadline.
Tick ==
  /\ \A c \in Calls : elector[c] # "release"
  /\ \A c \in Calls : elector[c] = "lead" =>
       /\ age[c] < GiveUpTicks /\ ~Cancelled(c)
       /\ age[c] >= RetryTicks => tried[c]
  /\ age' = [c \in Calls |-> IF age[c] < Cap THEN age[c] + 1 ELSE Cap]
  /\ tried' = [c \in Calls |-> FALSE]
  /\ UNCHANGED <<holder, main, elector, channels, expired, mine, seen, faults>>

CallStep(c) == Stop(c) \/ Update(c) \/ UpdateEnds(c) \/ Return(c)
ElectorStep(c) ==
  \/ Observe(c) \/ Acquire(c) \/ AcquireStops(c)
  \/ Renew(c) \/ StopLeading(c) \/ Release(c)

Next ==
  \/ \E c \in Calls :
       \/ Call(c) \/ CallStep(c) \/ ElectorStep(c) \/ OnStartedLeading(c)
       \/ ContextDone(c) \/ RenewFails(c) \/ Crash(c)
  \/ Tick

Spec == Init /\ [][Next]_vars

\* Goroutines that can run do, an update ends (module IPAM, CallsReturn), and
\* time passes.
FairSpec ==
  /\ Spec /\ WF_vars(Tick)
  /\ \A c \in Calls : /\ WF_vars(CallStep(c)) /\ WF_vars(ElectorStep(c))
                       /\ WF_vars(OnStartedLeading(c))
-----------------------------------------------------------------------------
(* Properties                                                              *)

\* Type invariant of the lease, the goroutines and the channels.
TypeOK ==
  /\ holder \in Identities \cup {None}
  /\ main \in [Calls -> {"idle", "wait", "update", "stopped", "returned"}]
  /\ elector \in [Calls -> {"off", "acquire", "lead", "release", "done"}]
  /\ leader \in [Calls -> {"open", "closing", "closed"}]
  /\ deposed \in [Calls -> BOOLEAN] /\ stop \in [Calls -> BOOLEAN]
  /\ expired \in [Calls -> BOOLEAN] /\ mine \in [Calls -> BOOLEAN]
  /\ seen \in [Calls -> BOOLEAN] /\ tried \in [Calls -> BOOLEAN]
  /\ age \in [Calls -> 0..Cap]
  /\ faults \in [lost : 0..MaxFaults, crashes : 0..MaxFaults, expired : 0..MaxFaults]

\* No two calls of one pod have been made: identities are those of calls.
Apart ==
  \A c, d \in Calls :
    main[c] # "idle" /\ main[d] # "idle" /\ Pod[c] = Pod[d] => c = d

\* The lease serialises the updates of the calls: IPManagement of two pods
\* never runs IPManagementKubernetesUpdate at the same time, though a call is
\* killed or times out while another waits, unless a renewal was lost, a
\* deadline passed during one of the updates, or two calls used one identity.
Serialised ==
  faults.lost = 0 /\ Apart =>
    \A c, d \in Calls :
      (main[c] = "update" /\ ~expired[c] /\ main[d] = "update" /\ ~expired[d]) => c = d

\* A lease that is held has an elector that will release it, as long as no
\* process was killed and no request lost: IPManagement stops and awaits the
\* elector on every path.
NoAbandonedLease ==
  holder # None /\ faults.lost = 0 /\ faults.crashes = 0 =>
    \E c \in Calls : Pod[c] = holder /\ elector[c] \in {"lead", "release"}

\* Every call of IPManagement returns: the goroutines never wait for each other
\* for ever, and whoever waits gets the lease in turn, also after a holder was
\* killed, without help from the deadline.
CallsReturn == \A c \in Calls : main[c] = "wait" ~> main[c] = "returned"
=============================================================================
