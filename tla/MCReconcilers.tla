--------------------------- MODULE MCReconcilers ---------------------------
(***************************************************************************)
(* Instances of Reconcilers for TLC.                                       *)
(***************************************************************************)
EXTENDS Reconcilers, TLC

PodNames == Permutations(Pods)

\* One pod, one sandbox, one address, the flags of the deployment, no faults;
\* pods that run until they are deleted.
Plain ==
  [CleanupTerminating |-> FALSE, CleanupDisrupted |-> TRUE, VerifyNetworkStatus |-> FALSE,
   ServiceCIDRs |-> {}, Phases |-> {"Running"}, Evictions |-> {}, Legacy |-> FALSE,
   PoolDeletion |-> FALSE, Active |-> {"pool"}, pods |-> 1, sandboxes |-> 1, keys |-> 1,
   restarts |-> 0, faults |-> 0]

\* Pods whose names and addresses come back, beside one of the reconcilers; the
\* IPPool reconciler meets pods that are deleted before they run.
Reused == [Plain EXCEPT !.pods = 2, !.sandboxes = 2]
Races == {[Reused EXCEPT !.Phases = {}], [Reused EXCEPT !.Active = {"orip"}, !.faults = 1]}
Rivals == {[Reused EXCEPT !.pods = 3, !.sandboxes = 3]}

\* Pods that complete or are evicted, and a failed request.
Ending == [Plain EXCEPT !.VerifyNetworkStatus = TRUE, !.faults = 1]
\* A pod that is lost with its node, beside the reservation reconciler.
Lost == [Ending EXCEPT !.Phases = {"Running", "NodeLost"}, !.Active = {"orip"}]
\* A pool that is deleted before its finalizer is set.
Deleted == [Plain EXCEPT !.PoolDeletion = TRUE, !.faults = 1]
\* Pods that terminate and come back, beside the reservation reconciler.
Recreated == [Plain EXCEPT !.CleanupTerminating = TRUE, !.Evictions = {"terminating"},
                           !.pods = 2, !.sandboxes = 2, !.Active = {"orip"}]
\* Objects of an earlier version and a changed service CIDR.
Upgraded == [Plain EXCEPT !.ServiceCIDRs = {"svc"}, !.Legacy = TRUE, !.sandboxes = 0,
                          !.restarts = 1, !.Active = {"pool", "orip"}]

Cleanups ==
  {[Ending EXCEPT !.Phases = {"Running", "Completed"}],
   [Ending EXCEPT !.Evictions = {"disrupted"}, !.faults = 0],
   Lost, Deleted, Recreated, Upgraded}
=============================================================================
