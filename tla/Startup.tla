------------------------------ MODULE Startup ------------------------------
(***************************************************************************)
(* The processes of a deployment side by side: the operator's replicas     *)
(* that start (Operator), the webhooks they serve (Admission) and the      *)
(* installer on a node (Installer).  They share no state, so a behaviour   *)
(* runs one of them (part) while the others stay as they are at the start. *)
(***************************************************************************)
EXTENDS Operator

CONSTANTS Environments, Versions, Partial, Full
CONSTANTS
  Width4, Width6, MaxNodeSliceSubnets, MaxPrefix, Pods, Empty, NoSlash, Keys, BadKey, PoolRange,
  NADs, UserPools, UserSlicePools, UserReservations, MaxEdits, MaxOutages

VARIABLES part
VARIABLES env, sa, see, disk, confDir, tmp, proc, faults
VARIABLES pods, nad, ippool, slicepool, reservation, serving, edits, outages

I == INSTANCE Installer
A == INSTANCE Admission

\* Half a file differs from every file, and no file from all of them.
ASSUME FileAssumption ==
  /\ Partial \notin {None, Full} \cup I!Credentials
  /\ None \notin {Full, "new", "durable"} \cup I!Credentials
  /\ 1 \in Versions

\* Pods have names, offsets are keys and the network's range parses.  What a
\* user writes has the fields of its kind, and a NAD with a slice size asks for
\* at least /1.
ASSUME AdmissionAssumption ==
  /\ Pods \cap {Empty, NoSlash, Blank} = {} /\ BadKey \notin Keys /\ PoolRange \notin {Empty, Bad}
  /\ \A p \in UserPools : {"range", "allocations"} \subseteq DOMAIN p
  /\ \A n \in NADs : /\ n.range # Empty /\ n.size # Empty
                     /\ n.range # Bad => n.range.bits \in Nat
                     /\ n.size # Bad => n.size \in Nat /\ n.size >= 1
  /\ {Width4, Width6, MaxPrefix} \subseteq Nat /\ Width4 <= MaxPrefix /\ Width6 <= MaxPrefix
-----------------------------------------------------------------------------
installer == <<env, sa, see, disk, confDir, tmp, proc, faults>>
webhooks == <<pods, nad, ippool, slicepool, reservation, serving, edits, outages>>

StartupInit == part \in {"operator", "installer", "webhooks"} /\ OperatorInit /\ I!Init /\ A!Init

StartupNext ==
  /\ UNCHANGED part
  /\ \/ part = "operator" /\ OperatorNext /\ UNCHANGED <<installer, webhooks>>
     \/ part = "installer" /\ I!Next /\ UNCHANGED <<operatorVars, webhooks>>
     \/ part = "webhooks" /\ A!Next /\ UNCHANGED <<operatorVars, installer>>

StartupSpec == StartupInit /\ [][StartupNext]_<<part, operatorVars, installer, webhooks>>
-----------------------------------------------------------------------------
(* The fairness of the parts.                                              *)

\* A replica that can go on does, the kubelet syncs its volumes, and someone
\* takes a free lease; the chart is applied as a whole; certificates expire and processes crash at will, within
\* the bounds.
FairOperator ==
  \A r \in Replicas : /\ WF_operatorVars(part = "operator" /\ Step(r))
                      /\ WF_operatorVars(part = "operator" /\ Mount(r))
                      /\ WF_operatorVars(part = "operator" /\ Lead(r))
                      /\ WF_operatorVars(part = "operator" /\ Configure)

\* The installer runs, its ticker fires, missing files come back.
FairInstaller ==
  /\ WF_installer(part = "installer" /\ I!Step /\ UNCHANGED env)
  /\ WF_installer(part = "installer" /\ I!Readable /\ UNCHANGED env)

\* The reconcilers run again and again: every reconcileInterval, and for the
\* NADs with every resync of the informers.
FairWebhooks ==
  /\ WF_webhooks(part = "webhooks" /\ A!ReconcilePool)
  /\ WF_webhooks(part = "webhooks" /\ A!ReconcileReservation)
  /\ WF_webhooks(part = "webhooks" /\ A!ReconcileSlices)
  /\ WF_webhooks(part = "webhooks" /\ A!Served)
-----------------------------------------------------------------------------
(* The properties of the parts.                                            *)

\* At every moment and after any loss of power, no file is half written and, on
\* a journalled file system, the binary has its configuration (Installer).
InstalledComplete == I!InstalledComplete

\* Without an outage, what is stored past the webhooks they would admit
\* (Admission).
StoredIsAdmissible == A!StoredIsAdmissible

\* Every part recovers from races, crashes, failed calls and outages: the
\* replicas end up ready with one certificate (SetupWhenReady, Enable), the
\* kubeconfig holds the current credentials (maybeRegenerate), and what was
\* written while the webhooks were down is repaired (the reconcilers).
PartsSettle ==
  <>[](/\ part = "operator" => Settled
       /\ part = "installer" => I!KubeconfigCurrent
       /\ part = "webhooks" => A!Repaired)
=============================================================================
