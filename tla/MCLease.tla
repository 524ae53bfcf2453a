------------------------------ MODULE MCLease ------------------------------
(***************************************************************************)
(* An instance of Lease for TLC: calls of several pods, two of one pod.    *)
(***************************************************************************)
EXTENDS Lease, TLC

\* A repeated ADD, or a DEL beside an ADD of the same pod.
CONSTANTS c1, c2
SharedPod == [c \in Calls |-> IF c = c2 THEN c1 ELSE c]
=============================================================================
