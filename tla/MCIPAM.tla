------------------------------- MODULE MCIPAM -------------------------------
(***************************************************************************)
(* Small instances of IPAM.  a1 and a2 are two sandboxes of the same pod   *)
(* interface where they share a ref; p1 and p2 are two pools, which share  *)
(* the address x1.                                                         *)
(***************************************************************************)
EXTENDS IPAM, FiniteSets, TLC

CONSTANTS a1, a2, a3, r1, r2, r3, u1, u2, u3, p1, p2, x1, x2, x3

\* Two sandboxes of one pod, and another pod, on two ranges; p2 has a single
\* address, so that the second range of an ADD can fail.
TwoSandboxes == (a1 :> r1) @@ (a2 :> r1) @@ (a3 :> r2)
DualRange    == (a1 :> <<p1, p2>>) @@ (a2 :> <<p1>>) @@ (a3 :> <<p2, p1>>)
Exclusive    == (p1 :> <<x1, x2>>) @@ (p2 :> <<x1>>)

\* Three pods; the pools overlap in x1 and x2.
Overlap   == (p1 :> <<x1, x2>>) @@ (p2 :> <<x1, x2>>)
Mixed     == (a1 :> <<p1>>) @@ (a2 :> <<p2>>) @@ (a3 :> <<p1, p2>>)
OneNoUID  == (a1 :> u1) @@ (a2 :> NoUID) @@ (a3 :> u3)
ThreePods == (a1 :> r1) @@ (a2 :> r2) @@ (a3 :> r3)
PrefersX2 == (a1 :> None) @@ (a2 :> x2) @@ (a3 :> None)
OwnUIDs   == (a1 :> u1) @@ (a2 :> u2) @@ (a3 :> u3)

\* One sandbox after another of one pod on p1, another pod on p2.
Apart   == (a1 :> <<p1>>) @@ (a2 :> <<p1>>) @@ (a3 :> <<p2>>)
KeptUID == (a1 :> u1) @@ (a2 :> u1) @@ (a3 :> u3)

\* Two pods on p2 reserve x1 and x2 before a pod on p1 asks; p1 also has x3.
TwoInOne == (a1 :> <<p1>>) @@ (a2 :> <<p2>>) @@ (a3 :> <<p2>>)
Wide     == (p1 :> <<x1, x2, x3>>) @@ (p2 :> <<x1, x2>>)

\* Two pods only.
TwoPods   == (a1 :> r1) @@ (a2 :> r2)
TwoUIDs   == (a1 :> u1) @@ (a2 :> NoUID)
TwoRanges == (a1 :> <<p1, p2>>) @@ (a2 :> <<p2>>)

\* Behaviours in which calls of at most two of the attachments occur, of one
\* pod or of two.
Calling == {a \in Attachments : call[a] # Fresh}

PairNext ==
  \E a \in Attachments :
    \/ AddStart(a) /\ Cardinality(Calling) < 2
    \/ DelStart(a) \/ Step(a) \/ Fault(a)

PairSpec == Init /\ [][PairNext]_vars /\ \A a \in Attachments : WF_vars(Step(a))

NoPreference == [a \in Attachments |-> None]
=============================================================================
