----------------------------- MODULE MCOperator -----------------------------
(***************************************************************************)
(* An instance of Startup for TLC.                                         *)
(***************************************************************************)
EXTENDS Startup, TLC

CONSTANTS Service, a, b
-----------------------------------------------------------------------------
(* Two replicas, with a list of service CIDRs that parses and one that does *)
(* not.  Where the webhooks' configuration comes late no certificate        *)
(* expires.                                                                 *)
SomeFlags == {<<Service, Blank>>, <<Blank, Service, Bad>>}
-----------------------------------------------------------------------------
(* The installer: killed often, with credentials that rotate at any time,  *)
(* or only once it watches them, also on a file system without a journal.  *)
Installing == [SkipTLSVerify |-> FALSE, HasNodeName |-> TRUE, rotateEarly |-> TRUE,
               journalled |-> TRUE, kills |-> 2, errors |-> 1]
Rotating == [Installing EXCEPT !.rotateEarly = FALSE, !.kills = 1, !.errors = 2]
Insecure == [Rotating EXCEPT !.SkipTLSVerify = TRUE, !.HasNodeName = FALSE, !.journalled = FALSE]

SomeEnvironments == {Installing, Rotating, Insecure}
TwoVersions == 1..2
-----------------------------------------------------------------------------
(* Two pods, IPv4 of four bits and IPv6 of five, at most four slices.      *)

CIDR(v6, addr, bits) == [v6 |-> v6, addr |-> addr, bits |-> bits]
Sized(cidr, size) == [range |-> cidr, size |-> size]
Pool(cidr, allocs) == [range |-> cidr, allocations |-> allocs]
Res(podRef, ifName, containerID, podUID) ==
  [podRef |-> podRef, ifName |-> ifName, containerID |-> containerID, podUID |-> podUID]

Range == CIDR(FALSE, 8, 2)

\* Asked for by NADs: slices of several sizes, one slice, too many, one that
\* cannot be divided.
Divisions ==
  {Sized(CIDR(FALSE, 0, 1), 2), Sized(CIDR(FALSE, 8, 2), 2), Sized(CIDR(TRUE, 16, 3), 5),
   Sized(CIDR(FALSE, 0, 1), 4), Sized(CIDR(FALSE, 5, 2), 3), Sized(Bad, 2)}

\* Written by users: well-formed, moved, with keys and podRefs of every kind.
Pools ==
  {Pool(Range, 0 :> a), Pool(Range, 0 :> Empty), Pool(Range, 1 :> NoSlash), Pool(Range, 1 :> Blank),
   Pool(Range, BadKey :> a), Pool(CIDR(FALSE, 0, 2), 0 :> a), Pool(Bad, <<>>)}

SlicePools ==
  {Sized(CIDR(FALSE, 0, 1), 2), Sized(CIDR(FALSE, 0, 1), 0), Sized(CIDR(FALSE, 0, 1), 5),
   Sized(CIDR(FALSE, 0, 2), 3), Sized(CIDR(FALSE, 0, 1), Bad)}

Reservations == {Res(p, 1, 1, u) : p \in {a, NoSlash, Blank, Empty}, u \in {1, 2}}
-----------------------------------------------------------------------------
\* A part that does not run is in one of its initial states.
Choose(x, S) == x = CHOOSE y \in S : TRUE

InitParts ==
  /\ StartupInit
  /\ part # "operator" => Choose(serviceCIDR, Flags) /\ caBundle = None
  /\ expiries = (IF caBundle = NoConfig THEN MaxExpiries ELSE 0) /\ crashes = 0
  /\ part # "installer" => env = Installing
  /\ part # "webhooks" => Choose(nad, Divisions)

SpecParts ==
  /\ InitParts /\ [][StartupNext]_<<part, operatorVars, installer, webhooks>>
  /\ FairOperator /\ FairInstaller /\ FairWebhooks
=============================================================================
