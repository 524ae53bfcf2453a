------------------------------ MODULE Prefixes ------------------------------
(***************************************************************************)
(* CIDRs, and how a range is divided into slices and compared with others  *)
(* (pkg/iphelpers on net/netip and netutil).                               *)
(*                                                                         *)
(* A CIDR is [v6, addr, bits] with addresses of Width4 or Width6 bits; the *)
(* address may have bits set past the prefix.  Bad does not parse.         *)
(***************************************************************************)
EXTENDS Integers, Sequences

CONSTANTS Width4, Width6,   \* 32 and 128
          Bad
-----------------------------------------------------------------------------
(* Prefixes (net/netip, net.ParseCIDR, netutil.Subdivide).                 *)

Width(p) == IF p.v6 THEN Width6 ELSE Width4

Size(p) == 2 ^ (Width(p) - p.bits)

Masked(p) == [p EXCEPT !.addr = @ - (@ % Size(p))]

Interval(p) == [first |-> Masked(p).addr, last |-> Masked(p).addr + Size(p) - 1]

Addresses(p) == Interval(p).first .. Interval(p).last

Subdivide(p, bits) ==
  [k \in 1 .. 2 ^ (bits - p.bits) |->
     [v6 |-> p.v6, addr |-> p.addr + (k - 1) * 2 ^ (Width(p) - bits), bits |-> bits]]
-----------------------------------------------------------------------------
(* iphelpers                                                               *)

\* Mutant: what exceeds the limit is cut off.
DivideTruncated(p, size, max) ==
  IF p = Bad \/ size = Bad THEN <<>>
  ELSE IF p # Masked(p) \/ p.bits > size \/ size > Width(p) THEN <<>>
  ELSE IF 2 ^ (size - p.bits) > max THEN SubSeq(Subdivide(p, size), 1, max) ELSE Subdivide(p, size)

\* <<>> stands for every error.
divideRangeBySize(p, size, max) ==
  IF p = Bad \/ size = Bad THEN <<>>
  ELSE IF \/ p # Masked(p)
          \/ p.bits > size
          \/ size > Width(p)
          \/ max > 0 /\ 2 ^ (size - p.bits) > max THEN <<>>
  ELSE Subdivide(p, size)

\* Mutant: the first address of one is in the other.
FirstInside(a, b) == a.v6 = b.v6 /\ Interval(a).first \in Addresses(b)

\* netip.Prefix.Overlaps: the same family, and equal up to the shorter prefix.
CIDRsOverlap(a, b) ==
  /\ a.v6 = b.v6
  /\ LET bits == IF a.bits < b.bits THEN a.bits ELSE b.bits
     IN  Masked([a EXCEPT !.bits = bits]) = Masked([b EXCEPT !.bits = bits])

\* An entry that does not parse ends the search with an error.
CIDROverlapsAny(cidr, others) ==
  \E k \in 1 .. Len(others) :
    /\ \A j \in 1 .. k : others[j] # Bad
    /\ CIDRsOverlap(cidr, others[k])
=============================================================================
