------------------------------ MODULE MCPlugin ------------------------------
(***************************************************************************)
(* Instances of Plugin, Names and Ranges for TLC: the commands of the      *)
(* plugin, the names of reservations, and the slices and the status of     *)
(* pools.  They share no state, so a behaviour runs one of them (part)     *)
(* while the others stay as they are at the start.                         *)
(***************************************************************************)
EXTENDS Plugin, TLC

CONSTANTS s1, s2, p1, p2, lan, None, Nil
CONSTANTS Width4, Width6, MaxInt32, MaxNodeSliceSubnets, MaxEntries

VARIABLES part
VARIABLES orips, entries, asked
VARIABLES conf, slices, allocations, reservations
-----------------------------------------------------------------------------
(* IPv4 addresses 0 .. 7, IPv6 8 .. 15.                                    *)

Net(first, last) == [first |-> first, last |-> last]
V4 == Net(0, 3)
V6 == Net(8, 11)
CIDR(net) == [net |-> net, host |-> net.first, from |-> Zero, text |-> TRUE]
Span(net, from, to) == [net |-> net, host |-> to, from |-> from, text |-> TRUE]
Omit(first, last) == [first |-> first, last |-> last, plain |-> FALSE]
Range(spec, l3, exclude, pick) ==
  [range |-> spec, start |-> Zero, end |-> Zero, exclude |-> exclude, pick |-> pick, l3 |-> l3]
Static(ip, net, gateway) == [ip |-> ip, net |-> net, gateway |-> gateway]

Only(fields) == [f \in Fields |-> IF f \in DOMAIN fields THEN fields[f] ELSE Absent]
Base == [type |-> "whereabouts", range |-> CIDR(V4)]

NoArgs == [ip |-> <<>>, gateway |-> <<>>]
SetArgs == [ip |-> <<Static(5, Net(4, 7), Zero)>>, gateway |-> <<4, 12>>]

\* The gateway is the first address a pod would get.
Gateway    == Only(Base @@ [gateway |-> 1, exclude_gateway |-> TRUE])
DualStack  == Only(Base @@ [gateway |-> 1, ipRanges |-> <<Range(CIDR(V6), FALSE, <<Omit(9, 9)>>, Zero)>>,
                            addresses |-> <<Static(3, V4, Zero)>>, exclude_gateway |-> FALSE])
Routed     == Only(("range" :> Span(V4, 1, 2)) @@ Base @@ [enable_l3 |-> TRUE, gateway |-> 10,
                            addresses |-> <<Static(0, V4, 2)>>, enable_overlapping_ranges |-> FALSE])
Inside     == Only(Base @@ [addresses |-> <<Static(2, V4, Zero)>>, optimistic_ipam |-> TRUE])
Picked     == Only(Base @@ [pick_addresses |-> <<2, 0>>, gateway |-> 2, kubeconfig |-> "k"])
Refused    == Only(Base @@ [exclude |-> <<Bad>>, kubeconfig |-> "k"])

\* The one address of a range, and the same address given statically.
Single     == Only(("range" :> Span(V4, 1, 1)) @@ Base)
Fixed      == Only([type |-> "whereabouts", addresses |-> <<Static(1, V4, Zero)>>])

\* Two ranges in one pool, the second without the first address.
Twice      == Only(Base @@ [ipRanges |-> <<Range(CIDR(V4), FALSE, <<Omit(1, 1)>>, Zero)>>])

Kube   == Only([kubeconfig |-> "k"])
Blue   == Only([kubeconfig |-> "k", network_name |-> "blue", exclude_gateway |-> TRUE,
                enable_overlapping_ranges |-> FALSE])

\* Commands of two sandboxes while files are edited and entries are lost.
Edited == [Networks |-> {Gateway, DualStack, Routed, Picked},
           FlatFiles |-> {<<Absent, Kube>>, <<Blue, Kube>>},
           Args |-> {NoArgs}, CNIVersions |-> {"1.0.0"}, sandboxes |-> {s1, s2},
           edits |-> 1, losses |-> 1]
\* Static addresses, configurations and flat files that do not load.
Statics == [Edited EXCEPT !.Networks = {Inside, Refused, DualStack, Routed},
                          !.FlatFiles = {<<Absent, Kube>>, <<Bad, Kube>>, <<Absent, Absent>>},
                          !.Args = {NoArgs, SetArgs}, !.CNIVersions = {"0.2.0", "1.0.0"},
                          !.edits = 0, !.losses = 0]
\* Sandboxes that fill the range.
Filled == [Edited EXCEPT !.sandboxes = Sandboxes, !.edits = 0, !.losses = 0]

\* A dynamic address that becomes a static one, and ranges that share a pool.
Moved == [Edited EXCEPT !.Networks = {Single, Fixed, Twice}, !.FlatFiles = {<<Absent, Kube>>}]

Occasions == [edited |-> Edited, statics |-> Statics, filled |-> Filled, moved |-> Moved]
-----------------------------------------------------------------------------
(* Names: addresses of both families, networks whose names end in words    *)
(* and in numbers, a pod with a UID and one without.                       *)

IPv6(a, b, c, d, e, f, g, h) == <<a, b, c, d, e, f, g, h>>

Loopback  == IPv6(0, 0, 0, 0, 0, 0, 0, 1)                         \* ::1
First     == IPv6(1, 0, 0, 0, 0, 0, 0, 0)                         \* 1::
Local     == IPv6(64768, 0, 0, 0, 0, 0, 0, 5)                     \* fd00::5
Doc       == IPv6(8193, 3512, 0, 0, 0, 1, 0, 16)                  \* 2001:db8::1:0:10
Mixed     == IPv6(8193, 3512, 10, 11, 0, 0, 0, 16)                \* 2001:db8:a:b::10
Prefixed  == IPv6(1, 64768, 0, 0, 0, 0, 0, 5)                     \* 1:fd00::5
Host      == <<10, 0, 0, 5>>
Broadcast == <<192, 168, 1, 255>>

Name(w) == [kind |-> "word", v |-> w, pad |-> FALSE, ip |-> <<>>]
Digit(n) == [kind |-> "hex", v |-> n, pad |-> FALSE, ip |-> <<>>]

\* Old reservations: of names that stand for two addresses, and of others.
Olds == ({Loopback, First, Local, Doc} \X {<<>>, <<Name(lan)>>})
          \cup {<<Local, <<Name(lan), Digit(1)>>>>, <<Prefixed, <<Name(lan)>>>>}
          \cup ({Host} \X {<<>>, <<Name(lan), Digit(1)>>})

N == INSTANCE Names WITH
       Addresses <- {Loopback, First, Local, Doc, Mixed, Prefixed, Host, Broadcast},
       Networks <- {<<>>, <<Name(lan)>>, <<Name(lan), Digit(1)>>},
       Pods <- {p1, p2}, UID <- [p \in {p1, p2} |-> IF p = p2 THEN None ELSE p], Legacy <- Olds,
       MaxReservations <- 2
-----------------------------------------------------------------------------
(* Ranges: IPv4 with 16 addresses and IPv6 with 32; at most four slices,   *)
(* and counts clamped at 9.                                                *)

Block(v6, addr, bits) == [v6 |-> v6, addr |-> addr, bits |-> bits]
Divided(cidr, size) == [cidr |-> cidr, size |-> size]

\* Divided into slices of 8, 4, 2 and one address, into one slice, into too
\* many, with bits past the prefix, with a size outside the range.
AllRanges ==
  {Divided(Block(FALSE, addr, bits), size) : addr \in {0, 5}, bits \in 0 .. 4, size \in 0 .. 5}
    \cup {Divided(Block(TRUE, addr, bits), size) : addr \in {0, 16}, bits \in {0, 1, 3}, size \in {1, 2, 3, 5}}
    \cup {Divided(Bad, 2), Divided(Block(FALSE, 0, 1), Bad)}

\* L3 mode of the network and of the pool; pools only get it by hand.
L3Modes == {<<FALSE, FALSE>>, <<TRUE, FALSE>>, <<TRUE, TRUE>>}
Mode(l3, e, o) == [L3 |-> l3, EnableL3 |-> e, overlapping |-> o, RangeStart |-> Nil, RangeEnd |-> Nil,
                   OmitRanges |-> <<>>]
Bounded(m) == [m EXCEPT !.RangeStart = 2, !.RangeEnd = 13, !.OmitRanges = <<Net(3, 3), Net(16, 17)>>]

R == INSTANCE Ranges WITH
       Configured <- AllRanges,
       Modes <- {Mode(l3, e, o) : <<l3, e>> \in L3Modes, o \in BOOLEAN}
                  \cup {Bounded(Mode(l3, e, FALSE)) : <<l3, e>> \in L3Modes},
       serviceCIDRs <- <<Block(TRUE, 0, 2), Block(FALSE, 6, 2), Block(FALSE, 10, 4)>>,
       Others <- {[v6 |-> FALSE, ip |-> 1], [v6 |-> TRUE, ip |-> 17]},
       ReadAs <- (17 :> 2)
-----------------------------------------------------------------------------
commands == <<env, pluginVars>>
names == <<orips, entries, asked>>
ranges == <<conf, slices, allocations, reservations>>

\* A part that does not run is in one of its initial states.
InitParts ==
  /\ part \in {"commands", "names", "ranges"}
  /\ PluginInit /\ (part # "commands" => env = "statics" /\ raw = Inside /\ flat = <<Absent, Kube>>)
  /\ IF part = "names" THEN N!Init ELSE orips = {} /\ entries = {} /\ asked = {}
  /\ IF part = "ranges" THEN R!Init
     ELSE conf = Nil /\ slices = <<>> /\ allocations = <<>> /\ reservations = {}

NextParts ==
  /\ UNCHANGED part
  /\ \/ part = "commands" /\ PluginNext /\ UNCHANGED <<names, ranges>>
     \/ part = "names" /\ N!Next /\ UNCHANGED <<commands, ranges>>
     \/ part = "ranges" /\ R!Next /\ UNCHANGED <<commands, names>>

SpecParts == InitParts /\ [][NextParts]_<<part, commands, names, ranges>>

\* The properties of the parts; of those of Names, one evaluation is costly.
LookupExact == part = "names" => N!LookupExact
NothingLeft == part = "names" => N!NothingLeft
SlicesPartition == R!SlicesPartition
StatusExact == R!StatusExact
=============================================================================
