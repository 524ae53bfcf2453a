------------------------------- MODULE Config -------------------------------
(***************************************************************************)
(* How pkg/config turns the "ipam" object of a CNI configuration, the flat *)
(* file whereabouts.conf and CNI_ARGS into the configuration of a call.    *)
(*                                                                         *)
(* A JSON object is a function of the names of its fields; Absent is a     *)
(* field that is not there and Zero one that holds Go's zero value ("",    *)
(* 0, [] or no object).  An address is a number of 0 .. MaxIP, those below *)
(* FirstV6 are IPv4; a CIDR is the interval of its addresses; Bad is text  *)
(* that does not parse.                                                    *)
(***************************************************************************)
EXTENDS Integers, Sequences

CONSTANTS MaxIP, FirstV6, Absent, Zero, Bad, Failed

Bools == {"enable_overlapping_ranges", "exclude_gateway", "optimistic_ipam", "enable_l3"}

Scalars == {"type", "range", "range_start", "range_end", "exclude", "pick_addresses", "ipRanges",
            "gateway", "kubeconfig", "network_name", "node_slice_size", "addresses",
            "leader_lease_duration"}

Fields == Bools \cup Scalars

IsV4(ip) == ip < FirstV6
Contains(cidr, ip) == cidr.first =< ip /\ ip =< cidr.last
Entries(s) == IF s \in {Zero, Absent} THEN <<>> ELSE s
Each(s) == {s[k] : k \in DOMAIN s}
-----------------------------------------------------------------------------
(* IPAMConfig.UnmarshalJSON.  parseOptionalIP and parseIPList refuse       *)
(* addresses that do not parse.                                            *)

DefaultBool(f) == f = "enable_overlapping_ranges"

UnmarshalJSON(raw) ==
  [f \in Fields |-> IF raw[f] = Absent THEN (IF f \in Bools THEN DefaultBool(f) ELSE Zero)
                    ELSE raw[f]]

parseOptionalIP(ip) == ip # Bad
parseIPList(list) == \A ip \in Each(Entries(list)) : ip # Bad

UnmarshalRangeOK(r) ==
  parseIPList(r.pick) /\ parseOptionalIP(r.start) /\ parseOptionalIP(r.end)

UnmarshalOK(raw) ==
  /\ parseIPList(raw["pick_addresses"])
  /\ parseOptionalIP(raw["range_start"]) /\ parseOptionalIP(raw["range_end"])
  /\ \A r \in Each(Entries(raw["ipRanges"])) : UnmarshalRangeOK(r)
-----------------------------------------------------------------------------
(* The flat file: mergo fills the fields that are zero, and the booleans   *)
(* are set again from what either object really says.                      *)

merge(n, flat) ==
  [f \in Fields |-> IF f \in Bools THEN n[f] \/ flat[f] ELSE IF n[f] = Zero THEN flat[f] ELSE n[f]]

\* Mutant: the merged booleans stay.
NoBoolPrecedence(n, raw, rawFlat) == n

applyIPAMBoolPrecedence(n, raw, rawFlat) ==
  [f \in Fields |->
     IF f \notin Bools THEN n[f]
     ELSE IF raw[f] # Absent THEN raw[f]
     ELSE IF rawFlat[f] # Absent THEN rawFlat[f] ELSE n[f]]

NoFields == [f \in Fields |-> Absent]

\* getFlatIPAM: the first file of the list that exists, if any, is used, and
\* must be readable.
getFlatIPAM(files) ==
  LET there == {k \in DOMAIN files : files[k] # Absent}
  IN  IF there = {} THEN NoFields ELSE files[CHOOSE k \in there : \A j \in there : k =< j]

Merged(raw, rawFlat) ==
  LET empty == [f \in Fields |-> IF f \in Bools THEN FALSE ELSE Zero]
  IN  applyIPAMBoolPrecedence(
        merge(UnmarshalJSON(raw), IF rawFlat = NoFields THEN empty ELSE UnmarshalJSON(rawFlat)),
        raw, rawFlat)
-----------------------------------------------------------------------------
(* The ranges.  "a-b/n" is [net, host = b, from = a], "b/n" has no from;   *)
(* text is TRUE if it is written as Go would print it.                     *)

validateFastIPAMConfig(n) ==
  n["node_slice_size"] # Zero => n["range"] # Zero /\ n["ipRanges"] = Zero

TopLevelRange(n) ==
  [range |-> n["range"], start |-> n["range_start"], end |-> n["range_end"],
   exclude |-> n["exclude"], pick |-> n["pick_addresses"], l3 |-> FALSE]

IPRanges(n) ==
  (IF n["range"] = Zero THEN <<>> ELSE <<TopLevelRange(n)>>) \o Entries(n["ipRanges"])

RangeOK(r) ==
  /\ r.range \notin {Bad, Zero}
  /\ r.range.from # Zero => r.range.from # Bad /\ Contains(r.range.net, r.range.from)

\* Without range_start a range starts at its network address.
Normalised(r) ==
  LET span == r.range.from # Zero
  IN  [r EXCEPT !.range = r.range.net,
                !.start = IF span THEN r.range.from ELSE IF @ = Zero THEN r.range.net.first ELSE @,
                !.end   = IF span THEN r.range.host ELSE @,
                !.exclude = Entries(@), !.pick = Entries(@)]

\* A plain address is an exclusion of a range, not of the top level.
ExclusionsOK(n) ==
  /\ \A e \in Each(Entries(n["exclude"])) : e # Bad /\ ~e.plain
  /\ \A r \in Each(IPRanges(n)) : \A e \in Each(Entries(r.exclude)) : e # Bad

\* enable_l3 of the whole, and the gateway's exclusion, reach every range.
WithGatewayKept(n, r) == [r EXCEPT !.l3 = @ \/ n["enable_l3"]]

WithDefaults(n, r) ==
  LET gateway == n["gateway"]
  IN  [r EXCEPT !.l3 = @ \/ n["enable_l3"],
                !.exclude = IF n["exclude_gateway"] /\ gateway # Zero
                            THEN Append(@, [first |-> gateway, last |-> gateway, plain |-> FALSE]) ELSE @]
-----------------------------------------------------------------------------
(* configureStatic and handleEnvArgs: addresses of the configuration, and  *)
(* those of CNI_ARGS with the gateways that lie in their subnets.          *)

GatewayOf(a, gateways) ==
  LET in == {k \in DOMAIN gateways : Contains(a.net, gateways[k])}
  IN  IF in = {} THEN a.gateway ELSE gateways[CHOOSE k \in in : \A j \in in : j =< k]

StaticOK(n, args) ==
  /\ \A a \in Each(Entries(n["addresses"]) \o args.ip) : a # Bad
  /\ \A g \in Each(args.gateway) : g # Bad

handleEnvArgs(n, args) ==
  LET all == Entries(n["addresses"]) \o args.ip
  IN  [k \in DOMAIN all |-> [all[k] EXCEPT !.gateway = GatewayOf(all[k], args.gateway)]]

\* CNI 0.2.0 and before have one address of a family.
FamiliesOK(n, args, cniVersion) ==
  cniVersion = "0.2.0" =>
    \A v4 \in BOOLEAN : LET all == handleEnvArgs(n, args)
                        IN  ~\E j, k \in DOMAIN all : j < k /\ IsV4(all[j].ip) = v4 /\ IsV4(all[k].ip) = v4
-----------------------------------------------------------------------------
\* LoadIPAMConfig: each check ends it with an error; none has a side effect.
Loads(raw, rawFlat, args, cniVersion) ==
  /\ raw # Bad /\ raw["type"] = "whereabouts" /\ UnmarshalOK(raw)
  /\ rawFlat # Bad /\ UnmarshalOK(rawFlat)
  /\ LET n == Merged(raw, rawFlat)
     IN  /\ validateFastIPAMConfig(n)
         /\ \A r \in Each(IPRanges(n)) : RangeOK(r)
         /\ ExclusionsOK(n)
         /\ n["kubeconfig"] # Zero
         /\ n["gateway"] # Bad
         /\ StaticOK(n, args) /\ FamiliesOK(n, args, cniVersion)

DefaultLeaderLeaseDuration == 1500

Loaded(n, args) ==
  LET ranges == IPRanges(n)
  IN  [ranges |-> [k \in DOMAIN ranges |-> WithDefaults(n, Normalised(ranges[k]))],
       addresses |-> handleEnvArgs(n, args),
       gateway |-> n["gateway"],
       network |-> n["network_name"],
       slices |-> n["node_slice_size"] # Zero,
       flags |-> [f \in Bools |-> n[f]],
       lease |-> IF n["leader_lease_duration"] = Zero THEN DefaultLeaderLeaseDuration
                 ELSE n["leader_lease_duration"]]

LoadIPAMConfig(raw, rawFlat, args, cniVersion) ==
  IF Loads(raw, rawFlat, args, cniVersion) THEN Loaded(Merged(raw, rawFlat), args) ELSE Failed
=============================================================================
