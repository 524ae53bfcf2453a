------------------------------- MODULE Plugin -------------------------------
(***************************************************************************)
(* The commands of the CNI plugin (cmd/whereabouts), each of which loads    *)
(* its configuration anew: ADD allocates an address in every range and     *)
(* adds the static ones, CHECK compares the pools with the result of ADD,  *)
(* DEL releases.  Between the commands of a sandbox the configuration and  *)
(* the flat file may be edited, and entries may be lost to the             *)
(* reconciler.  How ADD and DEL interleave on a pool is in IPAM and how an *)
(* address is chosen in Allocate: here ADD takes any address Allocate      *)
(* could return.                                                           *)
(***************************************************************************)
EXTENDS Config, FiniteSets

CONSTANTS
  Sandboxes,          \* container IDs; each is a pod of its own
  Environments        \* what occurs in a behaviour, by name

VARIABLES
  env,                \* the name of what occurs; constant
  raw, flat,          \* the configuration of the network and the flat file
  pools,              \* [network, net] -> entries [ip, id]
  sandbox,            \* what ADD returned to each sandbox, and whether it still should hold
  check,              \* the CHECK that is running
  edits, losses

\* Networks, the configurations of the network; FlatFiles, at the places where
\* a flat file is looked for; Args, the CNI_ARGS; CNIVersions; the sandboxes;
\* and bounds on edits and on losses of entries.
Env == Environments[env]

\* A field that holds a list holds a list, and a range has the fields of one.
IsList(s) == s \in Seq(Each(s))

WellTyped(json) ==
  json # Bad =>
    /\ IsList(Entries(json["exclude"])) /\ IsList(Entries(json["ipRanges"]))
    /\ \A r \in Each(Entries(json["ipRanges"])) :
         /\ r = [range |-> r.range, start |-> r.start, end |-> r.end, exclude |-> r.exclude,
                 pick |-> r.pick, l3 |-> r.l3]
         /\ IsList(Entries(r.exclude))

ASSUME ConfigurationAssumption ==
  \A e \in DOMAIN Environments :
    /\ Environments[e].sandboxes \subseteq Sandboxes
    /\ \A network \in Environments[e].Networks : WellTyped(network)
    /\ \A files \in Environments[e].FlatFiles : WellTyped(getFlatIPAM(files))

ASSUME ZeroAssumption == Zero \notin 0 .. MaxIP

pluginVars == <<raw, flat, pools, sandbox, check, edits, losses>>

Alloc(p) == INSTANCE Allocate WITH pool <- p, Nil <- Zero, Unparsed <- Bad, CIDRs <- {}, Confs <- {},
              Pools <- {}, allocations <- {}, conf <- 0, pc <- 0, ip <- 0, pos <- 0, result <- 0
-----------------------------------------------------------------------------
\* EffectivePoolIdentifier without node slices.
PoolIdentifier(conf, r) == [network |-> conf.network, net |-> r.range]

ConfigOf(s) == LoadIPAMConfig(raw, getFlatIPAM(flat), sandbox[s].args, sandbox[s].version)

Pool(id) == IF id \in DOMAIN pools THEN pools[id] ELSE {}

\* gatewayForAddress: no gateway of another family.
gatewayForAddress(ip, gateway) ==
  IF gateway = Zero THEN Zero ELSE IF IsV4(ip) = IsV4(gateway) THEN gateway ELSE Zero

\* Mutant: the gateway whatever its family.
AnyGateway(ip, gateway) == gateway

gatewayForExpectedAllocation(ip, gateway) ==
  IF gateway = Zero THEN Zero ELSE IF IsV4(ip) # IsV4(gateway) THEN Zero ELSE gateway

\* resultKey: address, subnet, gateway.
Key(ip, net, gateway) == [ip |-> ip, net |-> net, gateway |-> gateway]
-----------------------------------------------------------------------------
(* Fast IPAM.  The operator reads the network's configuration by itself.   *)

nodeSlicePoolName(nad) ==
  IF nad["network_name"] \notin {Absent, Zero} THEN [network |-> nad["network_name"]]
  ELSE [net |-> nad["range"].net, text |-> nad["range"].text]

getNodeSliceName(conf) ==
  IF conf.network # Zero THEN [network |-> conf.network]
  ELSE [net |-> conf.ranges[1].range, text |-> TRUE]
-----------------------------------------------------------------------------
(* ADD                                                                     *)

effectiveManagedRange(r) ==
  IF ~r.l3 THEN Alloc(r.range)!GetIPRange(r.range, r.start, r.end)
  ELSE LET first == IF r.start # Zero /\ Contains(r.range, r.start) THEN r.start ELSE r.range.first
       IN  [first |-> first,
            last  |-> IF r.end # Zero /\ Contains(r.range, r.end) /\ r.end >= first
                      THEN r.end ELSE r.range.last]

\* Mutant: the whole subnet counts as managed only if it is in L3 mode.
StaticInSubnetOnly(ip, r) == r.l3 /\ Contains(r.range, ip)

staticAddressInManagedRange(ip, r) ==
  LET m == effectiveManagedRange(r) IN Contains(r.range, ip) /\ m.first =< ip /\ ip =< m.last

validateStaticAddresses(conf) ==
  \A a \in Each(conf.addresses), r \in Each(conf.ranges) : ~staticAddressInManagedRange(a.ip, r)

\* What AssignIP may return: an address in bounds, not excluded, on the list.
AllocateConf(r) ==
  [RangeStart |-> r.start, RangeEnd |-> r.end, L3 |-> r.l3, OmitRanges |-> r.exclude,
   PickAddresses |-> r.pick, PreferredIP |-> Zero]

Choices(conf, r) ==
  {x \in r.range.first .. r.range.last :
     /\ Alloc(r.range)!IsIPInRange(x, Alloc(r.range)!effectiveIPRange(AllocateConf(r)).first,
                                      Alloc(r.range)!effectiveIPRange(AllocateConf(r)).last)
     /\ ~Alloc(r.range)!ipExcluded(AllocateConf(r), x)
     /\ Alloc(r.range)!pickAddressAllowed(AllocateConf(r), x)
     /\ \A e \in Pool(PoolIdentifier(conf, r)) : e.ip # x}

\* The first range that is in the pool of range k.
Leads(conf, j, k) ==
  LET sharing == {i \in DOMAIN conf.ranges : conf.ranges[i].range = conf.ranges[k].range}
  IN  j \in sharing /\ \A i \in sharing : j =< i

\* One address for every range.  AssignIP gives an interface that has an entry
\* in the pool that address again, whatever the bounds of the other range.
Allocations(conf) ==
  LET choices == [j \in DOMAIN conf.ranges |-> Choices(conf, conf.ranges[j])]
  IN  {f \in [DOMAIN conf.ranges -> 0 .. MaxIP] :
         \A k \in DOMAIN f : \E j \in DOMAIN f :
           f[k] = f[j] /\ f[j] \in choices[j] /\ Leads(conf, j, k)}

StaticResult(conf) == {Key(a.ip, a.net, a.gateway) : a \in Each(conf.addresses)}

Result(conf, f) ==
  {Key(f[k], conf.ranges[k].range, gatewayForAddress(f[k], conf.gateway)) : k \in DOMAIN f}
    \cup StaticResult(conf)

WithEntries(conf, f, s) ==
  [id \in DOMAIN pools \cup {PoolIdentifier(conf, r) : r \in Each(conf.ranges)} |->
     Pool(id) \cup {[ip |-> f[k], id |-> s] :
                      k \in {j \in DOMAIN f : PoolIdentifier(conf, conf.ranges[j]) = id}}]

\* cmdAddFunc; an ADD that fails leaves no entry (IPAM), and the runtime gives
\* the sandbox up.  A pool it made and left empty is like none.
cmdAdd(s, args, version) ==
  LET conf == LoadIPAMConfig(raw, getFlatIPAM(flat), args, version)
  IN  /\ sandbox[s].state = "new"
      /\ IF conf = Failed \/ ~validateStaticAddresses(conf)
         THEN sandbox' = [sandbox EXCEPT ![s].state = "gone"] /\ UNCHANGED pools
         ELSE \/ \E f \in Allocations(conf) :
                   /\ Result(conf, f) # {}
                   /\ sandbox' = [sandbox EXCEPT ![s] =
                        [state |-> "up", args |-> args, version |-> version,
                         result |-> Result(conf, f), dynamic |-> {f[k] : k \in DOMAIN f},
                         conf |-> conf, same |-> TRUE]]
                   /\ pools' = WithEntries(conf, f, s)
              \/ /\ Allocations(conf) = {} \/ (conf.ranges = <<>> /\ conf.addresses = <<>>)
                 /\ sandbox' = [sandbox EXCEPT ![s].state = "gone"] /\ UNCHANGED pools
  /\ UNCHANGED <<raw, flat, check, edits, losses>>
-----------------------------------------------------------------------------
(* CHECK: one step per range.  Runtimes before CNI 0.4.0 have none, others *)
(* may leave the previous result out.                                      *)

Idle == [pc |-> "idle"]

\* The addresses of the result that are not in a pool any more.
Lost(s) == {x \in sandbox[s].dynamic : \A id \in DOMAIN pools : [ip |-> x, id |-> s] \notin pools[id]}

\* The result that ADD printed, if the runtime passes it.
ParsePrevResult(s, given) == IF given THEN sandbox[s].result ELSE Absent

StartCheck(s, given) ==
  /\ check.pc = "idle" /\ sandbox[s].state = "up"
  /\ check' = [pc |-> IF ConfigOf(s) = Failed THEN "failed" ELSE "ranges", s |-> s, k |-> 1,
               expected |-> {}, prev |-> ParsePrevResult(s, given), conf |-> ConfigOf(s), lost |-> Lost(s)]
  /\ UNCHANGED <<raw, flat, pools, sandbox, edits, losses>>

Own(s, id) == {e \in Pool(id) : e.id = s}

CheckRange ==
  LET r == check.conf.ranges[check.k]
      id == PoolIdentifier(check.conf, r)
  IN  /\ check.pc = "ranges" /\ check.k =< Len(check.conf.ranges)
      /\ check' = IF id \notin DOMAIN pools \/ Own(check.s, id) = {} THEN [check EXCEPT !.pc = "failed"]
                  ELSE [check EXCEPT !.k = @ + 1, !.expected = @ \cup
                         {Key(e.ip, id.net, gatewayForExpectedAllocation(e.ip, check.conf.gateway)) :
                            e \in Own(check.s, id)}]
      /\ UNCHANGED <<raw, flat, pools, sandbox, edits, losses>>

\* The request for the pool, or for the node's slice, fails.
CheckUnread ==
  /\ check.pc = "ranges" /\ check.k =< Len(check.conf.ranges)
  /\ check' = [check EXCEPT !.pc = "unread"]
  /\ UNCHANGED <<raw, flat, pools, sandbox, edits, losses>>

\* Mutant: only what is expected is looked for.
CompareOneWay ==
  LET expected == check.expected \cup StaticResult(check.conf)
  IN  /\ check.pc = "ranges" /\ check.k > Len(check.conf.ranges)
      /\ check' = [check EXCEPT !.pc = IF check.prev # Absent /\ ~(expected \subseteq check.prev)
                                       THEN "failed" ELSE "passed"]
      /\ UNCHANGED <<raw, flat, pools, sandbox, edits, losses>>

\* Both ways: nothing in the previous result that is not expected, nothing
\* expected that is not in it.
CompareResult ==
  LET expected == check.expected \cup StaticResult(check.conf)
  IN  /\ check.pc = "ranges" /\ check.k > Len(check.conf.ranges)
      /\ check' = [check EXCEPT !.pc = IF check.prev # Absent /\ check.prev # expected
                                       THEN "failed" ELSE "passed"]
      /\ UNCHANGED <<raw, flat, pools, sandbox, edits, losses>>

EndCheck ==
  /\ check.pc \in {"failed", "passed", "unread"} /\ check' = Idle
  /\ UNCHANGED <<raw, flat, pools, sandbox, edits, losses>>
-----------------------------------------------------------------------------
(* DEL: without a configuration it does nothing and succeeds.              *)

DelRanges(conf) == IF conf = Failed THEN {} ELSE {PoolIdentifier(conf, r) : r \in Each(conf.ranges)}

cmdDel(s) ==
  /\ sandbox[s].state = "up" /\ check.pc = "idle"
  /\ pools' = [id \in DOMAIN pools |-> IF id \in DelRanges(ConfigOf(s)) THEN pools[id] \ Own(s, id) ELSE pools[id]]
  /\ sandbox' = [sandbox EXCEPT ![s].state = "gone"]
  /\ UNCHANGED <<raw, flat, check, edits, losses>>
-----------------------------------------------------------------------------
(* Others.                                                                 *)

Touched == [s \in Sandboxes |-> IF sandbox[s].state = "up" THEN [sandbox[s] EXCEPT !.same = FALSE] ELSE sandbox[s]]

Edit ==
  /\ edits < Env.edits /\ edits' = edits + 1
  /\ \/ raw' \in Env.Networks \ {raw} /\ UNCHANGED flat
     \/ flat' \in Env.FlatFiles \ {flat} /\ UNCHANGED raw
  /\ sandbox' = Touched
  /\ UNCHANGED <<pools, check, losses>>

\* The reconciler takes an entry away (Reconcilers).
Lose(s) ==
  /\ losses < Env.losses /\ losses' = losses + 1 /\ sandbox[s].state = "up"
  /\ \E id \in DOMAIN pools : \E e \in Own(s, id) : pools' = [pools EXCEPT ![id] = @ \ {e}]
  /\ sandbox' = [sandbox EXCEPT ![s].same = FALSE]
  /\ UNCHANGED <<raw, flat, check, edits>>

PluginInit ==
  /\ env \in DOMAIN Environments
  /\ raw \in Env.Networks /\ flat \in Env.FlatFiles
  /\ pools = [id \in {} |-> {}]
  /\ sandbox = [s \in Sandboxes |-> [state |-> "new"]]
  /\ check = Idle /\ edits = 0 /\ losses = 0

PluginNext ==
  /\ UNCHANGED env
  /\ \/ \E s \in Env.sandboxes :
          \/ \E args \in Env.Args, version \in Env.CNIVersions : cmdAdd(s, args, version)
          \/ \E prev \in BOOLEAN : StartCheck(s, prev)
          \/ cmdDel(s)
          \/ Lose(s)
     \/ CheckRange \/ CheckUnread \/ CompareResult \/ EndCheck
     \/ Edit

PluginSpec == PluginInit /\ [][PluginNext]_<<env, pluginVars>>
-----------------------------------------------------------------------------
UpSandboxes == {s \in Sandboxes : sandbox[s].state = "up"}

\* CHECK has no quarrel with a sandbox whose ADD succeeded and whose
\* configuration and entries are as they were, unless a request fails; and with the previous result it
\* does not pass a sandbox one of whose addresses had been taken away before it
\* began, whatever was edited since, unless the configuration now gives that
\* very address statically (runCmdCheck, "state drift between the runtime and
\* the IPAM store").
CheckExact ==
  /\ check.pc = "failed" => ~sandbox[check.s].same
  /\ check.pc = "passed" /\ check.prev # Absent =>
       \A x \in check.lost : \E a \in Each(check.conf.addresses) : a.ip = x

\* What ADD allocates is apart from what the configuration keeps: an address it
\* gives statically is not allocated to any sandbox, and with exclude_gateway
\* no sandbox gets the gateway's, in any range and from whichever file the
\* settings come (validateStaticAddressesOutsideManagedRanges, LoadIPAMConfig).
AddressesApart ==
  \A s \in UpSandboxes :
    /\ \A t \in UpSandboxes : sandbox[s].conf = sandbox[t].conf =>
         \A a \in Each(sandbox[s].conf.addresses) : a.ip \notin sandbox[t].dynamic
    /\ sandbox[s].conf.flags["exclude_gateway"] => sandbox[s].conf.gateway \notin sandbox[s].dynamic

\* A setting of the network's configuration is not overridden by the flat file
\* (applyIPAMBoolPrecedence, mergo.Merge).
BoolsOverride ==
  \A s \in UpSandboxes : sandbox[s].same => \A f \in Bools :
    /\ raw[f] # Absent => sandbox[s].conf.flags[f] = raw[f]
    /\ raw[f] = Absent /\ getFlatIPAM(flat)[f] # Absent =>
         sandbox[s].conf.flags[f] = getFlatIPAM(flat)[f]
    /\ raw[f] = Absent /\ getFlatIPAM(flat)[f] = Absent => sandbox[s].conf.flags[f] = DefaultBool(f)

-----------------------------------------------------------------------------
(* What the repository says of the code and TLC refutes; see README.md.    *)

\* network_name of the network overrides that of the flat file
\* (LoadIPAMConfig, mergo.Merge).
NameOverrides ==
  \A s \in UpSandboxes : sandbox[s].same /\ raw["network_name"] # Absent =>
    sandbox[s].conf.network = raw["network_name"]

\* Where Fast IPAM is on, the plugin looks for the NodeSlicePool under the name
\* that the operator gives it (getNodeSliceName, nodeSlicePoolName).
SlicePoolFound ==
  LET conf == LoadIPAMConfig(raw, getFlatIPAM(flat), [ip |-> <<>>, gateway |-> <<>>], "1.0.0")
  IN  conf # Failed => (conf.slices => getNodeSliceName(conf) = nodeSlicePoolName(raw))
=============================================================================
