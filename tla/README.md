# Whereabouts in TLA+

Whereabouts is an IPAM CNI plugin: on ADD it picks an address from the
configured ranges and records it in an `IPPool` object of the Kubernetes API, on
DEL it removes the record.  Nothing but API objects coordinates the nodes.  An
operator beside it repairs what failed calls leave behind, divides ranges into
slices per node, and validates the objects.  This directory models these parts,
checks them with TLC on small instances and proves their central invariants with
TLAPS for every instance.

## The system

| Part | Source (`src/`) | Module |
|---|---|---|
| Allocation and release, pool store, reservation store | `pkg/storage/kubernetes/ipam.go`, `cmd/whereabouts/main.go` | `IPAM`, abstractly `Allocator` |
| Address selection, IP arithmetic | `pkg/allocate`, `pkg/iphelpers` | `Allocate`, `Prefixes` |
| Lease | `ipam.go` (`IPManagement`, `newLeaderElector`) | `Lease` |
| IPPool and reservation reconcilers | `internal/controller/ippool_controller.go`, `overlappingrange_controller.go`, `patchhelper.go` | `Reconcilers` |
| Node slices (Fast IPAM) | `nodeslice_controller.go`, `GetNodeSlicePoolRange` | `NodeSlice` |
| Commands, configuration | `cmd/whereabouts`, `pkg/config`, `pkg/types` | `Plugin`, `Config` |
| Names of reservations | `NormalizeIP`, `LegacyNormalizeIP`, `denormalizeIPName` | `Names` |
| Slices of a range, status of a pool | `pkg/iphelpers`, `ippool_controller.go` | `Ranges`, `Prefixes` |
| Operator start-up, certificates | `cmd/operator`, `internal/webhook/certrotator` | `Operator` |
| Webhooks, validation | `internal/webhook`, `internal/validation` | `Admission`, `Prefixes` |
| Installer | `cmd/install-cni` | `Installer` |

How they interact: any number of plugin processes (one per CNI call) and the
operator's reconcilers read and write `IPPool` and reservation objects.  A call
makes a handful of requests per range; between any two of them other calls, a
crash, or a reconciler may change what was read.  What keeps pools consistent is
the `resourceVersion` test of `Update`; what keeps overlapping pools apart is
that creating a reservation fails when it exists.  The lease serialises calls in
the default mode, but `optimistic_ipam` bypasses it and a call whose lease is
lost goes on, so `IPAM` does not rely on it.  The reconcilers read informer
caches that lag behind the API server, and judge what they read by pods that
change meanwhile.

What is hard to test is listed in `PROJECT.json` as hazards with their lines:
look-up, choice and write of an address interleaving with those of other calls;
rollbacks racing with the next sandbox of the same pod; a write that took effect
but was reported as failed; a pod name re-used under a new UID; decisions taken
on a cache that has fallen behind; replicas that start at once; retry loops at
their limit; a kill between two system calls.

## Modules

Every module models requests, cached reads, system calls or channel operations
as single steps; what the code computes between two of them belongs to the step
of the first.  Data are abstracted to what the properties distinguish: names,
UIDs and addresses are model values or numbers, text that does not parse is one
value.  Comments in the modules name the functions each definition stands for,
`PROJECT.json` the lines.

* **`IPAM`** – the allocation path.  `pools[p]` is the `IPPool` (`rv` is the
  resource version, 0 before creation; `alloc[ip]` the attachment recorded for
  `ip`), `orips[ip]` the reservation, `call[a]` the locals of the call running
  for attachment `a` (a container ID and interface name), `faults` counts
  injected failures.  `AddStart` and `DelStart` are the runtime; `ReadMissing`,
  `CreatePool`, `ReadForAdd`, `ReadForDel` are `GetIPPool` with what `AssignIP`
  and `DeallocateIP` make of the list; `GetOrip`, `StaleGet`, `StaleDel` the
  check of the chosen address's reservation; `Patch` is
  `KubernetesIPPool.Update`; `CreateOrip`, `DelGet`, `DelDel` are
  `UpdateOverlappingRangeAllocation`; `Rollback*` is `rollbackCommitted`.
  `RequestFails`, `ReplyLost` and `Crash` are failures.  The maps `NextAttempt`,
  `RangeDone`, `Fail`, `OverlapUpdateFailed`, ... are the control flow between
  two requests.  `IfName` and `PodRef` form one value `Ref[a]`, since the code
  compares them together everywhere but in `DeallocateIP`, which compares the
  container ID and the interface, that is, the attachment.
* **`Allocator`** – what the pools promise, without versions, attempts and
  rollbacks: free addresses are reserved, an ADD of the same pod interface takes
  an entry over, and an entry is released only by a running call of the
  container it is recorded for.
* **`Allocate`** – how `AssignIP` chooses an address: `AssignPreferred`, the loop
  of `pickForAssignment` and the loop of `IterateForAssignment` with its jumps
  over exclusions, one step per iteration, on top of the bounds, successors and
  offsets of `iphelpers`.  It justifies that `IPAM` treats a range as a sequence
  of candidates of which the first free one is taken.
* **`Lease`** – the two goroutines of `IPManagement` with their channels, and
  client-go's elector (under `vendor/`) as the code configures it.  Its release
  clears the lease on the strength of the record it last observed, and two calls
  of one pod have the same identity, so one can empty the lease the other holds.
* **`Reconcilers`** – both reconcilers with `PatchHelper`, beside pods that come
  and go and plugin calls.  `rec` and `orec` are the locals of the running
  reconciles; `cpods`, `cpool`, `corips` the caches, copied from the API objects
  by `Sync` actions.  A cache therefore jumps to the present and may skip
  states in between; it never shows a past state it had not reached in time.
  The pod cache and the cache of reservations are informers of their own, so a
  reservation may be seen before its pod.  A malformed annotation counts as
  absent.
* **`NodeSlice`** – the NodeSlicePool reconciler over NADs, nodes and pools with
  lagging caches, and plugins that read the slice of their node.  Reservations
  are switched off, so the slices alone keep addresses apart; deletion of an
  `IPPool` takes effect at once; the ten-hour resync is not modelled.
  `exposed` is a history variable that no action reads: the pods for which
  slices alone cannot vouch (see Bounds).
* **`Plugin`**, **`Config`** – ADD, CHECK and DEL, each loading network
  configuration, flat file and CNI_ARGS anew, while files are edited, entries
  lost and pools cannot be read.  Two ranges with one CIDR share one pool.
  `LoadIPAMConfiguration` is not used in production and is left out.
* **`Names`** – the names of reservations, current and legacy, the look-up under
  both, and the address the operator reads back out of a name.
* **`Prefixes`**, **`Ranges`** – CIDRs, division into slices and overlap; the
  status the reconciler computes from a pool, whose reservations it finds by the
  address their names read as.
* **`Operator`**, **`Admission`**, **`Installer`**, composed by **`Startup`** – the
  replicas that bootstrap certificate and webhooks; the validators with the
  writers they judge and the repairs of the reconcilers; the files of the
  installer, system call by system call, with what a power loss leaves
  (`disk`).  They share no state, so a behaviour of `Startup` runs one of them
  (`part`).  `MCPlugin` composes `Plugin`, `Names` and `Ranges` the same way.
  The rotation of the certificate is that of the vendored cert-controller: the
  CA is read with the event (`ReadCA`) and written to the webhook configuration
  later (`InjectCA`), which may be stale by then, and counts as injected also if
  the chart has not created the configuration yet (`Configure`).  Certificate
  and CA are one number; the hashes of token and CA are read in one step;
  leftover temporary files are not tracked.  `confDir` is the directory
  `whereabouts.d`: the run that creates it syncs what it puts into it and never
  its parent.
* **`MC*`** – constants for TLC.  Where one run covers several situations, `env`
  holds the flags and bounds of a behaviour, is chosen in `Init` and stays.
* **`*Proofs`**, **`IPAMLemmas`** – the proofs.  `LeasePluginProofs` and
  `AllocateStartupProofs` each hold those of two modules that share no state.

## Runs

`CHECK_DEADLOCK FALSE` is set throughout: the modelled processes really stop,
when every call has returned and the bounds on further events are reached.

| Run | Instance | Shows |
|---|---|---|
| `sandboxes` | `IPAM`; two sandboxes of one pod name under two UIDs, or two pods, on two ranges of which the second has a single address; one failure, lost reply or crash | one address per interface and pool, release by DEL, decisions right for the pool they are written to, refinement of `Allocator`, every call returns |
| `overlap` | `IPAM`; three pods, two overlapping pools, one pod without a UID, one with a preferred address; no failures | addresses of running pods stay recorded and reserved and are never given out twice; failed ADDs and finished DELs leave nothing |
| `search` | `Allocate`; pools of 8, 4, 2 and 1 of 8 addresses, every stored map, bounds, exclusions, L3 mode, preferred addresses, pick lists | the search returns the first free address, fails only when there is none, and ends; storing under offsets keeps other entries |
| `lease` | `Lease`; three calls, two of them of one pod; one request lost, call killed or context expired | updates never overlap, no lease is abandoned, every call returns |
| `reconcile` | `Reconcilers`; two pods whose names and addresses come back, either reconciler | reservations are deleted only as judged, the status does not contradict the spec, reservations of live pods stay unless the pod cache had not caught up |
| `cleanup` | `Reconcilers`; pods that complete, are evicted, lost or re-created, a deleted pool, objects of an earlier version, a failed request, a restart | entries and reservations of dead pods go, a deleted pool goes, the status settles |
| `slices` | `NodeSlice`; two of three nodes, two NADs, ranges of one and two slices, two pods; nodes leave with running pods and come back, NADs change | running pods share no address (two exceptions, see Bounds), no node has two slices, published slices are those asked for, pools settle |
| `commands` | `Plugin`, `Names`, `Ranges`, one at a time | CHECK fails only after a change and passes only with every address, recorded or by now static; settings override as documented; allocated, static and gateway addresses are apart; reservations are found, made once and removed under both forms of names, two at a time; slices partition the range; the status agrees with what `AssignIP` gives out |
| `startup` | `Operator`, `Admission`, `Installer`, one at a time; two replicas, a crash, an expiry, or a webhook configuration that comes late; two edits and an outage; kills, failed calls and power losses | readiness after registration, one certificate at a time, no partial file and no binary without configuration, stored objects can be written back, all of them settle |
| `stale`, `exhausted`, `leftover` | `IPAM`, minimal | the disagreements listed below |

Bounds.  `DatastoreRetries` is 100 and `RollbackRetries` is 5 in the code.  The
runs about failures use 3 and 2, so that running out of attempts happens and is
part of what is checked.  `overlap` asks what holds when attempts do not run
out: 12 and 8 are more than three pods in two pools of two addresses can use up.
With 6 attempts TLC reaches the duplicate address that `exhausted` shows, and
with 5 rollback attempts an ADD of this instance leaves an entry behind: the
first attempt always conflicts and there is no waiting between attempts, so the
real limit of 5 can be met under contention.  `MaxFaults` and `MaxDels` bound
failures and repeated DELs.

Eight addresses hold every case that the selection tells apart: pools with and
without network and broadcast address, exclusions that are nested, adjacent,
listed in either order or end with the last address of the space, and bounds
that are unusable or out of order.  In `Ranges` and `Admission` IPv4 has 4 bits
and IPv6 5, at most four slices are allowed instead of 16384 and counts are
clamped at 9 instead of 2^31 - 1, so that both limits are met.  In `Lease` a tick
is one retry period; the lease lasts two, since client-go stores 1500 ms as one
second.  In `Reconcilers` two UIDs and two sandboxes suffice for a name and an
address to come back between a read and a write; the environments (`Races`,
`Cleanups`) each allow one kind of end of a pod, so that every kind is covered
without the product of all.  In `NodeSlice` two slices for three nodes make a
full pool, and the situations separate nodes that come, leave with running pods
and come back (`Moving`, `Returning`, `Rejoining`), a range sliced anew under
running pods (`Anew`), and NADs that change (`Editing`, `Reslicing`).  `Names`
has at most two reservations at a time: its properties are about one or two.  In
`startup` the webhook configuration comes late only where the bounds on crashes
and expiries are used up.

`UniqueAddress` of `NodeSlice` has two exceptions, both kept in `exposed`; TLC
finds a counterexample without either.  `Unseen`: a pod whose entry the
operator's IPPool cache does not have, on a node that the operator takes for
gone.  It frees the slice, and only the entry could have kept it from that.
`Resliced`: a pod attached before all slices of its pool were assigned anew.
All other pods of a pool are apart, though no reservations are used.

Fairness.  `IPAM`: a running call makes its next request; requests carry a
timeout and waits between attempts are capped at a second.  `Allocate`: a loop
goes on.  `Lease`: time passes, goroutines and electors run, and a leader's
callback is called.  `Reconcilers`: a reconcile that can go on does (every result
asks for another one, within bounded intervals), caches catch up, and a plugin
that has written its entry goes on.  `NodeSlice`: caches catch up, garbage is
collected, a reconcile goes on, and a NAD that is queued again and again is
begun (strong fairness: the work queue is first in, first out, and while another
NAD is worked on it cannot be begun).  `Startup`: processes go on, the kubelet
refreshes the mounted Secret, some replica leads, the service account becomes
readable again, an outage of the webhooks ends.  Failures, kills and new calls
are never forced.

### Disagreements between code and documentation

With a run each:

* `stale`: the comment at `ipam.go:937` says the UID guard protects a newer
  reservation from the delete of a stale one.  The guard reads, then deletes by
  name; a reservation created in between is deleted.
* `exhausted`: `doc/extended-configuration.md:173` promises that overlapping
  ranges never give out one address twice.  Attempts that meet a foreign
  reservation `continue` with `err == nil`; when they are used up, the ADD
  reports the last such address as its own.
* `leftover`: `main.go:91` returns a DEL's error so that the runtime's repetition
  avoids a leak only the reconciler can repair.  The repeated DEL finds the pool
  entry gone, does not look for the reservation, and reports success.

The following properties are at the ends of their modules, under "What the
repository says of the code and TLC refutes", or are checked properties without
their exceptions.  To see a counterexample, check
the property under the constants given.

| Property | Constants | What the code does, and what is said of it |
|---|---|---|
| `IPAM.HandoverKeepsUnique` | as `stale`, with `KeptUID` | DEL removes the pool entry, then the reservation.  A new sandbox of the pod in between takes the address, finds the reservation its own, and loses it to the DEL (`ipam.go:947`, `:436`).  `README.md:376` says an address is not re-assigned across overlapping ranges |
| `Reconcilers.EntryOfLivePodKept` | as `reconcile`; for the annotation as `cleanup`, with `Plain`, `VerifyNetworkStatus`, two sandboxes and two keys | the merge patch carries no `resourceVersion`, so it also removes an entry a live pod took after the judgement (`patchhelper.go:119`); and an address is missing from the network-status annotation until Multus rewrites it (`ippool_controller.go:371`).  `ippool_controller.go:220` speaks of orphaned entries only, `doc/extended-configuration.md:501` takes a missing address for a stale one |
| `Reconcilers.ReservationOfLivePodKept` | as `reconcile` | the pod is looked up in a cache that may not have it yet, or still have the one before it; the delete has the UID of the reservation as a precondition, not the pod (`overlappingrange_controller.go:97`, `:107`).  The comment at `:26` speaks of pods that no longer exist |
| `Reconcilers.UniqueAddress` | as `reconcile`, with `Rivals`, `MaxUID` and `MaxSandbox` 3 | a pod re-created between judgement and listing loses entry and reservation, and its address is given to another (`ippool_controller.go:388`).  `doc/architecture.md:135`: "Ensures IP uniqueness across overlapping ranges" |
| `Reconcilers.FinalizerCleans` | as `cleanup`, with `Deleted` | the finalizer lists reservations from the cache and misses one just made (`ippool_controller.go:536`).  The comment at `:167` says they are cleaned up before the pool goes |
| `Lease.Serialised` without its condition | as `lease` | the update runs on the caller's context, which a lost lease does not cancel (`ipam.go:647`).  `doc/extended-configuration.md:345` says allocation is serialised across the cluster |
| `NodeSlice.SettledAtRest` | as `slices`, with `Plain`, `rejoin`, nodes 1 and 2, no pods, four moves | a reconcile that reads a pool older than its own last write may change nothing and is not repeated (`nodeslice_controller.go:387`).  The comment at `:38` says node events are reflected |
| `NodeSlice.FullPoolReported` | as `slices`, with `Plain` and three nodes at the start | `createPool` marks a pool Ready whatever the number of nodes (`:238`).  `nodeslice_controller_test.go:353`: "should mark the pool full when no slots are available" |
| `NodeSlice.RemovedNodeSliceKept` | as `slices`, with `Plain` | the `IPPool` of a removed node is read from the cache and deleted without precondition (`:402`).  `nodeslice_controller_test.go:554` says its slice is kept while it has allocations |
| `Installer.KubeconfigCurrent` without its condition, in the end | as `startup` | hashes are first taken after the kubeconfig was written, so a rotation in between is missed (`cmd/install-cni/main.go:435`).  The comment at `:12` says the kubeconfig follows rotations |
| `Installer.InstalledComplete` without `env.journalled` | as `startup` | `run` creates `whereabouts.d` and syncs the files and the directory itself, never its parent (`cmd/install-cni/main.go:177`), so on a file system that does not journal a power loss may take the directory and leave the binary.  The comment at `:389` speaks of files durable "across a node crash" |
| `Plugin.NameOverrides` | as `commands`, with a network whose `network_name` is `Zero` and the flat file `Blue` | mergo fills every zero field, so the flat file's name wins over `""` (`config.go:167`).  `doc/extended-configuration.md:71` says the flat file is overridden |
| `Plugin.SlicePoolFound` | as `commands`, with a `node_slice_size` and the flat file `Blue`; or a range not in canonical form | plugin and operator derive different names of the NodeSlicePool (`ipam.go:700`).  `doc/extended-configuration.md:55`, `:182` |
| `Names.NothingLeft` without `Misleading` | as `commands` | the name of an IPv6 address with exactly four decimal words in a row is read as an IPv4 address behind a network name, and the pool's clean-up leaves the reservation (`ippool_controller.go:642`).  The comment at `:633` |
| `Ranges.FreeIsAvailable` without its last case | as `commands` | pools are created without `EnableL3`, so `FreeIPs` leaves out the first and the last address (`ipam.go:219`).  `ippool_types.go:44` |
| `Admission.OutageRepaired` | as `startup` | no reconciler restores the range of a pool, removes a live pod's entry under a malformed key, or looks at a reservation with an empty podRef (`overlappingrange_controller.go:85`).  `doc/extended-configuration.md:564` says the reconciler fixes what slips through |
| `Admission.SameVerdict` | as `startup`, with a NodeSlicePool whose range has host bits | the webhook admits NodeSlicePools the reconciler refuses to divide (`iphelpers.go:129`).  `validation.go:4` says validation is shared |

Two limits have no sentence in the repository to compare with.
`PublishedSlicesMatchSpec` excepts reconciles that read a cached pool older than
the operator's own last write: `specChanged` (`nodeslice_controller.go:167`) is
computed from the copy that was read, then `ensureOwnerRef` (`:170`) patches the
pool without a version and refreshes the copy, so that a stale comparison is
followed by a status write which passes the version test.  And names of older
versions are ambiguous: those of addresses whose text begins or ends with `::`
coincide, and the end of a network's name may read as part of an address.
`LookupExact` and `NothingLeft` except them.

## Proofs

Each theorem holds for all values of the constants that satisfy the module's
`ASSUME`s, which TLC evaluates in every run: typing, the distinctness of special
values, and what is named below.  No bound on failures, calls, nodes or pods is
needed.

| Theorem | Property | Module |
|---|---|---|
| `TypeCorrect`, `Invariance` | `TypeOK`, the inductive invariant `IInv` | `IPAMProofs` |
| `OneAddress` | `OneIPPerInterface` | `IPAMProofs` |
| `SnapshotsHold` | `SnapshotInv` | `IPAMProofs` |
| `DelReleases` | `GoneIsReleased` | `IPAMProofs` |
| `Refinement` | `ImplementsAllocator` | `IPAMProofs` |
| `UpBacked` | `UpIsBacked` | `BackedProofs` |
| `Reservations`, `NoDuplicates` | `UpIsReserved`, `NoDuplicateIP`, under conditions | `ReservationProofs` |
| `Rollbacks`, `DelUnreserves` | `FailedLeavesNothing`, `GoneIsUnreserved`, under conditions | `ReservationProofs` |
| `ReturnsFirstFree`, `NoFalseExhaustion`, `KeepsEntries` | `FirstFree`, `FailsOnlyWhenFull`, `EntriesKept` | `AllocateStartupProofs` |
| `UpdatesSerialised`, `LeaseNotAbandoned` | `Serialised`, `NoAbandonedLease` | `LeasePluginProofs` |
| `Checks`, `ApartAddresses`, `BoolPrecedence` | `CheckExact`, `AddressesApart`, `BoolsOverride` | `LeasePluginProofs` |
| `StatusPublished`, `JudgedDeleted`, `LiveKept` | `PublishedStatus`, `DeletesWhatItJudged`, `LiveReservationKept` | `ReconcilersProofs` |
| `NoNodeTwice`, `SlicesPublished` | `OneSlicePerNode`, `PublishedSlicesMatchSpec` | `NodeSliceProofs` |
| `ReadyIsRegistered`, `OneCertificate` | `ReadyMeansRegistered`, `CertificateKept` | `AllocateStartupProofs` |
| `InstallIsComplete`, `StoredObjectsAdmissible` | `InstalledComplete`, `StoredIsAdmissible` | `AllocateStartupProofs` |

**`IPAM`** (assumed: at least one range per attachment and one attempt).  None of
the invariants is inductive alone.  `OneIPPerInterface` needs that the version
test protects the decision taken when the pool was read; that is `Snapshot`: the
pool in hand is the stored one or an older one (`Clean`), and on the pool in hand
the decision is right.  For rollbacks `Snapshot` also says that the object in
hand is outdated the first time (`Outdated`), so that a first attempt can only
conflict, and a later one removes only what the re-read pool shows to be the
call's own.  `GoneIsReleased` needs `Released`: the ranges a DEL has passed hold
nothing of its attachment, which stays true because only a step of an attachment
can create its entry (`HolderStep`).  `DeallocateIP` removes a single entry, so
`Released` in turn needs `OneIPPerInterface`.

`UpIsBacked` needs `BackedInv`: from its start on, an ADD that has not run out of
attempts and is the only sandbox of its pod interface has recorded its results,
one per range passed, in order (`InOrder`).  The delicate case is the rollback
inside the retry loop, after the reservation could not be made: it must not take
an entry that an earlier range reported.  `Alone` says that an entry the current
attempt created lies in a pool none of the earlier ranges has, since `AssignIP`
would have found their entry there.  Steps of others change only entries of their own pod
interface (`OthersEntries`).

The proof is layered: the control-flow maps turn a record that satisfies the
invariant into one that does (`FailOK`, `NextAttemptOK`, `RangeDoneOK`, ...); pool
updates are permitted changes of holders (`UpdateStep`); a step that changes one
record and the pools this way preserves `IInv` (`StepInv`).  Each action combines
the three.  For the refinement, `HolderSteps` and `RunStep` show that a step
changes holders only for the attachment that runs, and `MaySet` is the
disjunction of the abstract actions.  `IPAMLemmas` has the invariants and the
maps, `IPAMProofs` the actions and what follows from `IInv` alone;
`BackedProofs` and `ReservationProofs` build on it.

**Reservations** (`ReservationProofs`).  The four theorems have the form
`Spec /\ []Undisturbed => [](...)` under `OverlappingRanges` and `DistinctPods`,
which say when the code can keep its promise at all: reservations are on, the
attachments belong to different pod interfaces, no request fails and no call is
killed, and no rollback meets a conflict in its last attempt.  Without them the
properties fail: `stale`, `exhausted` and `leftover` and `HandoverKeepsUnique`
show how, and after a crash between the two writes a DEL may delete, by name, the
reservation of another pod.  `Reservations` and `NoDuplicates` also except an ADD that
returned an address of a range that ran out of attempts (`NoneExhausted`), the
case of `exhausted`; the other two hold even then.  The number of pods, pools,
ranges and attempts and the interleaving are arbitrary.  In `overlap` all of
these conditions hold in every state, and rollbacks, conflicts and reservations
of others happen there.

`TInv` gives each attachment an account of its entries `E` and its reservations
`R` (`Tidy`).  When no call runs, `E` and `R` name the same addresses
(`Returned`, `Matched`); a failed ADD has neither.  During an ADD, `E` is what
the commits recorded so far say, with the entry of the current attempt while its
reservation is outstanding (`Adding`, `Progress`); during a DEL the address just
removed from the pool is reserved still (`Deleting`); while the current attempt
is taken back (`Reverting`) or a failed ADD undoes its commits (`Unwinding`),
what is left is what the queue still lists.  `InRange` is needed for a DEL, which
looks only into the pools of its own ranges.  `DistinctPods` makes the accounts
independent (`EntriesFrame`): only a step of an attachment changes its own.
Reservations are deleted by name, so the account must also say that the one named
is the caller's: `Deleting` and `Unwinding` list it in `R` until it is gone, and
by `Owned` a reservation carries the UID of its pod, so that an ADD never finds
a stale one of its own pod to remove.
`NoDuplicateIP` then follows because one address has one reservation.

**`Allocate`**.  `Searched` is the strengthening: what lies between the first
address of the range and the one tried next is reserved or excluded, and the
candidates of the list that were passed cannot be picked.  `EffectiveBounds`
shows that the bounds the code computes by overriding are those of the reference,
stated with sets; `RoundTrip` that offsets lose nothing for addresses of the
pool, which is why the test that a preferred address lies in the pool matters.

**`Lease`** (assumed: the lease lasts longer than a retry period).  `CallInv`
relates the two goroutines and the channels of a call.  `HolderInv`, as long as
no request was lost and identities are apart, says that whoever leads holds the
lease, renewed it at most one period ago, and no candidate has watched the record
for longer than it is old, so no candidate can find it expired.  `WriterInv`
names the elector that wrote a held lease.

**`Plugin`** (assumed: in every network and flat file a field for a list holds a
list and a range has the fields of one, `WellTyped`; the value for an unset
address is not an address).  `PInv` has two parts.  `SandboxInv`: what a sandbox's ADD
reported is its result; as long as nothing was edited or lost (`same`), loading
the configuration anew gives that of the ADD, and the sandbox's own entries in
each pool are what it was granted; allocated addresses are apart from what the
configuration keeps (`KeptApart`).  `CheckInv`: a CHECK under way has collected
the expected addresses of the ranges it passed, none of which was lost when it
began, and one that passed has compared them with the result.  A lost address
cannot come back while the sandbox is up, since only its own ADD records it.
`AddressesApart` rests on `SameBounds`: the check of the static addresses and
the allocation compute the bounds of a range separately and agree.  `Overrides`
follows a boolean through the three steps of `LoadIPAMConfig`.

Proving `CheckExact` corrected it: a CHECK with a previous result also passes when
an address that was lost is meanwhile given by the configuration statically,
since static addresses are compared and never looked up.  The occasion `moved`
of the run `commands` has this case.

**`Reconcilers`** (nothing assumed of the constants).  `PublishedStatus` rests on
`StatusInv`: what "fresh" says of the cached pool and of the copy a reconcile works on, and
that its own patch of the spec leaves the orphans out.  `DeletesWhatItJudged`
rests on `IdentityInv`: an id names one reservation for ever, so a copy and the
object that still carries its id agree on their owner, and the UID precondition
of the delete makes the judgement hold for what is deleted.
`LiveReservationKept` rests on `PodInv`: what the pod cache shows, and what a
reconcile has read from it, is the stored pod at an earlier time or a pod before
it under the same name; UIDs grow, and a pod that stopped being healthy does not
recover.  So a pod judged by its own record stays dead, and a reservation of a
live pod can only go if the record judged was absent or of an earlier pod.

**`NodeSlice`** (assumed: finitely many nodes, and that dividing a range yields a
list).  `SliceInv`: in every list of slots, stored, cached, read or prepared, no
node occurs twice (`Good`); `makeAllocations`, `repairAllocations` and
`ensureNodeAssignments` each keep this.  For `PublishedSlicesMatchSpec`,
`ListInv` says that a fresh copy is the stored pool, and `Planned` what a
reconcile may rely on at each point: it holds no other copy of its pool than the
stored version, the status it prepares fits the slices of its NAD (`Fits`), and,
unless it began with a stale pool, its copy has the range and size of the NAD or
is yet to be written.

**`Startup`** (assumed: a half-written file differs from every whole one; a NAD
asks for slices of at least `/1`).  `Stages` orders the start-up of a replica,
`Refreshing` says that a replica about to renew read a certificate that is no
longer valid or no longer stored; with the version test this leaves one
certificate.  `FilesInv` and `OrderInv` say that a file worked on implies that
those before it are durable, `DirInv` that so is their directory on a journalled
file system, and a binary that may survive a power loss has its configuration
with it.  `AdmissionInv` says that what is stored is what the
webhooks admit, also when the plugin or the operator wrote it past them.

Only model-checked:

* Liveness: `CallsReturn` (twice), `AssignReturns`, `EntriesReleased`,
  `ReservationsReleased`, `DeletionEnds`, `StatusConverges`, `SlicesSettle`,
  `PartsSettle`.  The prover has no `ENABLED` and no fairness.
* `UniqueAddress` of `NodeSlice`.  A proof would have to follow each slice
  through every list of slots and both caches to the entries recorded in it.
* `SlicesPartition`, `StatusExact`, `LookupExact` and `NothingLeft`.  They compute
  powers, folds over sequences and names built from the words of an address,
  where proofs need induction over data.

## Not modelled

Metrics, logging, version strings, generated clients and the construction of API
clients have no effect on the state modelled.  JSON and address syntax are
reduced to parsed or not.  An `IPPool` deleted and re-created under its name
while a reconcile runs, the deletion of the certificate's Secret, and a NAD
whose `node_slice_size` is dropped (its NodeSlicePool stays) are left out.
A `/0` range with slice size 0 is left out of `Admission`.
`ValidateOmitRanges` is not called by the webhooks.
