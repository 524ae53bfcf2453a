----------------------------- MODULE Installer -----------------------------
(***************************************************************************)
(* install-cni, the DaemonSet entry point that puts the CNI binary, a       *)
(* kubeconfig and two configuration files on the host, and then rewrites   *)
(* the kubeconfig when the ServiceAccount's token or CA bundle rotates.    *)
(*                                                                         *)
(* A step is one system call on a file.  see[f] is what a reader of f gets *)
(* now, disk[f] the set of contents f may have after a power loss: a       *)
(* rename is durable once its directory is synced, and the renamed file    *)
(* is complete on disk only if it was synced before.  All files but the    *)
(* binary are in whereabouts.d, whose own entry nobody syncs.              *)
(***************************************************************************)
EXTENDS Naturals

CONSTANTS
  Environments,       \* what env may be
  Versions,           \* versions of token and CA bundle: 1..n
  None, Partial, Full

\* The environment of the container, SkipTLSVerify and HasNodeName, and what may
\* happen on the node: credentials may rotate before the watch has started
\* (rotateEarly); a sync on a journalled file system also makes the directories
\* created before it durable; bounds on kills and failed calls (kills, errors).
VARIABLES
  env,     \* constant
  sa,      \* the ServiceAccount directory
  see, disk,
  confDir, \* whereabouts.d: None, "new" or "durable"
  tmp,     \* the temporary file, or None
  proc,    \* the installer process
  faults   \* kills and failed calls so far

vars == <<sa, see, disk, confDir, tmp, proc, faults>>
files == <<see, disk, confDir, tmp>>
-----------------------------------------------------------------------------
Files == {"kubeconfig", "conf", "nodename", "binary"}
NoCA == 0
Credentials == [token : Versions, ca : Versions \cup {NoCA}]
Content == {None, Partial, Full} \cup Credentials

\* fileHash: equal for equal contents, 0 for a file that cannot be read.
fileHash(f) == IF sa.readable THEN sa[f] ELSE 0

Start == [pc |-> "start", file |-> "kubeconfig", regen |-> FALSE, hash |-> None, new |-> None,
          data |-> None]

Init ==
  /\ env \in Environments
  /\ sa = [token |-> 1, ca |-> 1, readable |-> TRUE]
  /\ see = [f \in Files |-> None] /\ disk = [f \in Files |-> {None}]
  /\ confDir = None /\ tmp = None /\ proc = Start
  /\ faults = [kills |-> 0, errors |-> 0]

\* What run does after each file; "regen" is the write of maybeRegenerate.
NextFile(f) == CASE f = "kubeconfig" -> "conf"
                 [] f = "conf" -> "nodename"
                 [] f = "nodename" -> "binary"

\* loadConfig and MkdirAll.
Run ==
  /\ proc.pc = "start"
  /\ confDir' = IF confDir = None THEN "new" ELSE confDir
  /\ proc' = [proc EXCEPT !.pc = "token"]
  /\ UNCHANGED <<sa, see, disk, tmp, faults>>

\* The process ends with an error and is started again; in the watch loop an
\* error is logged and the old hashes are kept.
Error(p) == IF p.regen THEN [p EXCEPT !.pc = "watch", !.file = "kubeconfig"] ELSE Start

\* writeKubeConfig: the token is read, then the CA bundle.
ReadToken ==
  /\ proc.pc = "token"
  /\ proc' = IF sa.readable
             THEN [proc EXCEPT !.pc = "ca", !.data = [token |-> sa.token, ca |-> NoCA]]
             ELSE Error(proc)
  /\ UNCHANGED <<sa, files, faults>>

ReadCA ==
  /\ proc.pc = "ca"
  /\ proc' = IF env.SkipTLSVerify THEN [proc EXCEPT !.pc = "create"]
             ELSE IF sa.readable THEN [proc EXCEPT !.pc = "create", !.data.ca = sa.ca]
             ELSE Error(proc)
  /\ UNCHANGED <<sa, files, faults>>

\* atomicWriteFile: write and chmod a temporary file, sync and close it, rename
\* it, sync the directory.  writeNodeNameFile does nothing without NODENAME.
WriteTemp ==
  /\ proc.pc = "create" /\ proc.file # "binary"
  /\ IF proc.file = "nodename" /\ ~env.HasNodeName
     THEN proc' = [proc EXCEPT !.file = NextFile(@)] /\ UNCHANGED tmp
     ELSE /\ tmp' = [data |-> proc.data, synced |-> FALSE]
          /\ proc' = [proc EXCEPT !.pc = "sync"]
  /\ UNCHANGED <<sa, see, disk, confDir, faults>>

\* copyFile does the same with what it reads from the image.
CopyTemp ==
  /\ proc.pc = "create" /\ proc.file = "binary"
  /\ tmp' = [data |-> Full, synced |-> FALSE]
  /\ proc' = [proc EXCEPT !.pc = "sync"]
  /\ UNCHANGED <<sa, see, disk, confDir, faults>>

\* Mutant: the file is renamed without a sync.
SyncTempNever ==
  /\ proc.pc = "sync"
  /\ proc' = [proc EXCEPT !.pc = "rename"]
  /\ UNCHANGED <<sa, files, faults>>

SyncTemp ==
  /\ proc.pc = "sync"
  /\ tmp' = [tmp EXCEPT !.synced = TRUE]
  /\ proc' = [proc EXCEPT !.pc = "rename"]
  /\ UNCHANGED <<sa, see, disk, confDir, faults>>

OnDisk(t) == IF t.synced THEN t.data ELSE Partial

Rename ==
  /\ proc.pc = "rename"
  /\ see' = [see EXCEPT ![proc.file] = tmp.data]
  /\ disk' = [disk EXCEPT ![proc.file] = @ \cup {OnDisk(tmp)}]
  /\ proc' = [proc EXCEPT !.pc = "syncdir"]
  /\ UNCHANGED <<sa, confDir, tmp, faults>>

\* After the last file, watchAndRegenerate starts; a regenerated kubeconfig
\* makes maybeRegenerate return the hashes it read first.
Written(p) ==
  IF p.regen THEN [p EXCEPT !.pc = "watch", !.hash = p.new]
  ELSE IF p.file = "binary" THEN [p EXCEPT !.pc = "hash"]
  ELSE [p EXCEPT !.pc = "create", !.file = NextFile(@), !.data = Full]

\* Mutant: the directory is not synced.
SyncDirectoryNever ==
  /\ proc.pc = "syncdir"
  /\ proc' = Written(proc) /\ tmp' = None
  /\ UNCHANGED <<sa, see, disk, confDir, faults>>

syncDirectory ==
  /\ proc.pc = "syncdir"
  /\ disk' = [disk EXCEPT ![proc.file] = {OnDisk(tmp)}]
  /\ confDir' = IF env.journalled THEN "durable" ELSE confDir
  /\ tmp' = None
  /\ proc' = Written(proc)
  /\ UNCHANGED <<sa, see, faults>>

\* watchAndRegenerate: the hashes changes are measured against are taken now.
TakeHashes ==
  /\ proc.pc = "hash"
  /\ proc' = [proc EXCEPT !.pc = "watch", !.file = "kubeconfig",
                !.hash = [token |-> fileHash("token"), ca |-> fileHash("ca")]]
  /\ UNCHANGED <<sa, files, faults>>

\* maybeRegenerate, on a file event or on the next tick.
Changed(new) == new.token # proc.hash.token \/ (~env.SkipTLSVerify /\ new.ca # proc.hash.ca)

\* Mutant: the new hashes count although the kubeconfig is not yet written.
RegenerateOnce ==
  LET new == [token |-> fileHash("token"), ca |-> fileHash("ca")]
  IN /\ proc.pc = "watch"
     /\ proc' = IF Changed(new) THEN [proc EXCEPT !.pc = "token", !.regen = TRUE, !.new = new, !.hash = new]
                ELSE [proc EXCEPT !.hash = new]
     /\ UNCHANGED <<sa, files, faults>>

maybeRegenerate ==
  LET new == [token |-> fileHash("token"), ca |-> fileHash("ca")]
  IN /\ proc.pc = "watch"
     /\ proc' = IF Changed(new) THEN [proc EXCEPT !.pc = "token", !.regen = TRUE, !.new = new]
                ELSE [proc EXCEPT !.hash = new]
     /\ UNCHANGED <<sa, files, faults>>

\* A system call fails.  The deferred os.Remove takes the temporary file away;
\* after the rename there is none, and only the directory sync is missing.
CallFails ==
  /\ proc.pc \in {"start", "create", "sync", "rename", "syncdir"} /\ faults.errors < env.errors
  /\ faults' = [faults EXCEPT !.errors = @ + 1]
  /\ proc' = Error(proc)
  /\ tmp' = None
  /\ UNCHANGED <<sa, see, disk, confDir>>
-----------------------------------------------------------------------------
(* The node                                                                *)

Watching == proc.pc = "watch" \/ proc.regen

\* Kubelet swaps the projected volume; the files may be missing for a moment.
Rotate ==
  /\ env.rotateEarly \/ Watching
  /\ \E f \in {"token", "ca"} : sa[f] + 1 \in Versions /\ sa' = [sa EXCEPT ![f] = @ + 1]
  /\ UNCHANGED <<files, proc, faults>>

Unreadable ==
  /\ sa.readable /\ sa' = [sa EXCEPT !.readable = FALSE]
  /\ faults.errors < env.errors /\ faults' = [faults EXCEPT !.errors = @ + 1]
  /\ UNCHANGED <<files, proc>>

Readable ==
  /\ ~sa.readable /\ sa' = [sa EXCEPT !.readable = TRUE]
  /\ UNCHANGED <<files, proc, faults>>

\* The container is killed: its temporary file stays behind under a name that
\* is never used again.
Kill ==
  /\ faults.kills < env.kills
  /\ faults' = [faults EXCEPT !.kills = @ + 1]
  /\ proc' = Start /\ tmp' = None
  /\ UNCHANGED <<sa, see, disk, confDir>>

\* The node loses power, and a directory that is not durable may be lost with
\* its files.
PowerLoss ==
  /\ faults.kills < env.kills
  /\ faults' = [faults EXCEPT !.kills = @ + 1]
  /\ \E lost \in IF confDir = "new" THEN BOOLEAN ELSE {FALSE} :
       /\ see' \in {s \in [Files -> UNION {disk[f] : f \in Files} \cup {None}] :
                    \A f \in Files : s[f] \in IF lost /\ f # "binary" THEN {None} ELSE disk[f]}
       /\ confDir' = IF lost \/ confDir = None THEN None ELSE "durable"
  /\ disk' = [f \in Files |-> {see'[f]}]
  /\ proc' = Start /\ tmp' = None
  /\ UNCHANGED sa

Step == Run \/ ReadToken \/ ReadCA \/ WriteTemp \/ CopyTemp \/ SyncTemp \/ Rename \/ syncDirectory
          \/ TakeHashes \/ maybeRegenerate
Next ==
  /\ UNCHANGED env
  /\ Step \/ CallFails \/ Rotate \/ Unreadable \/ Readable \/ Kill \/ PowerLoss

Spec == Init /\ [][Next]_<<env, vars>>
-----------------------------------------------------------------------------
TypeOK ==
  /\ sa \in [token : Versions, ca : Versions, readable : BOOLEAN]
  /\ \A f \in Files : see[f] \in Content /\ disk[f] \subseteq Content /\ disk[f] # {}
  /\ confDir \in {None, "new", "durable"} /\ (tmp = None \/ tmp.data \in Content)
  /\ proc.pc \in {"start", "token", "ca", "create", "sync", "rename", "syncdir", "hash", "watch"}

\* No reader ever finds a file half written, not even after a kill or a power
\* loss at any point (atomicWriteFile, copyFile: "never left in a
\* partial/corrupt state"); and a node that has the CNI binary also has the
\* kubeconfig and the configuration it reads, now and after a power loss, since
\* run writes the binary last and each file is durable before the next one is
\* begun.  The second part needs a journalled file system: on another one a
\* power loss may take the whole of whereabouts.d, which run does not sync.
InstalledComplete ==
  /\ \A f \in Files : see[f] # Partial /\ Partial \notin disk[f]
  /\ env.journalled => \A f \in {"kubeconfig", "conf"} :
       /\ see["binary"] # None => see[f] # None
       /\ disk["binary"] # {None} => None \notin disk[f] /\ confDir = "durable"

\* What the kubeconfig comes to once credentials stop rotating, unless they
\* rotated before the watch had begun: it holds the current ones
\* (maybeRegenerate keeps the old hashes until a write succeeded).
KubeconfigCurrent ==
  ~env.rotateEarly =>
    see["kubeconfig"] = [token |-> sa.token, ca |-> IF env.SkipTLSVerify THEN NoCA ELSE sa.ca]
=============================================================================
