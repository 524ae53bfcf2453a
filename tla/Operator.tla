------------------------------ MODULE Operator ------------------------------
(***************************************************************************)
(* The start-up of the operator's replicas (cmd/operator, certrotator and  *)
(* the set-up of the webhooks), which share one Secret for the certificate *)
(* of the webhook server and one ValidatingWebhookConfiguration.  Every    *)
(* replica makes sure that the Secret exists, runs the certificate rotator *)
(* and serves the webhooks; only the leader reconciles.                    *)
(*                                                                         *)
(* Rotator and manager are those of the vendored cert-controller and       *)
(* controller-runtime; the kubelet is external.  A certificate and its CA  *)
(* are one number: a refresh renews both.  0 is the empty Secret of        *)
(* ensureSecret.  The number also stands for the version that the API      *)
(* server compares on an update.                                           *)
(***************************************************************************)
EXTENDS Integers, Sequences

CONSTANTS
  Replicas,
  Flags,        \* values of --service-cidr: lists of parts
  Blank, Bad,   \* a part that is empty, and one that does not parse
  NoSecret, NoFile, NoConfig, None,
  MaxExpiries, MaxCrashes

ASSUME OperatorAssumption ==
  /\ NoSecret \notin [cert : Nat, valid : BOOLEAN] /\ NoFile \notin Nat
  /\ NoConfig # None /\ {NoConfig, None} \cap Nat = {}
  /\ MaxExpiries \in Nat /\ MaxCrashes \in Nat

VARIABLES
  serviceCIDR,  \* the flag, the same for all replicas
  secret,       \* NoSecret, or [cert, valid]
  mounted,      \* the certificate file of each replica's volume
  caBundle,     \* the CA in the ValidatingWebhookConfiguration, NoConfig without one
  replica,      \* the state of each process
  leader,       \* the holder of the leader lease
  expiries, crashes  \* used up, some of them perhaps from the start

operatorVars == <<serviceCIDR, secret, mounted, caBundle, replica, leader, expiries, crashes>>

Webhooks == <<"IPPool", "NodeSlicePool", "OverlappingRangeIPReservation">>

Starting == [pc |-> "setup", refresh |-> None, ca |-> None, injected |-> FALSE,
             certReady |-> FALSE, registered |-> <<>>, done |-> FALSE, serving |-> FALSE]

Set(r, state) == replica' = [replica EXCEPT ![r] = state]

\* The process ends and the kubelet starts it again.
Exit(r) == Set(r, Starting)

Up(r) == replica[r].pc = "up"
Running(r) == replica[r].pc \in {"boot", "refresh", "up"}
-----------------------------------------------------------------------------
OperatorInit ==
  /\ serviceCIDR \in Flags
  /\ secret = NoSecret /\ mounted = [r \in Replicas |-> NoFile]
  /\ caBundle \in {NoConfig, None}
  /\ replica = [r \in Replicas |-> Starting]
  /\ leader = None /\ expiries \in 0 .. MaxExpiries /\ crashes \in 0 .. MaxCrashes

parseServiceCIDRs(parts) ==
  LET given == SelectSeq(parts, LAMBDA p : p # Blank)
  IN  IF \E k \in 1 .. Len(given) : given[k] = Bad THEN Bad ELSE given

\* newControllerCommand up to the certificate rotator.  A flag that does not
\* parse ends the process, every time.
Setup(r) ==
  /\ replica[r].pc = "setup" /\ parseServiceCIDRs(serviceCIDR) # Bad
  /\ Set(r, [replica[r] EXCEPT !.pc = "get"])
  /\ UNCHANGED <<serviceCIDR, secret, mounted, caBundle, leader, expiries, crashes>>

\* ensureSecret: Get, and Create if there is none ...
GetSecret(r) ==
  /\ replica[r].pc = "get"
  /\ Set(r, [replica[r] EXCEPT !.pc = IF secret = NoSecret THEN "create" ELSE "boot"])
  /\ UNCHANGED <<serviceCIDR, secret, mounted, caBundle, leader, expiries, crashes>>

\* Mutant: an existing Secret is emptied.
CreateOver(r) ==
  /\ replica[r].pc = "create"
  /\ secret' = [cert |-> 0, valid |-> FALSE]
  /\ Set(r, [replica[r] EXCEPT !.pc = "boot"])
  /\ UNCHANGED <<serviceCIDR, mounted, caBundle, leader, expiries, crashes>>

\* Mutant: the Secret is left to the rotator.
NoCreate(r) ==
  /\ replica[r].pc = "create"
  /\ Set(r, [replica[r] EXCEPT !.pc = "boot"])
  /\ UNCHANGED <<serviceCIDR, secret, mounted, caBundle, leader, expiries, crashes>>

\* ... where another replica may have been first.
CreateSecret(r) ==
  /\ replica[r].pc = "create"
  /\ secret' = IF secret = NoSecret THEN [cert |-> 0, valid |-> FALSE] ELSE secret
  /\ Set(r, [replica[r] EXCEPT !.pc = "boot"])
  /\ UNCHANGED <<serviceCIDR, mounted, caBundle, leader, expiries, crashes>>
-----------------------------------------------------------------------------
(* The rotator: once before anything else, then periodically.              *)

\* refreshCertIfNeeded reads the Secret; without one a starting process ends.
ReadCert(r) ==
  /\ \/ /\ replica[r].pc = "boot"
        /\ IF secret = NoSecret THEN Exit(r)
           ELSE Set(r, IF secret.valid THEN [replica[r] EXCEPT !.pc = "up"]
                       ELSE [replica[r] EXCEPT !.pc = "refresh", !.refresh = secret.cert])
     \/ /\ Up(r) /\ replica[r].refresh = None
        /\ secret # NoSecret /\ ~secret.valid
        /\ Set(r, [replica[r] EXCEPT !.refresh = secret.cert])
  /\ UNCHANGED <<serviceCIDR, secret, mounted, caBundle, leader, expiries, crashes>>

\* It writes a new certificate and exits (RestartOnSecretRefresh), or meets
\* the write of another replica and reads again.
WriteCert(r) ==
  /\ replica[r].refresh # None
  /\ IF replica[r].refresh = secret.cert
     THEN secret' = [cert |-> secret.cert + 1, valid |-> TRUE] /\ Exit(r)
     ELSE /\ Set(r, [replica[r] EXCEPT !.refresh = None, !.pc = IF @ = "refresh" THEN "boot" ELSE @])
          /\ UNCHANGED secret
  /\ UNCHANGED <<serviceCIDR, mounted, caBundle, leader, expiries, crashes>>

\* The rotator's controller (Reconcile, on an event of the Secret or of the
\* configuration) reads the CA of the Secret ...
ReadCA(r) ==
  /\ Running(r) /\ replica[r].ca = None /\ secret # NoSecret /\ secret.cert # 0
  /\ ~replica[r].injected \/ caBundle \notin {NoConfig, secret.cert}
  /\ Set(r, [replica[r] EXCEPT !.ca = secret.cert])
  /\ UNCHANGED <<serviceCIDR, secret, mounted, caBundle, leader, expiries, crashes>>

\* ... and puts it into the configuration (ensureCerts), by then perhaps no
\* longer the CA of the Secret.  Without a configuration it is done as well.
InjectCA(r) ==
  /\ replica[r].ca # None
  /\ caBundle' = IF caBundle = NoConfig THEN NoConfig ELSE replica[r].ca
  /\ Set(r, [replica[r] EXCEPT !.ca = None, !.injected = TRUE])
  /\ UNCHANGED <<serviceCIDR, secret, mounted, leader, expiries, crashes>>

\* ensureCertsMounted and ensureReady close the channel of Enable: the file
\* exists, whatever it holds.
CertReady(r) ==
  /\ Up(r) /\ ~replica[r].certReady
  /\ mounted[r] # NoFile /\ replica[r].injected
  /\ Set(r, [replica[r] EXCEPT !.certReady = TRUE])
  /\ UNCHANGED <<serviceCIDR, secret, mounted, caBundle, leader, expiries, crashes>>
-----------------------------------------------------------------------------
(* The webhooks.                                                           *)

\* SetupWhenReady runs the set-up functions in order.
Register(r) ==
  /\ Up(r) /\ replica[r].certReady /\ Len(replica[r].registered) < Len(Webhooks)
  /\ Set(r, [replica[r] EXCEPT !.registered = Append(@, Webhooks[Len(@) + 1])])
  /\ UNCHANGED <<serviceCIDR, secret, mounted, caBundle, leader, expiries, crashes>>

\* Mutant: ready with the certificates.
DoneWhenCertReady(r) ==
  /\ Up(r) /\ replica[r].certReady /\ ~replica[r].done
  /\ Set(r, [replica[r] EXCEPT !.done = TRUE])
  /\ UNCHANGED <<serviceCIDR, secret, mounted, caBundle, leader, expiries, crashes>>

\* Then it closes the channel behind readyz.
Done(r) ==
  /\ Up(r) /\ Len(replica[r].registered) = Len(Webhooks) /\ ~replica[r].done
  /\ Set(r, [replica[r] EXCEPT !.done = TRUE])
  /\ UNCHANGED <<serviceCIDR, secret, mounted, caBundle, leader, expiries, crashes>>

\* The first registration starts the webhook server, which loads the key
\* pair and ends the process if it cannot.
Serve(r) ==
  /\ Up(r) /\ replica[r].registered # <<>> /\ ~replica[r].serving
  /\ IF mounted[r] = 0 THEN Exit(r) ELSE Set(r, [replica[r] EXCEPT !.serving = TRUE])
  /\ UNCHANGED <<serviceCIDR, secret, mounted, caBundle, leader, expiries, crashes>>
-----------------------------------------------------------------------------
(* The environment.                                                        *)

\* The kubelet brings the volume up to date; the server reloads the file.
Mount(r) ==
  /\ secret # NoSecret /\ mounted[r] # secret.cert
  /\ mounted' = [mounted EXCEPT ![r] = secret.cert]
  /\ UNCHANGED <<serviceCIDR, secret, caBundle, replica, leader, expiries, crashes>>

\* The chart's ValidatingWebhookConfiguration arrives.
Configure ==
  /\ caBundle = NoConfig /\ caBundle' = None
  /\ UNCHANGED <<serviceCIDR, secret, mounted, replica, leader, expiries, crashes>>

Expire ==
  /\ expiries < MaxExpiries /\ secret # NoSecret /\ secret.valid
  /\ secret' = [secret EXCEPT !.valid = FALSE]
  /\ expiries' = expiries + 1
  /\ UNCHANGED <<serviceCIDR, mounted, caBundle, replica, leader, crashes>>

\* A killed process, a failing request, a backoff that ends.
Crash(r) ==
  /\ crashes < MaxCrashes /\ replica[r].pc # "setup"
  /\ Exit(r)
  /\ crashes' = crashes + 1
  /\ UNCHANGED <<serviceCIDR, secret, mounted, caBundle, leader, expiries>>

\* The lease of a process that is gone expires.
Lead(r) ==
  /\ Running(r)
  /\ leader \notin {q \in Replicas : Running(q)}
  /\ leader' = r
  /\ UNCHANGED <<serviceCIDR, secret, mounted, caBundle, replica, expiries, crashes>>
-----------------------------------------------------------------------------
Step(r) ==
  \/ Setup(r) \/ GetSecret(r) \/ CreateSecret(r)
  \/ ReadCert(r) \/ WriteCert(r) \/ ReadCA(r) \/ InjectCA(r) \/ CertReady(r)
  \/ Register(r) \/ Done(r) \/ Serve(r)

OperatorNext ==
  \/ \E r \in Replicas : Step(r) \/ Mount(r) \/ Lead(r) \/ Crash(r)
  \/ Configure \/ Expire

OperatorSpec == OperatorInit /\ [][OperatorNext]_operatorVars
-----------------------------------------------------------------------------
\* readyz of a replica answers ok only once all three webhooks are registered
\* (SetupWithManager: "completed registration, not just certificates") and
\* the rotator of this process has seen a certificate and has injected its CA,
\* or found no configuration to inject it into.
ReadyMeansRegistered ==
  \A r \in Replicas : replica[r].done =>
    /\ replica[r].registered = Webhooks
    /\ replica[r].injected /\ mounted[r] # NoFile /\ secret.cert # 0

\* Replicas that start together bootstrap one certificate: a certificate in
\* the Secret is only ever replaced after it has expired, and by its
\* successor.
CertificateKept ==
  [][secret # NoSecret /\ secret' # secret =>
       \/ secret'.cert = secret.cert /\ ~secret'.valid
       \/ ~secret.valid /\ secret' = [cert |-> secret.cert + 1, valid |-> TRUE]]_operatorVars

\* What replicas that race, crash, restart on a refresh, inject a CA that has
\* been replaced, miss the configuration or start the server with an empty file
\* come to in the end: every one is ready and serves the
\* certificate that the API server trusts, and one of them reconciles.
Settled ==
  parseServiceCIDRs(serviceCIDR) # Bad =>
    /\ \A r \in Replicas : /\ replica[r].done /\ replica[r].serving
                           /\ mounted[r] = caBundle /\ caBundle = secret.cert /\ secret.valid
    /\ leader # None
=============================================================================
