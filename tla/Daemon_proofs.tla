----------------------------- MODULE Daemon_proofs -----------------------------
(***************************************************************************)
(* Theorems about Daemon for any set of configurations, whichever of them  *)
(* meet faults and traffic, and any set of background jobs; and about the  *)
(* lists daemons load when they start, Names, for any number of daemons,   *)
(* entries, seeds and edits.                                               *)
(***************************************************************************)
EXTENDS Daemon, Names, TLAPS

(***************************************************************************)
(* The process.                                                            *)
(***************************************************************************)
BootNames == {"validate", "database", "migrate", "fold", "secrets", "purge",
              "sweeps", "counters", "telemetry", "deps", "server"}

ServingSteps == {"select", "shut_metrics", "shut_health", "shut_app"}
Draining == {"drain", "await", "stop", "join"}
Closing == {"unwind", "refused", "exited"}

(***************************************************************************)
(* The inductive invariant.                                                *)
(***************************************************************************)
\* The part of the types the argument rests on.
Shape ==
  /\ main \in BootNames \cup {"serve", "killed"} \cup ServingSteps \cup Draining \cup Closing
  /\ job \in [Jobs -> {"off", "wait", "pass", "returned"}]
  /\ listener \in [Listeners -> {"off", "starting", "shut", "listening", "own", "taken", "closed"}]

\* Before serve starts them there are no jobs, no listener and no request.
NotStarted ==
  main \in BootNames \cup {"serve"} =>
    /\ \A j \in Jobs : job[j] = "off"
    /\ listener["app"] = "off" /\ errCh = "empty" /\ ~handling

\* The joins come before the deferred calls of run.
Joined == main \in Closing => \A j \in Jobs : job[j] \in {"off", "returned"}

\* Until it is shut down, the application listener sends only an error, and has
\* then failed; from the drain on it accepts nothing.
Accepting ==
  /\ main \in ServingSteps =>
       /\ listener["app"] \notin {"shut", "closed"}
       /\ errCh # "empty" => listener["app"] \in {"own", "taken"}
  /\ main \in Draining \cup Closing => listener["app"] \notin {"listening", "starting"}

\* Only a listener that has been bound has requests, and after the drain only
\* one that failed or ran out of time still has.
Handled ==
  /\ handling => listener["app"] \in {"listening", "taken", "closed"}
  /\ main = "await" => ~handling
  /\ main \in {"stop", "join"} \cup Closing => (handling => grace \/ listener["app"] = "taken")

DaemonInv == Shape /\ NotStarted /\ Joined /\ Accepting /\ Handled

(***************************************************************************)
(* The steps of run.                                                       *)
(***************************************************************************)
\* Boot lists the names, and run goes from one to the next and then to serve.
LEMMA BootIs ==
  /\ Range(Boot) = BootNames
  /\ \A m \in BootNames : Successor(m) \in BootNames \cup {"serve"}
<1>1. Len(Boot) = 11 /\ DOMAIN Boot = 1 .. 11
  BY DEF Boot
<1>2. /\ Boot[1] = "validate" /\ Boot[2] = "database" /\ Boot[3] = "migrate"
      /\ Boot[4] = "fold" /\ Boot[5] = "secrets" /\ Boot[6] = "purge"
      /\ Boot[7] = "sweeps" /\ Boot[8] = "counters" /\ Boot[9] = "telemetry"
      /\ Boot[10] = "deps" /\ Boot[11] = "server"
  BY Zenon DEF Boot
<1>3. /\ \A i \in 1 .. 11 : Boot[i] \in BootNames
      /\ \A m \in BootNames : \E i \in 1 .. 11 : Boot[i] = m
  <2>1. \A i \in 1 .. 11 : i \in {1, 2, 3, 4, 5, 6, 7, 8, 9, 10, 11}
    OBVIOUS
  <2>2. QED
    BY <1>2, <2>1 DEF BootNames
<1>4. ASSUME NEW m \in BootNames PROVE Successor(m) \in BootNames \cup {"serve"}
  <2> DEFINE i == CHOOSE i \in DOMAIN Boot : Boot[i] = m
  <2>1. \E n \in DOMAIN Boot : Boot[n] = m
    BY <1>1, <1>3, Zenon
  <2>2. i \in 1 .. 11
    BY <1>1, <2>1, Zenon
  <2>3. Successor(m) = IF i = Len(Boot) THEN "serve" ELSE Boot[i + 1]
    BY Zenon DEF Successor
  <2> HIDE DEF i
  <2>4. i # 11 => i + 1 \in 1 .. 11
    BY <2>2
  <2>5. QED
    BY <1>1, <1>3, <2>2, <2>3, <2>4, Zenon
<1>5. QED
  BY <1>1, <1>3, <1>4, ZenonT(60) DEF Range

(***************************************************************************)
(* Every step keeps it.                                                    *)
(***************************************************************************)
\* Nothing has been opened and nothing runs.
LEMMA DaemonInit == Init => DaemonInv
BY Zenon DEF Init, Boot, DaemonInv, Shape, NotStarted, Joined, Accepting, Handled, BootNames,
       ServingSteps, Draining, Closing, Listeners

\* Each step of run, serve, the listeners, the jobs and the requests keeps it.
LEMMA DaemonStep == DaemonInv /\ [Next]_vars => DaemonInv'
<1> SUFFICES ASSUME DaemonInv, [Next]_vars PROVE DaemonInv'
  BY Zenon
<1> USE BootIs DEF DaemonInv, Shape, NotStarted, Joined, Accepting, Handled, BootNames,
        ServingSteps, Draining, Closing, Listeners
<1>1. ASSUME BootStep PROVE DaemonInv'
  BY <1>1, ZenonT(60) DEF BootStep, Booting
<1>2. ASSUME BootRefused PROVE DaemonInv'
  BY <1>2, ZenonT(60) DEF BootRefused, Booting
<1>3. ASSUME BootFault PROVE DaemonInv'
  BY <1>3, Zenon DEF BootFault, Booting
<1>4. ASSUME StartServing PROVE DaemonInv'
  BY <1>4, Zenon DEF StartServing
<1>5. ASSUME SelectError PROVE DaemonInv'
  BY <1>5, Zenon DEF SelectError
<1>6. ASSUME SelectDone PROVE DaemonInv'
  BY <1>6, Zenon DEF SelectDone
<1>7. ASSUME ShutMetrics PROVE DaemonInv'
  BY <1>7, Zenon DEF ShutMetrics, Shut
<1>8. ASSUME ShutHealth PROVE DaemonInv'
  BY <1>8, Zenon DEF ShutHealth, Shut
<1>9. ASSUME ShutApp PROVE DaemonInv'
  BY <1>9, ZenonT(60) DEF ShutApp, Shut
<1>10. ASSUME Drained PROVE DaemonInv'
  BY <1>10, Zenon DEF Drained
<1>11. ASSUME DrainExpires PROVE DaemonInv'
  BY <1>11, Zenon DEF DrainExpires
<1>12. ASSUME AwaitListener PROVE DaemonInv'
  BY <1>12, Zenon DEF AwaitListener
<1>13. ASSUME DeferredStop PROVE DaemonInv'
  BY <1>13, Zenon DEF DeferredStop
<1>14. ASSUME Join PROVE DaemonInv'
  BY <1>14, Zenon DEF Join
<1>15. ASSUME Unwind PROVE DaemonInv'
  BY <1>15, ZenonT(60) DEF Unwind
<1>16. ASSUME NEW l \in Listeners, NEW free \in BOOLEAN, ListenAndServe(l, free) PROVE DaemonInv'
  BY <1>16 DEF ListenAndServe, Ended
<1>17. ASSUME ListenerDies PROVE DaemonInv'
  BY <1>17, ZenonT(60) DEF ListenerDies
<1>18. ASSUME Request PROVE DaemonInv'
  BY <1>18, Zenon DEF Request, Ended
<1>19. ASSUME Response PROVE DaemonInv'
  BY <1>19, ZenonT(60) DEF Response, Ended
<1>20. ASSUME NEW j \in Jobs, ~Ended /\ JobStep(j) PROVE DaemonInv'
  BY <1>20 DEF Ended, JobStep, runJob, runGuarded, jobReturns
<1>21. ASSUME Signal PROVE DaemonInv'
  BY <1>21, ZenonT(60) DEF Signal, Ended
<1>22. ASSUME FatalSignal PROVE DaemonInv'
  BY <1>22, Zenon DEF FatalSignal, Ended
<1>23. CASE UNCHANGED vars
  BY <1>23, ZenonT(60) DEF vars
<1>24. QED
  BY <1>1, <1>2, <1>3, <1>4, <1>5, <1>6, <1>7, <1>8, <1>9, <1>10, <1>11, <1>12, <1>13, <1>14, <1>15, <1>16, <1>17, <1>18, <1>19, <1>20, <1>21, <1>22, <1>23, ZenonT(60) DEF Next, MainStep, Stopped

(***************************************************************************)
(* The theorem.                                                            *)
(***************************************************************************)
\* Whenever a signal, a failing listener or a refused start ends the daemon, the
\* database is closed only after every purge and sweep has returned, and under no
\* request but one the drain gave up on or a failed listener left (serve's
\* deferred joins run before run's deferred Close).
THEOREM DatabaseOutlivesWork == Spec => []DBOutlivesWork
<1>1. DaemonInv => DBOutlivesWork
  BY Zenon DEF DaemonInv, Joined, Handled, Closing, DBOutlivesWork
<1>2. Spec => Init /\ [][Next]_vars
  BY PTL DEF Spec
<1>3. QED
  BY <1>1, <1>2, DaemonInit, DaemonStep, PTL

(***************************************************************************)
(* What Validate lets through.                                             *)
(***************************************************************************)
\* A reference that is given and well formed resolves, or its secret is missing.
LEMMA GivenRef ==
  ASSUME NEW c \in Configs, Validate(c), NEW ref \in allRefs(c), Given(ref)
  PROVE  /\ Resolves(ref) \/ ref = "missing"
         /\ ref = "good" \/ ref \in {"missing", "short"}
         /\ ~Resolves(ref) \/ ref # "good" => BeyondValidate(c)
<1>1. ref \in Refs /\ ref # "malformed" /\ ref # "none"
  BY ConfigsAssumption, Zenon DEF Validate, validateRefs, Given
<1>2. (Resolves(ref) \/ ref = "missing") /\ (ref = "good" \/ ref \in {"missing", "short"})
  BY <1>1, Zenon DEF Refs, Resolves
<1>3. ~Resolves(ref) \/ ref # "good" => {"missing", "short"} \cap allRefs(c) # {}
  BY <1>2, Zenon DEF Resolves
<1> QED
  BY <1>2, <1>3, Zenon DEF BeyondValidate

\* An interval that is neither zero nor negative is positive.
LEMMA PositiveSpans ==
  ASSUME NEW c \in Configs, Validate(c)
  PROVE  /\ c.audit_purge_interval # "zero" => Positive(c.audit_purge_interval)
         /\ c.handle_quarantine_sweep_interval # "zero" => Positive(c.handle_quarantine_sweep_interval)
         /\ c.access_key_grace_sweep_interval # "zero" => Positive(c.access_key_grace_sweep_interval)
<1>1. /\ c.audit_purge_interval \in Spans /\ c.handle_quarantine_sweep_interval \in Spans
      /\ c.access_key_grace_sweep_interval \in Spans
  BY ConfigsAssumption, Zenon
<1>2. /\ c.audit_purge_interval # "negative" /\ c.handle_quarantine_sweep_interval # "negative"
      /\ c.access_key_grace_sweep_interval # "negative"
  BY Zenon DEF Validate, validateRetention
<1> QED
  BY <1>1, <1>2, Zenon DEF Spans, Positive

\* The database and the secrets (openDatabase, ResolveRequiredSecrets).
LEMMA SecretsBlamed ==
  ASSUME NEW c \in Configs, Validate(c), ~openDatabase(c) \/ ~ResolveRequiredSecrets(c)
  PROVE  BeyondValidate(c)
<1>1. c.driver = "postgres" => Given(c.dsn_ref)
  BY Zenon DEF Validate, validateDatabase
<1>2. c.mode = "cloudflare_origin" => Given(c.api_token_ref)
  BY Zenon DEF Validate, validateTLS, validateCloudflareOrigin
<1>3. prod(c) => /\ Given(c.token_signing_key_ref) /\ Given(c.admin_token_signing_key_ref)
                 /\ Given(c.access_key_pepper_ref)
  BY Zenon DEF Validate, validateAuth
<1>4. {c.api_token_ref, c.dsn_ref, c.token_signing_key_ref, c.admin_token_signing_key_ref,
       c.access_key_pepper_ref, c.shared_password_ref} \subseteq allRefs(c)
  BY Zenon DEF allRefs
<1>5. CASE ~openDatabase(c)
  <2>1. c.dsn_ref \in allRefs(c) /\ Given(c.dsn_ref) /\ ~Resolves(c.dsn_ref)
    BY <1>1, <1>4, <1>5, Zenon DEF openDatabase, postgresDSN
  <2> QED
    BY <2>1, GivenRef, Zenon
<1>6. CASE ~ResolveRequiredSecrets(c)
  <2>1. PICK ref \in RequiredSecretRefs(c) : ~Resolves(ref)
    BY <1>6, Zenon DEF ResolveRequiredSecrets
  <2>2. ref \in allRefs(c) /\ Given(ref)
    BY <1>1, <1>2, <1>3, <1>4, Zenon DEF RequiredSecretRefs
  <2> QED
    BY <2>1, <2>2, GivenRef, Zenon
<1> QED
  BY <1>5, <1>6, Zenon

\* The purge and the sweeps (newRetentionScheduler, newSweepRunner).
LEMMA JobsBlamed ==
  ASSUME NEW c \in Configs, Validate(c)
  PROVE  newRetentionScheduler(c) /\ (~newSweepRunner(c) => BeyondValidate(c))
<1>1. newRetentionScheduler(c)
  BY PositiveSpans, Zenon DEF newRetentionScheduler, Validate, validateRetention
<1>2. addHandleQuarantineSweep(c)
  BY PositiveSpans, Zenon DEF addHandleQuarantineSweep
<1>3. ~addAccessKeyGraceSweep(c) => BeyondValidate(c)
  <2> SUFFICES ASSUME ~addAccessKeyGraceSweep(c) PROVE BeyondValidate(c)
    BY Zenon
  <2>1. Positive(c.access_key_grace_sweep_interval) /\ ~newAccessKeySweepService(c)
    BY PositiveSpans, Zenon DEF addAccessKeyGraceSweep
  <2>2. Given(c.access_key_pepper_ref) /\ c.access_key_grace_window = "fine"
    BY <2>1, Zenon DEF Validate, validateRetention, validateAuth
  <2>3. c.access_key_pepper_ref # "good"
    BY <2>1, <2>2, Zenon DEF newAccessKeySweepService, Positive
  <2>4. c.access_key_pepper_ref \in allRefs(c)
    BY Zenon DEF allRefs
  <2> QED
    BY <2>2, <2>3, <2>4, GivenRef, Zenon
<1> QED
  BY <1>1, <1>2, <1>3, Zenon DEF newSweepRunner

\* The handlers' dependencies (buildAPIDeps).
LEMMA DepsBlamed ==
  ASSUME NEW c \in Configs, Validate(c), ~buildAPIDeps(c)
  PROVE  BeyondValidate(c)
<1>1. prod(c) => /\ Given(c.token_signing_key_ref) /\ Given(c.admin_token_signing_key_ref)
                 /\ Given(c.access_key_pepper_ref)
  BY Zenon DEF Validate, validateAuth
<1>2. ASSUME NEW ref \in {c.token_signing_key_ref, c.admin_token_signing_key_ref, c.access_key_pepper_ref},
             ~KeyMaterial(c, ref)
      PROVE  BeyondValidate(c)
  <2>1. ref \in allRefs(c)
    BY <1>2, Zenon DEF allRefs
  <2>2. prod(c) => Given(ref)
    BY <1>1, <1>2, Zenon
  <2>3. Given(ref) /\ ref # "good"
    BY <1>2, <2>2, Zenon DEF KeyMaterial
  <2> QED
    BY <2>1, <2>3, GivenRef, Zenon
<1>3. ~newNamePolicy(c) => BeyondValidate(c)
  BY Zenon DEF newNamePolicy, BeyondValidate
<1> QED
  BY <1>2, <1>3, Zenon DEF buildAPIDeps, newPublisher, mountOwnerManagement, mountAdminIdentifier, accessKeyPepper, tokenSigningKey, adminTokenSigningKey

\* The DNS vendor's constructor (newDNSProvider, NewRFC2136).
LEMMA DNSBlamed ==
  ASSUME NEW c \in Configs, Validate(c), validateACMEDNS(c), ~newDNSProvider(c)
  PROVE  BeyondValidate(c)
<1>1. /\ c.dns_mode = "api" /\ validateACMEDNSCredentials(c)
      /\ c.dns_provider = "rfc2136" => validateACMEDNSRFC2136(c)
  BY Zenon DEF validateACMEDNS, newDNSProvider
<1>2. c.credentials_refs \in Seq(Refs) /\ c.tsig \in {"unset", "malformed", "fine"}
  <2>1. ACMEDNSConfig.tsig = {"unset", "malformed", "fine"}
    BY DEF ACMEDNSConfig
  <2> QED
    BY <2>1, ConfigsAssumption, Zenon
<1>3. \A ref \in Range(DNSCredentials(c)) : ref \in allRefs(c) /\ Given(ref)
  <2>1. CASE c.credentials_refs = <<>>
    <3>1. Range(DNSCredentials(c)) = {c.credentials_ref}
      BY <2>1 DEF DNSCredentials, Range
    <3> QED
      BY <1>1, <2>1, <3>1, Zenon DEF validateACMEDNSCredentials, allRefs
  <2>2. CASE c.credentials_refs # <<>>
    BY <1>1, <2>2, Zenon DEF DNSCredentials, validateACMEDNSCredentials, allRefs, Given
  <2> QED
    BY <2>1, <2>2, Zenon
<1>5. ~resolveDNSCredentials(c) => BeyondValidate(c)
  BY <1>3, GivenRef, Zenon DEF resolveDNSCredentials
<1>6. ~Single(c) => Len(c.credentials_refs) > 1
  <2>1. CASE c.credentials_refs = <<>>
    BY <2>1 DEF Single, DNSCredentials
  <2>2. CASE c.credentials_refs # <<>>
    <3>1. Len(c.credentials_refs) \in Nat /\ Len(c.credentials_refs) # 0
      BY <1>2, <2>2
    <3>2. \A n \in Nat : n # 0 => n = 1 \/ n > 1
      OBVIOUS
    <3>3. Len(c.credentials_refs) = 1 \/ Len(c.credentials_refs) > 1
      BY <3>1, <3>2, Zenon
    <3> QED
      BY <2>2, <3>3, Zenon DEF Single, DNSCredentials
  <2> QED
    BY <2>1, <2>2, Zenon
<1>7. c.dns_provider = "rfc2136" => c.tsig = "fine" \/ c.tsig = "malformed"
  BY <1>1, <1>2, Zenon DEF validateACMEDNSRFC2136
<1>8. ~Single(c) \/ c.tsig = "malformed" \/ c.dns_provider = "unknown" => BeyondValidate(c)
  BY <1>6, Zenon DEF BeyondValidate
<1> QED
  BY <1>1, <1>5, <1>7, <1>8, Zenon DEF newDNSProvider, NewRFC2136

\* The server and its certificates (buildServer, newCertProvider).
LEMMA ServerBlamed ==
  ASSUME NEW c \in Configs, Validate(c), ~buildServer(c)
  PROVE  BeyondValidate(c)
<1>1. c.mode # "upstream" /\ ~newCertProvider(c)
  BY Zenon DEF buildServer, buildTLSConfig, Validate, validateTLS
<1>2. \/ c.mode = "acme" /\ validateACME(c)
      \/ c.mode = "cloudflare_origin" /\ validateCloudflareOrigin(c)
      \/ c.mode \in {"manual", "csr"}
      \/ c.mode = "self_signed" /\ (prod(c) => c.allow_self_signed)
  BY <1>1, Zenon DEF Validate, validateTLS
<1>3. CASE c.mode = "acme" /\ validateACME(c)
  <2>1. c.accept_tos /\ c.solver = "dns_01" /\ ~newDNSProvider(c) /\ validateACMEDNS(c)
    BY <1>1, <1>3, Zenon DEF newCertProvider, newACMEProviderForSolver, validateACME
  <2> QED
    BY <2>1, DNSBlamed, Zenon
<1>4. CASE c.mode = "cloudflare_origin" /\ validateCloudflareOrigin(c)
  <2>1. Given(c.api_token_ref) /\ ~Resolves(c.api_token_ref) /\ c.api_token_ref \in allRefs(c)
    BY <1>1, <1>4, Zenon DEF newCertProvider, validateCloudflareOrigin, allRefs
  <2> QED
    BY <2>1, GivenRef, Zenon
<1>5. CASE c.mode \in {"manual", "csr"} \/ (c.mode = "self_signed" /\ (prod(c) => c.allow_self_signed))
  BY <1>1, <1>5, Zenon DEF newCertProvider
<1> QED
  BY <1>2, <1>3, <1>4, <1>5, Zenon

\* Whatever constructor refuses, the configuration has one of the known faults.
LEMMA RefusalBlamed ==
  ASSUME NEW c \in Configs, Validate(c), NEW step, ~Accepts(step, c)
  PROVE  BeyondValidate(c)
<1>1. ~newSharedCounterStore(c) => BeyondValidate(c)
  BY Zenon DEF newSharedCounterStore, BeyondValidate
<1>2. \/ ~openDatabase(c) \/ ~ResolveRequiredSecrets(c) \/ ~newRetentionScheduler(c) \/ ~newSweepRunner(c)
      \/ ~newSharedCounterStore(c) \/ ~buildAPIDeps(c) \/ ~buildServer(c)
  BY Zenon DEF Accepts
<1> QED
  BY <1>1, <1>2, SecretsBlamed, JobsBlamed, DepsBlamed, ServerBlamed, Zenon

\* Of addresses in figures, the comparison of texts finds every two that collide.
LEMMA OverlapSeen ==
  ASSUME NEW a, NEW b, Collide(a, b), InFigures(a), InFigures(b)
  PROVE  addrsOverlap(a, b) /\ addrsOverlap(b, a)
<1>1. a.port = b.port
  BY Zenon DEF Collide, InFigures, PortNumber
<1>2. isWildcardHost(a) \/ (Interface(a) = a.host /\ a.host # "0.0.0.0")
  <2>1. CASE a.host \in {"blank", "0.0.0.0", "::"}
    BY <2>1, Zenon DEF isWildcardHost
  <2>2. CASE a.host \notin {"blank", "0.0.0.0", "::"}
    <3>1. a.host \notin {"blank", "0.0.0.0", "::", "::0"} /\ a.host # "localhost"
      BY <2>2, Zenon DEF InFigures
    <3>2. Interface(a) = a.host
      BY <3>1 DEF Interface
    <3> QED
      BY <2>2, <3>2, Zenon
  <2> QED
    BY <2>1, <2>2, Zenon
<1>3. isWildcardHost(b) \/ (Interface(b) = b.host /\ b.host # "0.0.0.0")
  <2>1. CASE b.host \in {"blank", "0.0.0.0", "::"}
    BY <2>1, Zenon DEF isWildcardHost
  <2>2. CASE b.host \notin {"blank", "0.0.0.0", "::"}
    <3>1. b.host \notin {"blank", "0.0.0.0", "::", "::0"} /\ b.host # "localhost"
      BY <2>2, Zenon DEF InFigures
    <3>2. Interface(b) = b.host
      BY <3>1 DEF Interface
    <3> QED
      BY <2>2, <3>2, Zenon
  <2> QED
    BY <2>1, <2>2, Zenon
<1> QED
  BY <1>1, <1>2, <1>3, Zenon DEF Collide, addrsOverlap

\* In figures, the application listener's address is taken by no listener of the
\* daemon but the scrape listener in upstream mode.
LEMMA NoOwnCollision ==
  ASSUME Validate(cfg), NEW k \in Listeners \ {"app"}, Collide(AddrOf(k), AddrOf("app")),
         InFigures(AddrOf(k)), InFigures(AddrOf("app"))
  PROVE  k = "metrics" /\ cfg.mode = "upstream"
<1>1. AddrOf("app") = AppAddr(cfg)
  BY Zenon DEF AddrOf
<1>2. CASE k = "health"
  <2>1. AddrOf(k) = cfg.health_listen_addr
    BY <1>2, Zenon DEF AddrOf
  <2>2. cfg.health_listen_addr # Unset
    BY <2>1, Zenon DEF Collide, Parses
  <2>3. activeListeners(cfg) = <<AppAddr(cfg)>> \o <<cfg.health_listen_addr>>
    BY <2>2, Zenon DEF activeListeners
  <2>4. ~addrsOverlap(AppAddr(cfg), cfg.health_listen_addr)
    <3>1. \A i, j \in DOMAIN activeListeners(cfg) :
            i < j => ~addrsOverlap(activeListeners(cfg)[i], activeListeners(cfg)[j])
      BY Zenon DEF Validate, validateListenerOverlap
    <3>2. /\ 1 \in DOMAIN activeListeners(cfg) /\ 2 \in DOMAIN activeListeners(cfg) /\ 1 < 2
          /\ activeListeners(cfg)[1] = AppAddr(cfg) /\ activeListeners(cfg)[2] = cfg.health_listen_addr
      BY <2>3, SMT
    <3> QED
      BY <3>1, <3>2, Zenon
  <2> QED
    BY <1>1, <2>1, <2>4, OverlapSeen, Zenon
<1>3. CASE k = "metrics"
  <2>1. AddrOf(k) = cfg.prometheus_addr
    BY <1>3, Zenon DEF AddrOf
  <2>2. cfg.prometheus_addr # Unset
    BY <2>1, Zenon DEF Collide, Parses
  <2>3. ~addrsOverlap(cfg.prometheus_addr, cfg.listen_addr)
    BY <2>2, Zenon DEF Validate, validateTelemetry, validatePrometheus
  <2>4. addrsOverlap(cfg.prometheus_addr, AppAddr(cfg))
    BY <1>1, <2>1, OverlapSeen, Zenon
  <2> QED
    BY <1>3, <2>3, <2>4, Zenon DEF AppAddr
<1> QED
  BY <1>2, <1>3, Zenon DEF Listeners

\* What the configuration is known to satisfy as run goes on: it is validated, or
\* nothing has started and nothing will.
Unstarted == main \in {"validate", "exited", "killed"} /\ \A l \in Listeners : listener[l] = "off"
Yields ==
  \E l \in Listeners \ {"app"} :
    /\ Collide(AddrOf(l), AddrOf("app"))
    /\ ~InFigures(AddrOf(l)) \/ ~InFigures(AddrOf("app")) \/ (l = "metrics" /\ cfg.mode = "upstream")

ConfigInv ==
  /\ cfg \in Configs
  /\ Validate(cfg) \/ Unstarted
  /\ main = "refused" => BeyondValidate(cfg)
  /\ listener["app"] = "own" => Yields

\* A step that starts no listener and is not about start-up keeps it.
LEMMA ConfigFrame ==
  ASSUME ConfigInv, cfg' = cfg, listener'["app"] = "own" => listener["app"] = "own",
         main' = "refused" => main = "refused",
         main \in {"validate", "exited", "killed"} => main' \in {"validate", "exited", "killed"} /\ listener' = listener
  PROVE  ConfigInv'
<1>1. Validate(cfg)' \/ Unstarted'
  <2>1. Validate(cfg) => Validate(cfg)'
    BY Zenon
  <2>2. Unstarted => Unstarted'
    BY Zenon DEF Unstarted
  <2> QED
    BY <2>1, <2>2, Zenon DEF ConfigInv
<1>2. (BeyondValidate(cfg) => BeyondValidate(cfg)') /\ (Yields => Yields')
  BY Zenon DEF Yields, AddrOf
<1> QED
  BY <1>1, <1>2, Zenon DEF ConfigInv

\* Every step keeps it.
LEMMA ConfigStep == DaemonInv /\ ConfigInv /\ [Next]_vars => ConfigInv'
<1> SUFFICES ASSUME DaemonInv, ConfigInv, [Next]_vars PROVE ConfigInv'
  BY Zenon
<1>1. listener \in [Listeners -> {"off", "starting", "shut", "listening", "own", "taken", "closed"}]
  BY Zenon DEF DaemonInv, Shape
<1>2. ASSUME BootStep PROVE ConfigInv'
  <2>1. /\ cfg' = cfg /\ listener' = listener /\ main \in BootNames /\ main' = Successor(main)
        /\ Accepts(main, cfg)
    BY <1>2, BootIs, Zenon DEF BootStep, Booting
  <2>2. Validate(cfg)
    <3>1. main = "validate" => Validate(cfg)
      BY <2>1, Zenon DEF Accepts
    <3>2. main # "validate" => ~Unstarted
      BY <2>1, Zenon DEF BootNames, Unstarted
    <3> QED
      BY <3>1, <3>2, Zenon DEF ConfigInv
  <2>3. main' # "refused"
    <3>1. main' \in BootNames \cup {"serve"}
      BY <2>1, BootIs, Zenon
    <3> QED
      BY <3>1, Zenon DEF BootNames
  <2>4. Validate(cfg)' /\ (Yields => Yields')
    BY <2>1, <2>2, Zenon DEF Yields, AddrOf
  <2> QED
    BY <2>1, <2>3, <2>4, Zenon DEF ConfigInv
<1>3. ASSUME BootRefused PROVE ConfigInv'
  <2>1. /\ cfg' = cfg /\ listener' = listener /\ ~Accepts(main, cfg) /\ main \in BootNames
        /\ main' = IF main = "validate" THEN "exited" ELSE "refused"
    BY <1>3, BootIs, Zenon DEF BootRefused, Booting
  <2>2. CASE main = "validate"
    <3>1. main' = "exited" /\ main \in {"validate", "exited", "killed"} /\ main' # "refused"
      BY <2>1, <2>2, Zenon
    <3> QED
      BY <2>1, <3>1, ConfigFrame, Zenon
  <2>3. CASE main # "validate"
    <3>1. main \notin {"validate", "exited", "killed"}
      BY <2>1, <2>3, Zenon DEF BootNames
    <3>2. Validate(cfg) /\ cfg \in Configs
      BY <3>1, Zenon DEF ConfigInv, Unstarted
    <3>3. BeyondValidate(cfg)
      BY <2>1, <3>2, RefusalBlamed, Zenon
    <3>4. Validate(cfg)' /\ BeyondValidate(cfg)' /\ (Yields => Yields')
      BY <2>1, <3>2, <3>3, Zenon DEF Yields, AddrOf
    <3> QED
      BY <2>1, <3>2, <3>4, Zenon DEF ConfigInv
  <2> QED
    BY <2>2, <2>3, Zenon
<1>4. ASSUME NEW l \in Listeners, NEW free \in BOOLEAN, ListenAndServe(l, free) PROVE ConfigInv'
  <2>1. /\ cfg' = cfg /\ main' = main /\ listener[l] \in {"starting", "shut"}
        /\ listener' = [listener EXCEPT ![l] = IF TakenByOwn(l) THEN "own" ELSE
                          IF ~free THEN "taken" ELSE IF listener[l] = "shut" THEN "closed" ELSE "listening"]
    BY <1>4, Zenon DEF ListenAndServe
  <2>2. Validate(cfg)
    BY <2>1, Zenon DEF ConfigInv, Unstarted
  <2>3. listener'["app"] = "own" => listener["app"] = "own" \/ (l = "app" /\ TakenByOwn(l))
    BY <1>1, <2>1, Zenon DEF Listeners
  <2>4. l = "app" /\ TakenByOwn(l) => Yields
    <3> SUFFICES ASSUME l = "app", TakenByOwn(l) PROVE Yields
      BY Zenon
    <3>1. PICK k \in Listeners \ {"app"} : Collide(AddrOf(k), AddrOf("app"))
      BY Zenon DEF TakenByOwn
    <3> QED
      BY <2>2, <3>1, NoOwnCollision, Zenon DEF Yields, AddrOf
  <2>5. Validate(cfg)' /\ (Yields => Yields') /\ (BeyondValidate(cfg) => BeyondValidate(cfg)')
    BY <2>1, <2>2, Zenon DEF Yields, AddrOf
  <2> QED
    BY <2>1, <2>3, <2>4, <2>5, Zenon DEF ConfigInv
<1>5. ASSUME StartServing PROVE ConfigInv'
  <2>1. cfg' = cfg /\ main = "serve" /\ main' = "select" /\ listener'["app"] \in {"off", "starting"}
    BY <1>5, Zenon DEF StartServing, Listeners
  <2> QED
    BY <2>1, ConfigFrame, Zenon
<1>6. ASSUME ShutMetrics \/ ShutHealth \/ ShutApp PROVE ConfigInv'
  <2>1. /\ cfg' = cfg /\ main \in {"shut_metrics", "shut_health", "shut_app"}
        /\ main' \in {"shut_health", "shut_app", "drain"}
        /\ listener'["app"] = "own" => listener["app"] = "own"
    BY <1>1, <1>6, Zenon DEF ShutMetrics, ShutHealth, ShutApp, Shut, Listeners
  <2> QED
    BY <2>1, ConfigFrame, Zenon
<1>7. ASSUME ListenerDies PROVE ConfigInv'
  <2>1. cfg' = cfg /\ main = "select" /\ main' = main /\ (listener'["app"] = "own" => listener["app"] = "own")
    BY <1>1, <1>7, Zenon DEF ListenerDies, Listeners
  <2> QED
    BY <2>1, ConfigFrame, Zenon
<1>8. ASSUME BootFault PROVE ConfigInv'
  <2>1. cfg' = cfg /\ listener' = listener /\ main' = "unwind" /\ main \notin {"validate", "exited", "killed"}
    BY <1>8, BootIs, Zenon DEF BootFault, Booting, BootNames
  <2> QED
    BY <2>1, ConfigFrame, Zenon
<1>9. ASSUME \/ SelectError \/ SelectDone \/ Drained \/ DrainExpires \/ AwaitListener \/ DeferredStop
             \/ Join \/ Unwind \/ FatalSignal
      PROVE  ConfigInv'
  <2>1. /\ cfg' = cfg /\ listener' = listener
        /\ main' = "refused" => main = "refused"
        /\ main \in {"validate", "exited", "killed"} => main' \in {"validate", "exited", "killed"}
    BY <1>9, Zenon DEF SelectError, SelectDone, Drained, DrainExpires, AwaitListener, DeferredStop, Join, Unwind, FatalSignal
  <2> QED
    BY <2>1, ConfigFrame, Zenon
<1>10. ASSUME Request \/ Response \/ Signal \/ (\E j \in Jobs : JobStep(j)) \/ UNCHANGED vars PROVE ConfigInv'
  <2>1. cfg' = cfg /\ main' = main /\ listener' = listener
    BY <1>10, Zenon DEF Request, Response, Signal, JobStep, runJob, runGuarded, jobReturns, vars
  <2> QED
    BY <2>1, ConfigFrame, Zenon
<1> QED
  BY <1>2, <1>3, <1>4, <1>5, <1>6, <1>7, <1>8, <1>9, <1>10, Zenon DEF Next, MainStep, Stopped

\* Whatever configuration the operator writes: when Validate accepts it, a later
\* refusal to start is for one of the reasons BeyondValidate lists, and the
\* application listener loses its address to another listener of the daemon only
\* if one of the two is not in figures, or to the scrape listener in upstream mode
\* (Validate against run's constructors and serve's listeners).
THEOREM ValidatedConfigsRun == Spec => []ValidatedRuns
<1>1. Init => ConfigInv
  <2> SUFFICES ASSUME Init PROVE ConfigInv
    BY Zenon
  <2>1. cfg \in Configs /\ main = "validate" /\ \A l \in Listeners : listener[l] = "off"
    BY Zenon DEF Init, Boot
  <2>2. listener["app"] = "off"
    BY <2>1, Zenon DEF Listeners
  <2> QED
    BY <2>1, <2>2, Zenon DEF ConfigInv, Unstarted
<1>2. ConfigInv => ValidatedRuns
  BY Zenon DEF ConfigInv, ValidatedRuns, BeyondValidate, Yields
<1>3. Spec => Init /\ [][Next]_vars
  BY PTL DEF Spec
<1>4. QED
  BY <1>1, <1>2, <1>3, DaemonInit, DaemonStep, ConfigStep, PTL

(***************************************************************************)
(* The lists every daemon of a deployment composes when it starts and      *)
(* edits while it serves: Names.  What every daemon, row and edit in       *)
(* progress satisfies:                                                     *)
(***************************************************************************)
\* A daemon is down, or enforces two lists composed from a seed.
ListsHeld(l) ==
  l.up => /\ l.up = TRUE
          /\ l = [up |-> TRUE, allow |-> l.allow, term |-> l.term, from |-> l.from]

\* The edit of a list and a skeleton that lets more names through.
Weaker(k, state) ==
  \/ k[1] = "allow" /\ state = "present"
  \/ k[1] = "term" /\ state = "removed"

\* A row of list_overrides is of the skeleton it is keyed by, is what some edit
\* in doubt may have left, and if it weakens a list the audit log records it.
RowHeld(k) ==
  /\ k = <<k[1], k[2]>>
  /\ overrides[k].state \in {"present", "removed"}
  /\ Skeleton(overrides[k].entry) = k[2]
  /\ Weaker(k, overrides[k].state) => <<k[1], k[2], overrides[k].state>> \in audited
  /\ k \in DOMAIN settled /\ overrides[k].state \in settled[k]

\* The stages of an edit: a weakening one is audited first.
Stages(k, state) ==
  IF Weaker(k, state) THEN {"audit_first", "persist_second", "apply"}
  ELSE {"persist_first", "audit_second", "apply"}

EditFields(e) ==
  /\ e = [kind |-> e.kind, entry |-> e.entry, add |-> e.add, alone |-> e.alone,
          next |-> e.next, stage |-> e.stage]
  /\ e.kind \in {"allow", "term"} /\ e.add \in BOOLEAN /\ e.alone \in BOOLEAN
  /\ e.stage \in Stages(Key(e), State(e))

\* An edit in progress at p: a weakening one that is past its audit is recorded;
\* one that is past its write has its row, which is its own if no other daemon
\* edited the entry meanwhile.
EditHeld(p) ==
  LET e == edit[p]  k == Key(edit[p])  s == State(edit[p]) IN
  /\ lists[p].up /\ EditFields(e)
  /\ e.next = nextSet(lists[p][e.kind], e.entry, e.add)
  /\ Weaker(k, s) /\ e.stage # "audit_first" => <<k[1], k[2], s>> \in audited
  /\ e.stage \in {"audit_second", "apply"} =>
       k \in DOMAIN overrides /\ (e.alone => overrides[k].state = s)
  /\ k \in DOMAIN settled /\ s \in settled[k]

\* Two daemons that edit one entry both know of each other.
RivalsKnown ==
  \A p, q \in Procs :
    p # q /\ edit[p] # NoEdit /\ edit[q] # NoEdit
      /\ Key(edit[p]) = Key(edit[q]) => ~edit[p].alone

PolicyInv ==
  /\ lists = [p \in Procs |-> lists[p]] /\ edit = [p \in Procs |-> edit[p]]
  /\ \A p \in Procs : ListsHeld(lists[p])
  /\ \A k \in DOMAIN overrides : RowHeld(k)
  /\ \A p \in Procs : edit[p] = NoEdit \/ EditHeld(p)
  /\ RivalsKnown
  /\ \A k \in DOMAIN settled : "never" \notin settled[k] => k \in DOMAIN overrides
  /\ WeakerIsRecorded

\* An edit as edit builds it is what the order of its writes calls weakening
\* (weakens), under its list and skeleton.
LEMMA EditIs ==
  ASSUME NEW e, e.kind \in {"allow", "term"}, e.add \in BOOLEAN
  PROVE  /\ Key(e) = <<e.kind, Skeleton(e.entry)>>
         /\ Key(e)[1] = e.kind /\ Key(e)[2] = Skeleton(e.entry)
         /\ State(e) \in {"present", "removed"}
         /\ State(e) = "present" <=> e.add
         /\ Weaker(Key(e), State(e)) <=> weakens(e.kind, e.add)
  BY Zenon DEF Key, State, Weaker, weakens

\* What a start composes for an entry that has a row is what the row says,
\* under every seed (replay).
LEMMA RowDecides ==
  ASSUME PolicyInv, NEW k \in DOMAIN overrides, NEW s
  PROVE  k[2] \in Skeletons(replay(s, k[1])) <=> overrides[k].state = "present"
<1>1. /\ k = <<k[1], k[2]>> /\ overrides[k].state \in {"present", "removed"}
      /\ Skeleton(overrides[k].entry) = k[2]
  BY Zenon DEF PolicyInv, RowHeld
<1> DEFINE kept == {e \in s : <<k[1], Skeleton(e)>> \notin Rows(k[1], "removed")}
<1> DEFINE added == {r \in Rows(k[1], "present") : r[2] \notin Skeletons(kept)}
<1>2. replay(s, k[1]) = kept \cup {overrides[o].entry : o \in added}
  BY Zenon DEF replay
<1>3. CASE overrides[k].state = "present"
  <2>1. k \in Rows(k[1], "present")
    BY <1>3, Zenon DEF Rows
  <2> HIDE DEF kept
  <2>2. CASE k[2] \in Skeletons(kept)
    BY <2>2, <1>2, <1>3, Zenon DEF Skeletons
  <2>3. CASE k[2] \notin Skeletons(kept)
    <3>1. k \in added
      BY <2>1, <2>3, Zenon
    <3> HIDE DEF added
    <3>2. overrides[k].entry \in replay(s, k[1])
      BY <3>1, <1>2, Zenon
    <3> QED
      BY <3>2, <1>1, <1>3, Zenon DEF Skeletons
  <2> QED
    BY <2>2, <2>3, Zenon
<1>4. CASE overrides[k].state = "removed"
  <2>1. k \in Rows(k[1], "removed")
    BY <1>4, Zenon DEF Rows
  <2>2. ASSUME NEW e \in kept PROVE Skeleton(e) # k[2]
    BY <2>1, <1>1, Zenon
  <2>3. ASSUME NEW o \in added PROVE Skeleton(overrides[o].entry) # k[2]
    <3>1. o \in DOMAIN overrides /\ o[1] = k[1] /\ overrides[o].state = "present"
      BY Zenon DEF Rows
    <3>2. o = <<o[1], o[2]>> /\ Skeleton(overrides[o].entry) = o[2]
      BY <3>1, Zenon DEF PolicyInv, RowHeld
    <3> QED
      BY <3>1, <3>2, <1>1, <1>4, Zenon
  <2> HIDE DEF kept, added
  <2> QED
    BY <2>2, <2>3, <1>2, <1>4, Zenon DEF Skeletons
<1> QED
  BY <1>1, <1>3, <1>4, Zenon

\* Before any daemon starts there is no row, no edit and no list.
LEMMA PolicyStarts == ListsInit => PolicyInv
  BY DEF ListsInit, PolicyInv, ListsHeld, RivalsKnown, WeakerIsRecorded,
         Down, NoEdit

\* An edit goes on as it was while its daemon's lists and its own fields stay,
\* the audit log and the rows only grow, and nobody decides its entry.
LEMMA EditStays ==
  ASSUME NEW q \in Procs, EditHeld(q), lists'[q] = lists[q], edit'[q] = edit[q],
         audited \subseteq audited', DOMAIN overrides \subseteq DOMAIN overrides',
         edit[q].alone /\ Key(edit[q]) \in DOMAIN overrides =>
           overrides'[Key(edit[q])] = overrides[Key(edit[q])],
         Key(edit[q]) \in DOMAIN settled',
         State(edit[q]) \in settled'[Key(edit[q])]
  PROVE  EditHeld(q)'
<1>1. Key(edit[q])' = Key(edit[q]) /\ State(edit[q])' = State(edit[q])
  BY Zenon DEF Key, State
<1>2. EditFields(edit[q])'
  BY <1>1, Zenon DEF EditHeld, EditFields, Weaker, Stages, Key, State
<1>3. edit'[q].next = nextSet(lists'[q][edit'[q].kind], edit'[q].entry, edit'[q].add)
  BY Zenon DEF EditHeld
<1> QED
  BY <1>1, <1>2, <1>3, Zenon DEF EditHeld, Weaker, nextSet, Listed

\* The seed and the administrator's standing are no part of what is held.
LEMMA OutsideEvents ==
  ASSUME PolicyInv, UNCHANGED <<lists, overrides, audited, edit, settled>>
  PROVE  PolicyInv'
<1>1. ASSUME NEW q \in Procs, EditHeld(q) PROVE EditHeld(q)'
  BY <1>1, EditStays, Zenon DEF EditHeld
<1>2. \A k \in DOMAIN overrides' : RowHeld(k)'
  BY Zenon DEF PolicyInv, RowHeld, Weaker
<1> QED
  BY <1>1, <1>2, Zenon DEF PolicyInv, ListsHeld, RivalsKnown, WeakerIsRecorded,
     Recorded, Skeletons, NoEdit, Key

\* A composed list that lets through what the seed refuses has a row that says
\* so, and the audit log records it (LoadPolicy, replay).
LEMMA ComposedIsRecorded ==
  ASSUME PolicyInv, NEW s
  PROVE  /\ \A sk \in Skeletons(replay(s, "allow")) \ Skeletons(s) :
              Recorded("allow", sk, "present")
         /\ \A sk \in Skeletons(s) \ Skeletons(replay(s, "term")) :
              Recorded("term", sk, "removed")
<1>1. ASSUME NEW sk \in Skeletons(replay(s, "allow")) \ Skeletons(s)
      PROVE  Recorded("allow", sk, "present")
  <2>1. PICK e \in replay(s, "allow") : Skeleton(e) = sk
    BY <1>1, Zenon DEF Skeletons
  <2>2. e \notin s
    BY <2>1, <1>1, Zenon DEF Skeletons
  <2>3. PICK o \in Rows("allow", "present") : e = overrides[o].entry
    BY <2>1, <2>2, Zenon DEF replay
  <2>4. o \in DOMAIN overrides /\ o[1] = "allow" /\ overrides[o].state = "present"
    BY <2>3, Zenon DEF Rows
  <2>5. /\ Skeleton(overrides[o].entry) = o[2]
        /\ <<o[1], o[2], overrides[o].state>> \in audited
    BY <2>4, Zenon DEF PolicyInv, RowHeld, Weaker
  <2> QED
    BY <2>1, <2>3, <2>4, <2>5, Zenon DEF Recorded
<1>2. ASSUME NEW sk \in Skeletons(s) \ Skeletons(replay(s, "term"))
      PROVE  Recorded("term", sk, "removed")
  <2>1. PICK e \in s : Skeleton(e) = sk
    BY <1>2, Zenon DEF Skeletons
  <2>2. e \notin replay(s, "term")
    BY <2>1, <1>2, Zenon DEF Skeletons
  <2>3. <<"term", sk>> \in Rows("term", "removed")
    BY <2>1, <2>2, Zenon DEF replay
  <2>4. <<"term", sk>> \in DOMAIN overrides /\ overrides[<<"term", sk>>].state = "removed"
    BY <2>3, Zenon DEF Rows
  <2>5. Weaker(<<"term", sk>>, "removed")
    BY Zenon DEF Weaker
  <2>6. RowHeld(<<"term", sk>>)
    BY <2>4, Zenon DEF PolicyInv
  <2> QED
    BY <2>4, <2>5, <2>6, Zenon DEF RowHeld, Recorded
<1> QED
  BY <1>1, <1>2, Zenon

\* A daemon that starts composes both lists, or does not start (LoadPolicy).
LEMMA PolicyLoads ==
  ASSUME PolicyInv, NEW p \in Procs, LoadPolicy(p)
  PROVE  PolicyInv'
<1> DEFINE r == [up |-> TRUE, allow |-> replay(seed.allow, "allow"),
                 term |-> replay(seed.term, "term"), from |-> seed]
<1>1. /\ ~lists[p].up /\ lists' = [lists EXCEPT ![p] = r]
      /\ UNCHANGED <<overrides, audited, edit, settled>>
  BY Zenon DEF LoadPolicy
<1>2. /\ lists' = [q \in Procs |-> lists'[q]] /\ lists'[p] = r
      /\ \A q \in Procs \ {p} : lists'[q] = lists[q]
  <2> HIDE DEF r
  <2> QED
    BY <1>1, Zenon DEF PolicyInv
<1>3. /\ r = [up |-> TRUE, allow |-> r.allow, term |-> r.term, from |-> r.from]
      /\ r.up = TRUE /\ r.from.allow = seed.allow /\ r.from.term = seed.term
      /\ r.allow = replay(seed.allow, "allow") /\ r.term = replay(seed.term, "term")
  BY Zenon
<1>4. edit[p] = NoEdit
  BY <1>1, Zenon DEF PolicyInv, EditHeld
<1> HIDE DEF r
<1>5. \A q \in Procs : ListsHeld(lists'[q])
  BY <1>2, <1>3, ZenonT(60) DEF PolicyInv, ListsHeld
<1>6. ASSUME NEW q \in Procs PROVE edit'[q] = NoEdit \/ EditHeld(q)'
  <2>1. CASE q = p
    BY <2>1, <1>1, <1>4, Zenon
  <2>2. CASE q # p /\ EditHeld(q)
    <3>1. lists'[q] = lists[q] /\ edit'[q] = edit[q]
      BY <2>2, <1>1, <1>2, Zenon
    <3> QED
      BY <2>2, <3>1, <1>1, EditStays, Zenon DEF EditHeld
  <2> QED
    BY <2>1, <2>2, <1>1, Zenon DEF PolicyInv
<1>7. WeakerIsRecorded'
  <2>1. ASSUME NEW q \in Procs, lists'[q].up
        PROVE  /\ \A sk \in Skeletons(lists'[q].allow) \ Skeletons(lists'[q].from.allow) :
                    Recorded("allow", sk, "present")
               /\ \A sk \in Skeletons(lists'[q].from.term) \ Skeletons(lists'[q].term) :
                    Recorded("term", sk, "removed")
    <3>1. CASE q = p
      BY <3>1, <1>2, <1>3, ComposedIsRecorded, ZenonT(60)
    <3>2. CASE q # p
      BY <3>2, <2>1, <1>2, Zenon DEF PolicyInv, WeakerIsRecorded
    <3> QED
      BY <3>1, <3>2, Zenon
  <2> QED
    BY <2>1, <1>1, Zenon DEF WeakerIsRecorded, Recorded, Skeletons
<1>8. \A k \in DOMAIN overrides' : RowHeld(k)'
  BY <1>1, Zenon DEF PolicyInv, RowHeld, Weaker
<1>9. RivalsKnown'
  BY <1>1, Zenon DEF PolicyInv, RivalsKnown, NoEdit, Key
<1> QED
  BY <1>1, <1>2, <1>5, <1>6, <1>7, <1>8, <1>9, Zenon DEF PolicyInv, ListsHeld, NoEdit

\* An edit in progress is one of a daemon that runs, and is at no idle stage.
LEMMA EditRuns ==
  ASSUME PolicyInv, NEW p \in Procs, edit[p].stage # "idle"
  PROVE  EditHeld(p) /\ edit[p] # NoEdit
  BY DEF PolicyInv, NoEdit

\* The rest of the daemons are as they were.
Others(p) ==
  /\ lists' = [q \in Procs |-> lists'[q]] /\ edit' = [q \in Procs |-> edit'[q]]
  /\ \A q \in Procs \ {p} : lists'[q] = lists[q] /\ edit'[q] = edit[q]

\* A step of one daemon that keeps the key of its edit, or ends it, leaves no
\* two edits of one entry unaware of each other.
LEMMA RivalsStay ==
  ASSUME PolicyInv, NEW p \in Procs, Others(p),
         \/ edit'[p] = NoEdit
         \/ /\ edit[p] # NoEdit /\ edit'[p].alone = edit[p].alone
            /\ Key(edit'[p]) = Key(edit[p])
  PROVE  RivalsKnown'
<1>1. ASSUME NEW a \in Procs, NEW b \in Procs, a # b, edit'[a] # NoEdit,
             edit'[b] # NoEdit, Key(edit'[a]) = Key(edit'[b])
      PROVE  ~edit'[a].alone
  <2>1. \A c \in {a, b} : /\ edit[c] # NoEdit /\ edit'[c].alone = edit[c].alone
                          /\ Key(edit'[c]) = Key(edit[c])
    BY <1>1, Zenon DEF Others
  <2> QED
    BY <2>1, <1>1, Zenon DEF PolicyInv, RivalsKnown
<1> QED
  BY <1>1, Zenon DEF RivalsKnown, Key, NoEdit

\* A crash ends the daemon's edit where it is (Crash).
LEMMA PolicyCrashes ==
  ASSUME PolicyInv, NEW p \in Procs, Crash(p)
  PROVE  PolicyInv'
<1>1. /\ lists' = [lists EXCEPT ![p] = Down] /\ edit' = [edit EXCEPT ![p] = NoEdit]
      /\ UNCHANGED <<overrides, audited, settled>>
  BY Zenon DEF Crash
<1>2. Others(p) /\ lists'[p] = Down /\ edit'[p] = NoEdit
  BY <1>1, Zenon DEF PolicyInv, Others
<1>3. ~lists'[p].up
  BY <1>2 DEF Down
<1>4. \A q \in Procs : ListsHeld(lists'[q])
  BY <1>2, <1>3, Zenon DEF PolicyInv, ListsHeld, Others
<1>5. ASSUME NEW q \in Procs PROVE edit'[q] = NoEdit \/ EditHeld(q)'
  <2>1. CASE q # p /\ EditHeld(q)
    <3>1. lists'[q] = lists[q] /\ edit'[q] = edit[q]
      BY <2>1, <1>2, Zenon DEF Others
    <3> QED
      BY <2>1, <3>1, <1>1, EditStays, Zenon DEF EditHeld
  <2> QED
    BY <2>1, <1>2, Zenon DEF PolicyInv, Others
<1>6. WeakerIsRecorded'
  BY <1>1, <1>2, <1>3, Zenon DEF Others, PolicyInv, WeakerIsRecorded, Recorded, Skeletons
<1>7. \A k \in DOMAIN overrides' : RowHeld(k)'
  BY <1>1, Zenon DEF PolicyInv, RowHeld, Weaker
<1>8. RivalsKnown'
  BY <1>2, RivalsStay, Zenon
<1> QED
  BY <1>1, <1>2, <1>4, <1>5, <1>6, <1>7, <1>8, Zenon DEF PolicyInv, Others, ListsHeld, NoEdit

\* Moving an edit to its next stage changes nothing else of it.
LEMMA StageMoved ==
  ASSUME NEW e, EditFields(e), NEW stage, NEW f, f = [e EXCEPT !.stage = stage]
  PROVE  /\ f.kind = e.kind /\ f.entry = e.entry /\ f.add = e.add /\ f.alone = e.alone
         /\ f.next = e.next /\ f.stage = stage
         /\ f = [kind |-> f.kind, entry |-> f.entry, add |-> f.add, alone |-> f.alone,
                 next |-> f.next, stage |-> f.stage]
         /\ Key(f) = Key(e) /\ State(f) = State(e)
<1>1. /\ f.kind = e.kind /\ f.entry = e.entry /\ f.add = e.add /\ f.alone = e.alone
      /\ f.next = e.next /\ f.stage = stage
      /\ f = [kind |-> f.kind, entry |-> f.entry, add |-> f.add, alone |-> f.alone,
              next |-> f.next, stage |-> f.stage]
  BY Zenon DEF EditFields
<1> QED
  BY <1>1, Zenon DEF Key, State

\* After a write of p that leaves every other edit held, the rest follows.
LEMMA AfterWrite ==
  ASSUME PolicyInv, NEW p \in Procs, Others(p), lists' = lists, audited \subseteq audited',
         \A k \in DOMAIN overrides' : RowHeld(k)',
         \A k \in DOMAIN settled' : "never" \notin settled'[k] => k \in DOMAIN overrides',
         \A q \in Procs \ {p} : EditHeld(q) => EditHeld(q)',
         \/ edit'[p] = NoEdit
         \/ /\ edit[p] # NoEdit /\ EditHeld(p)' /\ edit'[p].alone = edit[p].alone
            /\ Key(edit'[p]) = Key(edit[p])
  PROVE  PolicyInv'
<1>1. RivalsKnown'
  BY RivalsStay, Zenon
<1>2. \A q \in Procs : edit'[q] = NoEdit \/ EditHeld(q)'
  BY Zenon DEF PolicyInv, Others
<1>3. WeakerIsRecorded'
  BY Zenon DEF PolicyInv, WeakerIsRecorded, Recorded, Skeletons
<1> QED
  BY <1>1, <1>2, <1>3, Zenon DEF PolicyInv, Others, ListsHeld, NoEdit

\* An edit that goes to the next of its stages is held if what that stage calls
\* for is there.
LEMMA EditMoves ==
  ASSUME NEW p \in Procs, EditHeld(p), NEW k, k = Key(edit[p]),
         NEW s, s = State(edit[p]), NEW stage,
         edit'[p] = [edit[p] EXCEPT !.stage = stage], lists'[p] = lists[p],
         stage \in Stages(k, s),
         Weaker(k, s) /\ stage # "audit_first" => <<k[1], k[2], s>> \in audited',
         stage \in {"audit_second", "apply"} =>
           k \in DOMAIN overrides' /\ (edit[p].alone => overrides'[k].state = s),
         k \in DOMAIN settled', s \in settled'[k]
  PROVE  /\ EditHeld(p)'
         /\ edit'[p].alone = edit[p].alone /\ Key(edit'[p]) = k
<1> DEFINE e == edit[p]
<1> DEFINE f == [e EXCEPT !.stage = stage]
<1>1. EditFields(e) /\ lists[p].up /\ e.next = nextSet(lists[p][e.kind], e.entry, e.add)
  BY Zenon DEF EditHeld
<1>2. /\ f.kind = e.kind /\ f.entry = e.entry /\ f.add = e.add /\ f.alone = e.alone
      /\ f.next = e.next /\ f.stage = stage
      /\ f = [kind |-> f.kind, entry |-> f.entry, add |-> f.add, alone |-> f.alone,
              next |-> f.next, stage |-> f.stage]
      /\ Key(f) = Key(e) /\ State(f) = State(e)
  BY <1>1, StageMoved
<1>3. edit'[p] = f
  BY Zenon
<1> HIDE DEF e, f
<1>4. EditFields(f)
  BY <1>1, <1>2, Zenon DEF EditFields, e
<1>5. /\ Key(edit[p])' = k /\ State(edit[p])' = s /\ EditFields(edit[p])'
      /\ Key(edit'[p]) = k
  <2>1. /\ Key(edit[p])' = Key(f) /\ State(edit[p])' = State(f)
        /\ EditFields(edit[p])' <=> EditFields(f)
        /\ Key(edit'[p]) = Key(f)
    BY <1>3, Zenon DEF Key, State, EditFields, Weaker, Stages
  <2> QED
    BY <2>1, <1>2, <1>4, Zenon DEF e
<1>6. /\ lists'[p].up
      /\ edit'[p].next = nextSet(lists[p][edit[p].kind], edit[p].entry, edit[p].add)'
  <2>1. nextSet(lists[p][edit[p].kind], edit[p].entry, edit[p].add)' =
          nextSet(lists'[p][f.kind], f.entry, f.add)
    BY <1>3, Zenon DEF nextSet, Listed
  <2> QED
    BY <2>1, <1>1, <1>2, <1>3, Zenon DEF e
<1>7. edit'[p].stage = stage /\ edit'[p].alone = edit[p].alone
  BY <1>2, <1>3, Zenon DEF e
<1> QED
  BY <1>5, <1>6, <1>7, Zenon DEF EditHeld, Weaker

\* What an edit in progress at p says of its row and its record (edit).
EditFacts(p, k, s) ==
  /\ k = <<edit[p].kind, Skeleton(edit[p].entry)>>
  /\ k[1] = edit[p].kind /\ k[2] = Skeleton(edit[p].entry)
  /\ s \in {"present", "removed"} /\ edit[p].kind \in {"allow", "term"}
  /\ edit[p].stage \in Stages(k, s)
  /\ Weaker(k, s) /\ edit[p].stage # "audit_first" => <<k[1], k[2], s>> \in audited
  /\ edit[p].stage \in {"audit_second", "apply"} =>
       k \in DOMAIN overrides /\ (edit[p].alone => overrides[k].state = s)
  /\ k \in DOMAIN settled /\ s \in settled[k]

\* What an edit in progress has before its step.
LEMMA EditKnown ==
  ASSUME NEW p \in Procs, EditHeld(p), NEW k, k = Key(edit[p]),
         NEW s, s = State(edit[p])
  PROVE  EditFacts(p, k, s)
<1>1. EditFields(edit[p])
  BY Zenon DEF EditHeld
<1>2. /\ k = <<edit[p].kind, Skeleton(edit[p].entry)>>
      /\ k[1] = edit[p].kind /\ k[2] = Skeleton(edit[p].entry)
      /\ s \in {"present", "removed"}
  BY <1>1, EditIs DEF EditFields
<1> QED
  BY <1>1, <1>2, Zenon DEF EditFacts, EditHeld, EditFields

\* The audit of an edit: an answered one is recorded, one without an answer may
\* be (audit).
LEMMA PolicyAudits ==
  ASSUME PolicyInv, NEW p \in Procs, NEW outcome, audit(p, outcome)
  PROVE  PolicyInv'
<1> DEFINE e == edit[p]
<1> DEFINE k == Key(e)
<1> DEFINE s == State(e)
<1> DEFINE f == [e EXCEPT !.stage = AfterAudit(e)]
<1>1. /\ e.stage \in {"audit_first", "audit_second"} /\ UNCHANGED <<lists, overrides, settled>>
      /\ audited' = IF outcome = "failed" THEN audited
                    ELSE audited \cup {<<e.kind, Skeleton(e.entry), s>>}
      /\ edit' = [edit EXCEPT ![p] = IF outcome = "ok" THEN f ELSE NoEdit]
  BY Zenon DEF audit
<1>2. EditHeld(p) /\ e # NoEdit
  BY <1>1, EditRuns, Zenon
<1>3. /\ Others(p) /\ edit'[p] = (IF outcome = "ok" THEN f ELSE NoEdit)
      /\ audited \subseteq audited'
  <2> HIDE DEF f
  <2> QED
    BY <1>1, Zenon DEF PolicyInv, Others
<1>4. ASSUME NEW q \in Procs, q # p, EditHeld(q) PROVE EditHeld(q)'
  <2>1. lists'[q] = lists[q] /\ edit'[q] = edit[q]
    BY <1>4, <1>3, Zenon DEF Others
  <2> QED
    BY <1>4, <2>1, <1>1, <1>3, EditStays, Zenon DEF EditHeld
<1>r. /\ \A j \in DOMAIN overrides' : RowHeld(j)'
      /\ \A j \in DOMAIN settled' : "never" \notin settled'[j] => j \in DOMAIN overrides'
  BY <1>1, <1>3, Zenon DEF PolicyInv, RowHeld, Weaker
<1>5. CASE outcome = "ok" /\ edit'[p] = f
  <2>1. AfterAudit(e) = IF e.stage = "audit_first" THEN "persist_second" ELSE "apply"
    BY Zenon DEF AfterAudit
  <2>2. /\ k = <<e.kind, Skeleton(e.entry)>> /\ k[1] = e.kind /\ k[2] = Skeleton(e.entry)
        /\ s \in {"present", "removed"}
        /\ e.stage \in Stages(k, s)
        /\ e.stage \in {"audit_second", "apply"} =>
             k \in DOMAIN overrides /\ (e.alone => overrides[k].state = s)
        /\ k \in DOMAIN settled /\ s \in settled[k]
    <3>1. EditHeld(p) /\ k = Key(edit[p]) /\ s = State(edit[p])
      BY <1>2, Zenon
    <3> HIDE DEF k, s
    <3>2. EditFacts(p, k, s)
      BY <3>1, EditKnown, Zenon
    <3> QED
      BY <3>2, Zenon DEF EditFacts
  <2>3. <<k[1], k[2], s>> \in audited'
    BY <1>1, <1>5, <2>2, Zenon
  <2>4. EditHeld(p)' /\ edit'[p].alone = edit[p].alone /\ Key(edit'[p]) = Key(edit[p])
    <3> DEFINE stage == AfterAudit(e)
    <3>1. k = Key(edit[p]) /\ s = State(edit[p])
      BY Zenon
    <3>2. edit'[p] = [edit[p] EXCEPT !.stage = stage]
      BY <1>5, Zenon
    <3> HIDE DEF k, s, stage, f
    <3>3. stage \in Stages(k, s)
      BY <1>1, <2>1, <2>2, Zenon DEF stage, Stages
    <3>4. stage \in {"audit_second", "apply"} =>
            k \in DOMAIN overrides' /\ (edit[p].alone => overrides'[k].state = s)
      BY <1>1, <2>1, <2>2, Zenon DEF stage
    <3>5. k \in DOMAIN settled' /\ s \in settled'[k] /\ lists'[p] = lists[p]
      BY <1>1, <2>2, Zenon
    <3> HIDE DEF e
    <3> QED
      BY <1>2, <2>3, <3>1, <3>2, <3>3, <3>4, <3>5, EditMoves, ZenonT(30)
  <2> QED
    BY <2>4, <1>1, <1>2, <1>3, <1>4, <1>r, AfterWrite, Zenon
<1> QED
  BY <1>1, <1>3, <1>4, <1>5, <1>r, AfterWrite, Zenon

\* The write of an edit: its row replaces that of the same list and skeleton
\* (persist).
LEMMA PolicyPersists ==
  ASSUME PolicyInv, NEW p \in Procs, NEW outcome, persist(p, outcome)
  PROVE  PolicyInv'
<1> DEFINE e == edit[p]
<1> DEFINE k == Key(e)
<1> DEFINE s == State(e)
<1> DEFINE stage == AfterPersist(e)
<1> DEFINE f == [e EXCEPT !.stage = stage]
<1>1. /\ e.stage \in {"persist_first", "persist_second"} /\ UNCHANGED <<lists, audited, settled>>
      /\ overrides' = IF outcome = "failed" THEN overrides
                      ELSE [j \in DOMAIN overrides \cup {k} |->
                              IF j = k THEN [entry |-> e.entry, state |-> s] ELSE overrides[j]]
      /\ edit' = [edit EXCEPT ![p] = IF outcome = "ok" THEN f ELSE NoEdit]
  BY Zenon DEF persist
<1>2. EditHeld(p) /\ e # NoEdit
  BY <1>1, EditRuns, Zenon
<1>3. Others(p) /\ edit'[p] = (IF outcome = "ok" THEN f ELSE NoEdit)
  <2> HIDE DEF f
  <2> QED
    BY <1>1, Zenon DEF PolicyInv, Others
<1>4. /\ k = <<e.kind, Skeleton(e.entry)>> /\ k[1] = e.kind /\ k[2] = Skeleton(e.entry)
      /\ s \in {"present", "removed"} /\ e.stage \in Stages(k, s)
      /\ Weaker(k, s) /\ e.stage # "audit_first" => <<k[1], k[2], s>> \in audited
      /\ k \in DOMAIN settled /\ s \in settled[k]
  <2>1. EditHeld(p) /\ k = Key(edit[p]) /\ s = State(edit[p])
    BY <1>2, Zenon
  <2> HIDE DEF k, s
  <2> QED
    <3>1. EditFacts(p, k, s)
      BY <2>1, EditKnown, Zenon
    <3> QED
      BY <3>1, Zenon DEF EditFacts
<1>5. k = Key(edit[p]) /\ s = State(edit[p])
  BY Zenon
<1> HIDE DEF k, s
<1>6. /\ DOMAIN overrides \subseteq DOMAIN overrides'
      /\ DOMAIN overrides' \subseteq DOMAIN overrides \cup {k}
      /\ \A j \in DOMAIN overrides : j # k => overrides'[j] = overrides[j]
      /\ outcome # "failed" => /\ k \in DOMAIN overrides'
                               /\ overrides'[k].entry = e.entry /\ overrides'[k].state = s
  BY <1>1, Zenon
<1>7. ASSUME NEW q \in Procs, q # p, EditHeld(q) PROVE EditHeld(q)'
  <2>1. lists'[q] = lists[q] /\ edit'[q] = edit[q] /\ edit[q] # NoEdit
    <3>1. edit[q].stage # "idle"
      BY <1>7, Zenon DEF EditHeld, EditFields, Stages
    <3> QED
      BY <1>7, <1>3, <3>1 DEF Others, NoEdit
  <2>2. edit[q].alone => Key(edit[q]) # k
    BY <1>2, <1>5, <1>7, <2>1, Zenon DEF PolicyInv, RivalsKnown
  <2>3. edit[q].alone /\ Key(edit[q]) \in DOMAIN overrides =>
          overrides'[Key(edit[q])] = overrides[Key(edit[q])]
    BY <2>2, <1>6, Zenon
  <2>4. Key(edit[q]) \in DOMAIN settled' /\ State(edit[q]) \in settled'[Key(edit[q])]
    BY <1>1, <1>7, Zenon DEF EditHeld
  <2> QED
    BY <1>1, <1>6, <1>7, <2>1, <2>3, <2>4, EditStays, Zenon
<1>8. ASSUME NEW j \in DOMAIN overrides' PROVE RowHeld(j)'
  <2>1. CASE j = k /\ outcome # "failed"
    <3>1. Weaker(k, s) => <<k[1], k[2], s>> \in audited
      BY <1>1, <1>4, Zenon DEF Stages
    <3>2. k = <<k[1], k[2]>> /\ overrides'[k].state = s /\ Skeleton(overrides'[k].entry) = k[2]
      BY <1>4, <1>6, <2>1, Zenon
    <3> QED
      BY <2>1, <3>1, <3>2, <1>1, <1>4, Zenon DEF RowHeld, Weaker
  <2>2. CASE ~(j = k /\ outcome # "failed")
    <3>1. j \in DOMAIN overrides /\ overrides'[j] = overrides[j]
      BY <2>2, <1>1, <1>6, Zenon
    <3> QED
      BY <3>1, <1>1, Zenon DEF PolicyInv, RowHeld, Weaker
  <2> QED
    BY <2>1, <2>2, Zenon
<1>9. \A j \in DOMAIN settled' : "never" \notin settled'[j] => j \in DOMAIN overrides'
  BY <1>1, <1>6, Zenon DEF PolicyInv
<1>10. CASE outcome = "ok" /\ edit'[p] = f
  <2>1. stage = IF e.stage = "persist_first" THEN "audit_second" ELSE "apply"
    BY Zenon DEF AfterPersist
  <2>2. edit'[p] = [edit[p] EXCEPT !.stage = stage]
    BY <1>10, Zenon
  <2> HIDE DEF stage, f
  <2>3. stage \in Stages(k, s)
    BY <1>1, <1>4, <2>1, Zenon DEF Stages
  <2>4. Weaker(k, s) /\ stage # "audit_first" => <<k[1], k[2], s>> \in audited'
    BY <1>1, <1>4, Zenon DEF Stages
  <2>5. /\ k \in DOMAIN overrides' /\ overrides'[k].state = s
        /\ k \in DOMAIN settled' /\ s \in settled'[k] /\ lists'[p] = lists[p]
    BY <1>1, <1>4, <1>6, <1>10, Zenon
  <2>6. EditHeld(p)' /\ edit'[p].alone = edit[p].alone /\ Key(edit'[p]) = Key(edit[p])
    <3> HIDE DEF e
    <3>1. stage \in {"audit_second", "apply"} =>
            k \in DOMAIN overrides' /\ (edit[p].alone => overrides'[k].state = s)
      BY <2>5, Zenon
    <3>2. k \in DOMAIN settled' /\ s \in settled'[k] /\ lists'[p] = lists[p]
      BY <2>5, Zenon
    <3> QED
      BY <1>2, <1>5, <2>2, <2>3, <2>4, <3>1, <3>2, EditMoves, ZenonT(30)
  <2> QED
    BY <2>6, <1>1, <1>2, <1>3, <1>7, <1>8, <1>9, AfterWrite, ZenonT(60)
<1> QED
  BY <1>1, <1>3, <1>7, <1>8, <1>9, <1>10, AfterWrite, Zenon

\* A list that the edit of e leaves is weaker than it was by its entry alone,
\* and only if the edit weakens (nextSet).
LEMMA NextIs ==
  ASSUME NEW list, NEW entry, NEW add \in BOOLEAN, NEW next,
         next = nextSet(list, entry, add)
  PROVE  /\ \A sk \in Skeletons(next) \ Skeletons(list) :
              add /\ sk = Skeleton(entry)
         /\ \A sk \in Skeletons(list) \ Skeletons(next) :
              ~add /\ sk = Skeleton(entry)
<1>1. ASSUME NEW sk \in Skeletons(next) \ Skeletons(list)
      PROVE  add /\ sk = Skeleton(entry)
  <2>1. PICK x \in next : Skeleton(x) = sk
    BY Zenon DEF Skeletons
  <2>2. x \notin list
    BY <2>1, Zenon DEF Skeletons
  <2> QED
    BY <2>1, <2>2, Zenon DEF nextSet
<1>2. ASSUME NEW sk \in Skeletons(list) \ Skeletons(next)
      PROVE  ~add /\ sk = Skeleton(entry)
  <2>1. PICK x \in list : Skeleton(x) = sk
    BY Zenon DEF Skeletons
  <2>2. x \notin next
    BY <2>1, Zenon DEF Skeletons
  <2> QED
    BY <2>1, <2>2, Zenon DEF nextSet, Listed
<1> QED
  BY <1>1, <1>2, Zenon

\* The daemon swaps the list in memory, and the edit answers with success: what
\* the edit weakened is recorded, and what it left is its row's (apply).
LEMMA PolicyApplies ==
  ASSUME PolicyInv, NEW p \in Procs, apply(p)
  PROVE  PolicyInv'
<1> DEFINE e == edit[p]
<1> DEFINE k == Key(e)
<1> DEFINE s == State(e)
<1> DEFINE l == lists[p]
<1> DEFINE m == [l EXCEPT ![e.kind] = e.next]
<1>1. /\ e.stage = "apply" /\ UNCHANGED <<overrides, audited>>
      /\ lists' = [lists EXCEPT ![p] = m]
      /\ edit' = [edit EXCEPT ![p] = NoEdit]
      /\ settled' = [settled EXCEPT ![k] = IF e.alone THEN {s} ELSE settled[k] \ {"never"}]
  BY Zenon DEF apply, Settle
<1>2. EditHeld(p) /\ e # NoEdit /\ l.up /\ EditFields(e)
      /\ e.next = nextSet(l[e.kind], e.entry, e.add)
  BY <1>1, EditRuns, Zenon DEF EditHeld
<1>3. Others(p) /\ lists'[p] = m /\ edit'[p] = NoEdit
  <2> HIDE DEF m
  <2> QED
    BY <1>1, Zenon DEF PolicyInv, Others
<1>4. /\ k = <<e.kind, Skeleton(e.entry)>> /\ k[1] = e.kind /\ k[2] = Skeleton(e.entry)
      /\ s \in {"present", "removed"} /\ e.kind \in {"allow", "term"}
      /\ Weaker(k, s) => <<k[1], k[2], s>> \in audited
      /\ k \in DOMAIN overrides /\ (e.alone => overrides[k].state = s)
      /\ k \in DOMAIN settled /\ s \in settled[k]
  <2>1. EditHeld(p) /\ k = Key(edit[p]) /\ s = State(edit[p])
    BY <1>2, Zenon
  <2> HIDE DEF k, s
  <2>2. /\ k = <<e.kind, Skeleton(e.entry)>> /\ k[1] = e.kind /\ k[2] = Skeleton(e.entry)
        /\ s \in {"present", "removed"} /\ e.kind \in {"allow", "term"}
        /\ Weaker(k, s) /\ e.stage # "audit_first" => <<k[1], k[2], s>> \in audited
        /\ e.stage \in {"audit_second", "apply"} =>
             k \in DOMAIN overrides /\ (e.alone => overrides[k].state = s)
        /\ k \in DOMAIN settled /\ s \in settled[k]
    <3>1. EditFacts(p, k, s)
      BY <2>1, EditKnown, Zenon
    <3> QED
      BY <3>1, Zenon DEF EditFacts
  <2> QED
    BY <2>2, <1>1, Zenon
<1>5. /\ s = "present" <=> e.add
      /\ Weaker(k, s) <=> (e.kind = "allow" /\ e.add) \/ (e.kind = "term" /\ ~e.add)
      /\ e.add \in BOOLEAN
  BY <1>2, <1>4, Zenon DEF EditFields, State, Weaker
<1>6. k = Key(edit[p]) /\ s = State(edit[p])
  BY Zenon
<1> HIDE DEF k, s
<1>7. /\ DOMAIN settled' = DOMAIN settled
      /\ \A j \in DOMAIN settled : j # k => settled'[j] = settled[j]
      /\ settled'[k] = IF e.alone THEN {s} ELSE settled[k] \ {"never"}
  BY <1>1, <1>4, Zenon
<1>8. ASSUME NEW q \in Procs, q # p, EditHeld(q) PROVE EditHeld(q)'
  <2>1. lists'[q] = lists[q] /\ edit'[q] = edit[q] /\ edit[q] # NoEdit
    <3>1. edit[q].stage # "idle"
      BY <1>8, Zenon DEF EditHeld, EditFields, Stages
    <3> QED
      BY <1>8, <1>3, <3>1 DEF Others, NoEdit
  <2>2. Key(edit[q]) = k => ~e.alone
    BY <1>2, <1>6, <1>8, <2>1, Zenon DEF PolicyInv, RivalsKnown
  <2>3. /\ Key(edit[q]) \in DOMAIN settled /\ State(edit[q]) \in settled[Key(edit[q])]
        /\ State(edit[q]) # "never"
    BY <1>8, Zenon DEF EditHeld, State
  <2>4. Key(edit[q]) \in DOMAIN settled' /\ State(edit[q]) \in settled'[Key(edit[q])]
    BY <1>7, <2>2, <2>3, Zenon
  <2> QED
    BY <1>1, <1>8, <2>1, <2>4, EditStays, ZenonT(60)
<1>9. ASSUME NEW j \in DOMAIN overrides' PROVE RowHeld(j)'
  <2>1. j \in DOMAIN overrides /\ RowHeld(j)
    BY <1>1, Zenon DEF PolicyInv
  <2>2. j \in DOMAIN settled' /\ overrides[j].state \in settled'[j]
    BY <2>1, <1>4, <1>7 DEF RowHeld
  <2> QED
    BY <2>1, <2>2, <1>1, Zenon DEF RowHeld, Weaker
<1>10. \A j \in DOMAIN settled' : "never" \notin settled'[j] => j \in DOMAIN overrides'
  BY <1>1, <1>4, <1>7, Zenon DEF PolicyInv
<1>11. ListsHeld(l) /\ l = [up |-> TRUE, allow |-> l.allow, term |-> l.term, from |-> l.from]
  BY <1>2, Zenon DEF PolicyInv, ListsHeld
<1>12. /\ m.up = TRUE /\ m.from = l.from
       /\ m.allow = (IF e.kind = "allow" THEN e.next ELSE l.allow)
       /\ m.term = (IF e.kind = "term" THEN e.next ELSE l.term)
       /\ m = [up |-> TRUE, allow |-> m.allow, term |-> m.term, from |-> m.from]
  <2>1. \A u, a, t, g, n :
          /\ [[up |-> u, allow |-> a, term |-> t, from |-> g] EXCEPT !.allow = n]
               = [up |-> u, allow |-> n, term |-> t, from |-> g]
          /\ [[up |-> u, allow |-> a, term |-> t, from |-> g] EXCEPT !.term = n]
               = [up |-> u, allow |-> a, term |-> n, from |-> g]
    BY SMT
  <2>2. m = [up |-> TRUE, allow |-> IF e.kind = "allow" THEN e.next ELSE l.allow,
             term |-> IF e.kind = "term" THEN e.next ELSE l.term, from |-> l.from]
    <3> HIDE DEF l, e
    <3>1. PICK a, t, g : /\ l = [up |-> TRUE, allow |-> a, term |-> t, from |-> g]
                         /\ a = l.allow /\ t = l.term /\ g = l.from
      BY <1>11, Zenon
    <3>2. CASE e.kind = "allow"
      <4>1. m = [l EXCEPT !.allow = e.next]
        BY <3>2, Zenon
      <4> HIDE DEF m
      <4>2. m = [up |-> TRUE, allow |-> e.next, term |-> t, from |-> g]
        BY <4>1, <2>1, <3>1, Zenon
      <4>3. "allow" # "term"
        BY Zenon
      <4> QED
        BY <4>2, <4>3, <3>2, <3>1, Zenon
    <3>3. CASE e.kind = "term"
      <4>1. m = [l EXCEPT !.term = e.next]
        BY <3>3, Zenon
      <4> HIDE DEF m
      <4>2. m = [up |-> TRUE, allow |-> a, term |-> e.next, from |-> g]
        BY <4>1, <2>1, <3>1, Zenon
      <4>3. "allow" # "term"
        BY Zenon
      <4> QED
        BY <4>2, <4>3, <3>3, <3>1, Zenon
    <3> QED
      BY <3>2, <3>3, <1>4, Zenon
  <2> HIDE DEF m
  <2> QED
    BY <2>2, Zenon
<1> HIDE DEF m
<1>13. ASSUME NEW q \in Procs
       PROVE  /\ ListsHeld(lists[q])'
              /\ lists'[q].up =>
                   /\ \A sk \in Skeletons(lists'[q].allow) \ Skeletons(lists'[q].from.allow) :
                        Recorded("allow", sk, "present")
                   /\ \A sk \in Skeletons(lists'[q].from.term) \ Skeletons(lists'[q].term) :
                        Recorded("term", sk, "removed")
  <2>1. CASE q # p
    BY <2>1, <1>3, Zenon DEF PolicyInv, Others, ListsHeld, WeakerIsRecorded
  <2>2. CASE q = p
    <3>1. /\ \A sk \in Skeletons(l.allow) \ Skeletons(l.from.allow) :
               Recorded("allow", sk, "present")
          /\ \A sk \in Skeletons(l.from.term) \ Skeletons(l.term) :
               Recorded("term", sk, "removed")
      BY <1>2, Zenon DEF PolicyInv, WeakerIsRecorded
    <3>2. /\ \A sk \in Skeletons(e.next) \ Skeletons(l[e.kind]) :
               e.add /\ sk = Skeleton(e.entry)
          /\ \A sk \in Skeletons(l[e.kind]) \ Skeletons(e.next) :
               ~e.add /\ sk = Skeleton(e.entry)
      <4>1. e.add \in BOOLEAN /\ e.next = nextSet(l[e.kind], e.entry, e.add)
        BY <1>2, <1>5, Zenon
      <4> HIDE DEF e, l
      <4>2. \A list, entry, next : \A add \in BOOLEAN :
              next = nextSet(list, entry, add) =>
                /\ \A sk \in Skeletons(next) \ Skeletons(list) :
                     add /\ sk = Skeleton(entry)
                /\ \A sk \in Skeletons(list) \ Skeletons(next) :
                     ~add /\ sk = Skeleton(entry)
        BY NextIs, ZenonT(60)
      <4> QED
        BY <4>1, <4>2
    <3>3. ASSUME NEW sk \in Skeletons(m.allow) \ Skeletons(m.from.allow)
          PROVE  Recorded("allow", sk, "present")
      <4>1. CASE sk \in Skeletons(l.allow)
        BY <4>1, <3>1, <3>3, <1>12, Zenon
      <4>2. CASE sk \notin Skeletons(l.allow)
        <5>1. e.kind = "allow" /\ e.add /\ sk = Skeleton(e.entry)
          BY <4>2, <3>2, <3>3, <1>12
        <5> QED
          BY <5>1, <1>4, <1>5, ZenonT(60) DEF Recorded
      <4> QED
        BY <4>1, <4>2, Zenon
    <3>4. ASSUME NEW sk \in Skeletons(m.from.term) \ Skeletons(m.term)
          PROVE  Recorded("term", sk, "removed")
      <4>1. CASE sk \notin Skeletons(l.term)
        BY <4>1, <3>1, <3>4, <1>12, Zenon
      <4>2. CASE sk \in Skeletons(l.term)
        <5>1. e.kind = "term" /\ ~e.add /\ sk = Skeleton(e.entry)
          BY <4>2, <3>2, <3>4, <1>12, Zenon
        <5> QED
          BY <5>1, <1>4, <1>5, Zenon DEF Recorded
      <4> QED
        BY <4>1, <4>2, Zenon
    <3>5. ListsHeld(lists[p])'
      BY <1>3, <1>12, Zenon DEF ListsHeld
    <3> QED
      BY <2>2, <3>3, <3>4, <3>5, <1>3, ZenonT(60)
  <2> QED
    BY <2>1, <2>2, Zenon
<1>14. WeakerIsRecorded'
  BY <1>1, <1>13, Zenon DEF WeakerIsRecorded, Recorded, Skeletons
<1>15. RivalsKnown'
  BY <1>3, RivalsStay, Zenon
<1>16. ASSUME NEW q \in Procs PROVE edit'[q] = NoEdit \/ EditHeld(q)'
  BY <1>3, <1>8, Zenon DEF PolicyInv, Others
<1> QED
  BY <1>3, <1>9, <1>10, <1>13, <1>14, <1>15, <1>16, Zenon DEF PolicyInv, Others, NoEdit

\* Noting whether an edit has a rival changes nothing else of it.
LEMMA RivalNoted ==
  ASSUME NEW e, EditFields(e), NEW b
  PROVE  [e EXCEPT !.alone = b] = [kind |-> e.kind, entry |-> e.entry, add |-> e.add,
                                   alone |-> b, next |-> e.next, stage |-> e.stage]
BY SMTT(30) DEF EditFields

\* An edit that learns of a rival changes in nothing else.
LEMMA RivalSeen ==
  ASSUME NEW e, EditFields(e), NEW f, f = [e EXCEPT !.alone = FALSE]
  PROVE  /\ f.kind = e.kind /\ f.entry = e.entry /\ f.add = e.add /\ ~f.alone
         /\ f.next = e.next /\ f.stage = e.stage /\ EditFields(f)
         /\ Key(f) = Key(e) /\ State(f) = State(e)
<1>1. [e EXCEPT !.alone = FALSE] = [kind |-> e.kind, entry |-> e.entry, add |-> e.add,
                                    alone |-> FALSE, next |-> e.next, stage |-> e.stage]
  <2>1. \A b : [e EXCEPT !.alone = b] = [kind |-> e.kind, entry |-> e.entry, add |-> e.add,
                                         alone |-> b, next |-> e.next, stage |-> e.stage]
    BY RivalNoted, Zenon
  <2> QED
    BY <2>1, Zenon
<1>2. /\ f.kind = e.kind /\ f.entry = e.entry /\ f.add = e.add /\ ~f.alone /\ f.alone \in BOOLEAN
      /\ f.next = e.next /\ f.stage = e.stage
      /\ f = [kind |-> f.kind, entry |-> f.entry, add |-> f.add, alone |-> f.alone,
              next |-> f.next, stage |-> f.stage]
  BY <1>1, Zenon
<1>3. Key(f) = Key(e) /\ State(f) = State(e)
  BY <1>2, Zenon DEF Key, State
<1>4. EditFields(f)
  BY <1>2, <1>3, Zenon DEF EditFields
<1> QED
  BY <1>2, <1>3, <1>4, Zenon

\* An edit that learns of a rival is held as it was.
LEMMA EditRivalled ==
  ASSUME NEW q \in Procs, EditHeld(q), edit'[q] = [edit[q] EXCEPT !.alone = FALSE],
         UNCHANGED <<lists, overrides, audited>>, NEW k, k = Key(edit[q]),
         k \in DOMAIN settled', State(edit[q]) \in settled'[k]
  PROVE  EditHeld(q)' /\ ~edit'[q].alone /\ Key(edit'[q]) = k
<1> DEFINE e == edit[q]
<1> DEFINE f == [e EXCEPT !.alone = FALSE]
<1>1. EditFields(e) /\ lists[q].up /\ e.next = nextSet(lists[q][e.kind], e.entry, e.add)
  BY Zenon DEF EditHeld
<1>2. /\ f.kind = e.kind /\ f.entry = e.entry /\ f.add = e.add /\ ~f.alone
      /\ f.next = e.next /\ f.stage = e.stage /\ EditFields(f)
      /\ Key(f) = Key(e) /\ State(f) = State(e)
  BY <1>1, RivalSeen, Zenon
<1>3. edit'[q] = f
  BY Zenon
<1> HIDE DEF f
<1>4. /\ Key(edit[q])' = Key(f) /\ State(edit[q])' = State(f)
      /\ EditFields(edit[q])' <=> EditFields(f)
      /\ Key(edit'[q]) = Key(f)
  BY <1>3, Zenon DEF Key, State, EditFields, Weaker, Stages
<1>5. Key(edit[q])' = k /\ State(edit[q])' = State(e) /\ EditFields(edit[q])'
  BY <1>2, <1>4, ZenonT(60)
<1>6. /\ lists'[q].up
      /\ edit'[q].next = nextSet(lists[q][edit[q].kind], edit[q].entry, edit[q].add)'
  BY <1>1, <1>2, <1>3 DEF nextSet, Listed
<1>7. /\ Weaker(k, State(e)) /\ edit'[q].stage # "audit_first" =>
           <<k[1], k[2], State(e)>> \in audited'
      /\ edit'[q].stage \in {"audit_second", "apply"} => k \in DOMAIN overrides'
      /\ ~edit'[q].alone
  BY <1>2, <1>3, Zenon DEF EditHeld
<1> QED
  BY <1>2, <1>4, <1>5, <1>6, <1>7, Zenon DEF EditHeld, Weaker

\* The start of an edit: its entry is in doubt, and it and any rival know of each
\* other (Begin, Unsettle).
LEMMA PolicyBegins ==
  ASSUME PolicyInv, NEW p \in Procs, NEW kind \in {"allow", "term"}, NEW entry,
         NEW add \in BOOLEAN, Begin(p, kind, entry, add)
  PROVE  PolicyInv'
<1> DEFINE rivals == Rivals(kind, entry)
<1> DEFINE e == [kind |-> kind, entry |-> entry, add |-> add, alone |-> rivals = {},
                 next |-> nextSet(lists[p][kind], entry, add),
                 stage |-> IF weakens(kind, add) THEN "audit_first" ELSE "persist_first"]
<1> DEFINE k == Key(e)
<1> DEFINE s == State(e)
<1>1. /\ lists[p].up /\ edit[p] = NoEdit /\ UNCHANGED <<lists, overrides, audited>>
      /\ edit' = [q \in Procs |-> IF q = p THEN e
                                  ELSE IF q \in rivals THEN [edit[q] EXCEPT !.alone = FALSE]
                                  ELSE edit[q]]
      /\ settled' = [j \in DOMAIN settled \cup {k} |->
                       IF j # k THEN settled[j]
                       ELSE {s} \cup (IF j \in DOMAIN settled THEN settled[j] ELSE {"never"})]
  BY Zenon DEF Begin, Unsettle
<1>2. /\ e.kind = kind /\ e.entry = entry /\ e.add = add /\ (e.alone <=> rivals = {})
      /\ e.alone \in BOOLEAN
      /\ e.next = nextSet(lists[p][kind], entry, add)
      /\ e.stage = IF weakens(kind, add) THEN "audit_first" ELSE "persist_first"
      /\ e = [kind |-> e.kind, entry |-> e.entry, add |-> e.add, alone |-> e.alone,
              next |-> e.next, stage |-> e.stage]
  BY Zenon
<1>3. rivals = {q \in Procs : edit[q] # NoEdit /\ Key(edit[q]) = <<kind, Skeleton(entry)>>}
  BY Zenon DEF Rivals
<1> HIDE DEF e, rivals
<1>4. /\ k = <<kind, Skeleton(entry)>> /\ s \in {"present", "removed"}
      /\ Weaker(k, s) <=> weakens(kind, add)
  BY <1>2, EditIs
<1>5. /\ edit' = [q \in Procs |-> edit'[q]] /\ edit'[p] = e
      /\ \A q \in rivals : q # p => edit'[q] = [edit[q] EXCEPT !.alone = FALSE]
      /\ \A q \in Procs \ rivals : q # p => edit'[q] = edit[q]
  BY <1>1, <1>3, Zenon
<1>6. /\ DOMAIN settled' = DOMAIN settled \cup {k} /\ s \in settled'[k]
      /\ \A j \in DOMAIN settled : settled[j] \subseteq settled'[j]
      /\ \A j \in DOMAIN settled' : "never" \notin settled'[j] =>
           j \in DOMAIN settled /\ "never" \notin settled[j]
  <2> HIDE DEF k, s
  <2> QED
    BY <1>1, Zenon
<1>7. EditHeld(p)' /\ Key(edit'[p]) = k
  <2>1. EditFields(e)
    BY <1>2, <1>4, Zenon DEF EditFields, Stages
  <2>2. /\ Key(edit[p])' = k /\ State(edit[p])' = s
        /\ EditFields(edit[p])' /\ Key(edit'[p]) = k
    BY <2>1, <1>5, Zenon DEF Key, State, EditFields, Weaker, Stages
  <2>3. /\ lists'[p].up
        /\ edit'[p].next = nextSet(lists[p][edit[p].kind], edit[p].entry, edit[p].add)'
    BY <1>1, <1>2, <1>5, Zenon DEF nextSet, Listed
  <2>4. /\ edit'[p].stage \notin {"audit_second", "apply"}
        /\ Weaker(k, s) => edit'[p].stage = "audit_first"
    BY <1>2, <1>4, <1>5, Zenon
  <2> HIDE DEF k, s
  <2> QED
    BY <2>2, <2>3, <2>4, <1>6, Zenon DEF EditHeld, Weaker
<1>8. ASSUME NEW q \in Procs, q # p
      PROVE  /\ edit[q] = NoEdit => edit'[q] = NoEdit
             /\ EditHeld(q) => /\ EditHeld(q)' /\ (edit'[q].alone => edit[q].alone)
                               /\ Key(edit'[q]) = Key(edit[q])
                               /\ q \in rivals => ~edit'[q].alone
  <2>1. edit[q] = NoEdit => edit'[q] = NoEdit
    BY <1>3, <1>5, <1>8, Zenon
  <2>2. ASSUME EditHeld(q)
        PROVE  /\ EditHeld(q)' /\ (edit'[q].alone => edit[q].alone)
               /\ Key(edit'[q]) = Key(edit[q])
               /\ q \in rivals => ~edit'[q].alone
    <3>1. /\ Key(edit[q]) \in DOMAIN settled'
          /\ State(edit[q]) \in settled'[Key(edit[q])]
      BY <2>2, <1>6, Zenon DEF EditHeld
    <3>2. CASE q \in rivals
      <4>1. edit'[q] = [edit[q] EXCEPT !.alone = FALSE]
        BY <3>2, <1>5, <1>8, Zenon
      <4> QED
        BY <4>1, <3>1, <2>2, <1>1, EditRivalled, ZenonT(60)
    <3>3. CASE q \notin rivals
      <4>1. edit'[q] = edit[q] /\ lists'[q] = lists[q]
        BY <3>3, <1>1, <1>5, <1>8, Zenon
      <4> QED
        BY <4>1, <3>1, <3>3, <2>2, <1>1, EditStays, ZenonT(60)
    <3> QED
      BY <3>2, <3>3, Zenon
  <2> QED
    BY <2>1, <2>2, Zenon
<1>9. RivalsKnown'
  <2>1. ASSUME NEW a \in Procs, NEW b \in Procs, a # b, edit'[a] # NoEdit,
               edit'[b] # NoEdit, Key(edit'[a]) = Key(edit'[b])
        PROVE  ~edit'[a].alone
    <3>1. \A q \in {a, b} : q # p => /\ edit[q] # NoEdit /\ EditHeld(q)
                                     /\ (edit'[q].alone => edit[q].alone)
                                     /\ Key(edit'[q]) = Key(edit[q])
                                     /\ q \in rivals => ~edit'[q].alone
      BY <2>1, <1>8, Zenon DEF PolicyInv
    <3>2. CASE a = p
      <4>1. b \in rivals
        BY <3>1, <3>2, <2>1, <1>3, <1>4, <1>7, Zenon
      <4> QED
        BY <4>1, <3>2, <1>2, <1>5, Zenon
    <3>3. CASE b = p
      <4>1. a \in rivals
        BY <3>1, <3>3, <2>1, <1>3, <1>4, <1>7, Zenon
      <4> QED
        BY <4>1, <3>1, <3>3, <2>1, Zenon
    <3>4. CASE a # p /\ b # p
      BY <3>1, <3>4, <2>1, Zenon DEF PolicyInv, RivalsKnown
    <3> QED
      BY <3>2, <3>3, <3>4, Zenon
  <2> QED
    BY <2>1, Zenon DEF RivalsKnown, Key, NoEdit
<1>10. ASSUME NEW q \in Procs PROVE edit'[q] = NoEdit \/ EditHeld(q)'
  BY <1>7, <1>8, Zenon DEF PolicyInv
<1>11. \A j \in DOMAIN overrides' : RowHeld(j)'
  BY <1>1, <1>6, Zenon DEF PolicyInv, RowHeld, Weaker
<1>12. \A j \in DOMAIN settled' : "never" \notin settled'[j] => j \in DOMAIN overrides'
  BY <1>1, <1>6, Zenon DEF PolicyInv
<1>13. WeakerIsRecorded'
  BY <1>1, Zenon DEF PolicyInv, WeakerIsRecorded, Recorded, Skeletons
<1> QED
  BY <1>1, <1>5, <1>9, <1>10, <1>11, <1>12, <1>13, Zenon DEF PolicyInv, ListsHeld, NoEdit

\* Every step of the daemons, the operator and the administrator.
LEMMA PolicySteps ==
  ASSUME PolicyInv, [ListsNext]_listVars
  PROVE  PolicyInv'
<1>1. CASE UNCHANGED listVars
  BY <1>1, OutsideEvents, Zenon DEF listVars
<1>2. ASSUME NEW p \in Procs, LoadPolicy(p) PROVE PolicyInv'
  BY <1>2, PolicyLoads, Zenon
<1>3. ASSUME NEW p \in Procs, Crash(p) PROVE PolicyInv'
  BY <1>3, PolicyCrashes, Zenon
<1>4. ASSUME NEW p \in Procs, apply(p) PROVE PolicyInv'
  BY <1>4, PolicyApplies, Zenon
<1>5. ASSUME NEW p \in Procs, NEW outcome \in Outcomes, audit(p, outcome) PROVE PolicyInv'
  BY <1>5, PolicyAudits, Zenon
<1>6. ASSUME NEW p \in Procs, NEW outcome \in Outcomes, persist(p, outcome) PROVE PolicyInv'
  BY <1>6, PolicyPersists, Zenon
<1>7. ASSUME NEW p \in Procs, NEW kind \in {"allow", "term"}, NEW entry \in Entries,
             NEW add \in BOOLEAN, Begin(p, kind, entry, add)
      PROVE  PolicyInv'
  BY <1>7, PolicyBegins, Zenon
<1>8. ASSUME NEW s \in Seeds, ChangeSeed(s) PROVE PolicyInv'
  BY <1>8, OutsideEvents, Zenon DEF ChangeSeed
<1>9. CASE Disable
  BY <1>9, OutsideEvents, Zenon DEF Disable
<1> QED
  BY <1>1, <1>2, <1>3, <1>4, <1>5, <1>6, <1>7, <1>8, <1>9, Zenon DEF ListsNext, Kinds

\* Whatever a daemon lets through that its seed refuses is in the audit log, for
\* every number of daemons, every lists and edits, and after every crash, failed
\* write and restart (edit, LoadPolicy).
THEOREM WeakeningIsAudited == ListsSpec => []WeakerIsRecorded
<1>1. PolicyInv => WeakerIsRecorded
  BY Zenon DEF PolicyInv, WeakerIsRecorded
<1> QED
  BY <1>1, PolicyStarts, PolicySteps, PTL DEF ListsSpec

\* What a start composes for an edited entry is what the last successful edit
\* left, or what an unanswered later one tried to leave, under every seed
\* (replay over list_overrides).
THEOREM EditsOutliveRestarts == ListsSpec => []EditsSurvive
<1>1. ASSUME PolicyInv PROVE EditsSurvive
  <2>1. ASSUME NEW k \in DOMAIN settled, "never" \notin settled[k]
        PROVE  (IF k[2] \in Skeletons(replay(seed[k[1]], k[1]))
                THEN "present" ELSE "removed") \in settled[k]
    <3>1. /\ k \in DOMAIN overrides /\ overrides[k].state \in settled[k]
          /\ overrides[k].state \in {"present", "removed"}
      BY <2>1, <1>1, Zenon DEF PolicyInv, RowHeld
    <3>2. k[2] \in Skeletons(replay(seed[k[1]], k[1])) <=> overrides[k].state = "present"
      BY <3>1, <1>1, RowDecides, Zenon
    <3> QED
      BY <3>1, <3>2, Zenon
  <2> QED
    BY <2>1, Zenon DEF EditsSurvive
<1> QED
  BY <1>1, PolicyStarts, PolicySteps, PTL DEF ListsSpec
================================================================================
