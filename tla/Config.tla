------------------------------- MODULE Config -------------------------------
(***************************************************************************)
(* The operator's configuration, what Validate accepts of it, and what    *)
(* the start-up constructors then require of it (internal/config, and the *)
(* constructors cmd/valletd calls).  A value is the class of values the   *)
(* code tells apart: a path is set or not, a duration is negative, zero,  *)
(* fine or too long.  An address is kept as it is written, since one      *)
(* socket may be written in several ways.                                 *)
(***************************************************************************)
EXTENDS Naturals, Sequences, FiniteSets, Functions, TLC

\* host:port as it is written; the host of ":443" is blank.
Addr(host, port) == [host |-> host, port |-> port]
Unset == Addr("unset", "none")
BadAddr == Addr("unparsable", "none")

Refs == {"none", "malformed", "missing", "short", "good"}
Spans == {"negative", "zero", "fine", "long"}

\* Every field Validate reads, section by section, with the classes of values
\* it may hold.
ServerConfig ==
  [environment |-> {"production", "development", "other"},
   public_base_url |-> {"unset", "http", "https"},
   trusted_proxies |-> {"none", "listed", "bad"},
   listen_addr |-> {Addr("blank", "443"), Addr("10.0.0.1", "443"), Addr("::0", "443"),
                    Addr("0.0.0.0", "https")},
   health_listen_addr |-> {Unset, BadAddr, Addr("blank", "8080"), Addr("203.0.113.1", "8080"),
                           Addr("10.0.0.1", "443"), Addr("127.0.0.1", "8080"),
                           Addr("localhost", "8443")}]

TLSConfig ==
  [min_version |-> {"1.1", "1.3"},
   mode |-> {"unset", "unknown", "acme", "cloudflare_origin", "manual", "csr",
             "upstream", "self_signed"},
   allow_self_signed |-> BOOLEAN]

\* The sections of the modes that read a certificate or take none.
ManualTLSConfig ==
  [files |-> BOOLEAN,             \* the certificate, key and CSR paths of the mode
   domain |-> {"unset", "dotless", "fqdn"},
   upstream_addr |-> {Unset, Addr("blank", "8443"), Addr("127.0.0.1", "8443")}]

CloudflareOriginConfig ==
  [api_token_ref |-> Refs,
   cache_dir |-> BOOLEAN,
   validity_days |-> BOOLEAN     \* one of the accepted values
  ]

ACMEConfig ==
  [solver |-> {"unset", "unknown", "tls_alpn_01", "dns_01"},
   directory |-> BOOLEAN,         \* the directory URL and the account key path
   accept_tos |-> BOOLEAN]

ACMEDNSConfig ==
  [dns_mode |-> {"unset", "unknown", "manual", "api"},
   dns_provider |-> {"unset", "unknown", "rfc2136", "gandi"},
   credentials_ref |-> Refs,
   credentials_refs |-> {<<>>, <<"good">>, <<"missing">>, <<"malformed">>, <<"none">>,
                         <<"good", "good">>},   \* the named ones; none: an empty name or value
   tsig |-> {"unset", "malformed", "fine"}      \* the server, key name and algorithm
  ]

DatabaseConfig ==
  [driver |-> {"sqlite", "postgres", "other"},
   path |-> BOOLEAN,
   dsn_ref |-> Refs]

AuthConfig ==
  [access_token_ttl |-> Spans,
   refresh_token_max_age |-> {"zero", "fine"},
   access_key_grace_window |-> Spans,
   providers |-> BOOLEAN,
   token_signing_key_ref |-> Refs,
   admin_token_signing_key_ref |-> Refs,
   access_key_pepper_ref |-> Refs]

RateLimitConfig ==
  [rate_limit |-> BOOLEAN,
   store |-> {"memory", "shared", "other"},
   shared_address |-> {"unset", "unparsable", "password", "fine"},
   shared_password_ref |-> Refs,
   tiers |-> BOOLEAN]

TelemetryConfig ==
  [log |-> BOOLEAN,               \* a known level and format
   otlp |-> {"off", "unset", "bad", "fine"},
   headers_ref |-> Refs,
   traces |-> {"off", "unset", "bad", "fine"},
   sample_ratio |-> BOOLEAN,
   prometheus_addr |-> {Unset, BadAddr, Addr("0.0.0.0", "443"), Addr("::", "8443"),
                        Addr("127.0.0.1", "8080"), Addr("blank", "9090")},
   prometheus_path |-> BOOLEAN]

OnboardingConfig ==
  [onboarding_mode |-> {"invite", "open", "other"}]

\* No section of Validate reads it.
BlocklistConfig ==
  [blocklist |-> BOOLEAN]         \* the seed file and the entries can be read and installed

RetentionConfig ==
  [handle_quarantine |-> Spans,
   audit_retention |-> Spans,
   audit_purge_interval |-> Spans,
   batches |-> BOOLEAN,           \* the four batch and limit fields
   handle_quarantine_sweep_interval |-> Spans,
   access_key_grace_sweep_interval |-> Spans,
   max_sets_per_owner |-> BOOLEAN]

Domains ==
  ServerConfig @@ TLSConfig @@ ManualTLSConfig @@ CloudflareOriginConfig @@
  ACMEConfig @@ ACMEDNSConfig @@ DatabaseConfig @@ AuthConfig @@
  RateLimitConfig @@ TelemetryConfig @@ OnboardingConfig @@ BlocklistConfig @@
  RetentionConfig

Fields == DOMAIN Domains

prod(c) == c.environment = "production"
Given(ref) == ref # "none"
Positive(span) == span \in {"fine", "long"}

-----------------------------------------------------------------------------
(* Addresses                                                              *)

Parses(a) == a \notin {Unset, BadAddr}
isWildcardHost(a) == a.host \in {"blank", "0.0.0.0", "::"}

\* Mutant: equal strings only.
addrsOverlap_SameHost(a, b) == Parses(a) /\ Parses(b) /\ a = b

\* Hosts and ports are compared as they are written.
addrsOverlap(a, b) ==
  /\ Parses(a) /\ Parses(b)
  /\ a.port = b.port
  /\ isWildcardHost(a) \/ isWildcardHost(b) \/ a.host = b.host

\* localhost, or an address that is loopback or private.
validatePrivateBindAddr(a) == Parses(a) /\ a.host \in {"localhost", "127.0.0.1", "10.0.0.1"}

\* The one application listener of the mode.
AppAddr(c) == IF c.mode = "upstream" THEN c.upstream_addr ELSE c.listen_addr

\* activeListeners: the scrape listener is not among them.
activeListeners(c) ==
  <<AppAddr(c)>> \o (IF c.health_listen_addr = Unset THEN <<>>
                     ELSE <<c.health_listen_addr>>)

validateListenerOverlap(c) ==
  LET l == activeListeners(c) IN
  \A i, j \in DOMAIN l : i < j => ~addrsOverlap(l[i], l[j])

-----------------------------------------------------------------------------
(* The sections of Validate                                               *)

validateTrustedProxies(c) == c.trusted_proxies # "bad"

validateServer(c) ==
  /\ c.environment \in {"production", "development"}
  /\ prod(c) => c.public_base_url = "https"
  /\ validateTrustedProxies(c)
  /\ c.health_listen_addr # Unset => validatePrivateBindAddr(c.health_listen_addr)

isFQDN(c) == c.domain = "fqdn"
NamesHost(c) == c.domain # "unset" /\ (prod(c) => isFQDN(c))

validateCloudflareOrigin(c) ==
  /\ Given(c.api_token_ref) /\ c.cache_dir /\ c.validity_days
  /\ NamesHost(c)
  /\ c.trusted_proxies # "none"

\* One source of credentials, and nothing empty in it.
validateACMEDNSCredentials(c) ==
  /\ Given(c.credentials_ref) <=> c.credentials_refs = <<>>
  /\ "none" \notin Range(c.credentials_refs)

\* Only that the settings are there, and that the algorithm is known.
validateACMEDNSRFC2136(c) == c.tsig # "unset"

validateACMEDNS(c) ==
  \/ c.dns_mode = "manual"
  \/ /\ c.dns_mode = "api" /\ c.dns_provider # "unset"
     /\ validateACMEDNSCredentials(c)
     /\ c.dns_provider = "rfc2136" => validateACMEDNSRFC2136(c)

validateACME(c) ==
  /\ NamesHost(c)
  /\ c.solver \in {"tls_alpn_01", "dns_01"}
  /\ c.solver = "dns_01" => validateACMEDNS(c)
  /\ c.directory /\ c.cache_dir /\ c.accept_tos

validateTLS(c) ==
  /\ c.min_version # "1.1"
  /\ \/ c.mode = "acme" /\ validateACME(c)
     \/ c.mode = "cloudflare_origin" /\ validateCloudflareOrigin(c)
     \/ c.mode = "manual" /\ c.files
     \/ c.mode = "csr" /\ c.domain # "unset" /\ c.files
     \/ /\ c.mode = "upstream" /\ c.trusted_proxies # "none"
        /\ validatePrivateBindAddr(c.upstream_addr)
     \/ c.mode = "self_signed" /\ (prod(c) => c.allow_self_signed)
  /\ c.mode # "upstream" => c.upstream_addr = Unset

validateDatabase(c) ==
  \/ c.driver = "sqlite" /\ c.path
  \/ c.driver = "postgres" /\ Given(c.dsn_ref)

validateAuth(c) ==
  /\ c.access_token_ttl = "fine" /\ c.refresh_token_max_age = "fine"
  /\ c.access_key_grace_window = "fine" /\ c.providers
  /\ prod(c) => /\ Given(c.token_signing_key_ref)
                /\ Given(c.admin_token_signing_key_ref)
                /\ Given(c.access_key_pepper_ref)

\* inspectRedisAddress finds no password in an address it cannot parse.
validateRateLimit(c) ==
  c.rate_limit =>
    /\ c.store \in {"memory", "shared"}
    /\ c.store = "shared" => c.shared_address \in {"unparsable", "fine"}
    /\ c.tiers

validatePrometheus(c) ==
  c.prometheus_addr # Unset =>
    /\ Parses(c.prometheus_addr)
    /\ ~addrsOverlap(c.prometheus_addr, c.listen_addr)
    /\ c.prometheus_path

validateTelemetry(c) ==
  /\ c.log /\ c.sample_ratio
  /\ c.otlp \in {"off", "fine"} /\ c.traces \in {"off", "fine"}
  /\ validatePrometheus(c)

validateOnboarding(c) == c.onboarding_mode \in {"invite", "open"}

validateRetention(c) ==
  /\ Positive(c.handle_quarantine) /\ Positive(c.audit_retention)
  /\ c.audit_purge_interval # "negative"
  /\ c.handle_quarantine_sweep_interval # "negative"
  /\ c.access_key_grace_sweep_interval # "negative"
  /\ Positive(c.access_key_grace_sweep_interval) => Given(c.access_key_pepper_ref)
  /\ c.batches /\ c.max_sets_per_owner

allRefs(c) ==
  {c.credentials_ref, c.api_token_ref, c.dsn_ref, c.token_signing_key_ref,
   c.admin_token_signing_key_ref, c.access_key_pepper_ref,
   c.shared_password_ref, c.headers_ref} \cup Range(c.credentials_refs)

validateRefs(c) == "malformed" \notin allRefs(c)

Validate(c) ==
  /\ validateServer(c) /\ validateTLS(c) /\ validateDatabase(c)
  /\ validateAuth(c) /\ validateRateLimit(c) /\ validateTelemetry(c)
  /\ validateOnboarding(c) /\ validateRetention(c) /\ validateRefs(c)
  /\ validateListenerOverlap(c)

-----------------------------------------------------------------------------
(* What start-up requires                                                 *)

SharedStore(c) == c.rate_limit /\ c.store = "shared"

\* RequiredSecretRefs: the references this configuration will use.
RequiredSecretRefs(c) ==
  UNION {IF c.driver = "postgres" THEN {c.dsn_ref} ELSE {},
         IF c.mode = "cloudflare_origin" THEN {c.api_token_ref} ELSE {},
         IF prod(c) THEN {c.token_signing_key_ref, c.admin_token_signing_key_ref}
         ELSE {},
         IF prod(c) \/ Given(c.access_key_pepper_ref)
         THEN {c.access_key_pepper_ref} ELSE {},
         IF SharedStore(c) /\ Given(c.shared_password_ref)
         THEN {c.shared_password_ref} ELSE {}}

\* A reference resolves unless the secret it names is not there.
Resolves(ref) == ref \in {"short", "good"}
ResolveRequiredSecrets(c) == \A ref \in RequiredSecretRefs(c) : Resolves(ref)

\* openDatabase: a Postgres DSN is a secret.
postgresDSN(c) == Resolves(c.dsn_ref)
openDatabase(c) == c.driver = "postgres" => postgresDSN(c)

newRetentionScheduler(c) ==
  c.audit_purge_interval # "zero" =>
    /\ Positive(c.audit_retention) /\ c.batches
    /\ Positive(c.audit_purge_interval)

addHandleQuarantineSweep(c) ==
  c.handle_quarantine_sweep_interval # "zero" =>
    Positive(c.handle_quarantine_sweep_interval)

\* accesskey.New refuses a short pepper and a window that is not positive.
newAccessKeySweepService(c) ==
  c.access_key_pepper_ref = "good" /\ Positive(c.access_key_grace_window)

addAccessKeyGraceSweep(c) ==
  c.access_key_grace_sweep_interval # "zero" =>
    /\ newAccessKeySweepService(c)
    /\ Positive(c.access_key_grace_sweep_interval)

newSweepRunner(c) == addHandleQuarantineSweep(c) /\ addAccessKeyGraceSweep(c)

newSharedCounterStore(c) == SharedStore(c) => c.shared_address # "unparsable"

\* A secret that production requires and other environments may leave out;
\* one that is given must resolve, and be long enough for its constructor.
KeyMaterial(c, ref) == IF Given(ref) THEN ref = "good" ELSE ~prod(c)

accessKeyPepper(c) == KeyMaterial(c, c.access_key_pepper_ref)
tokenSigningKey(c) == KeyMaterial(c, c.token_signing_key_ref)
adminTokenSigningKey(c) == KeyMaterial(c, c.admin_token_signing_key_ref)

\* The seed of the name lists is installed, or the daemon does not start.
newNamePolicy(c) == c.blocklist

\* Without its secret a surface is left out.
newPublisher(c) == accessKeyPepper(c)
mountOwnerManagement(c) == tokenSigningKey(c)
mountAdminIdentifier(c) == adminTokenSigningKey(c)
buildAPIDeps(c) ==
  newPublisher(c) /\ newNamePolicy(c) /\ mountOwnerManagement(c) /\ mountAdminIdentifier(c)

DNSCredentials(c) ==
  IF c.credentials_refs # <<>> THEN c.credentials_refs ELSE <<c.credentials_ref>>

resolveDNSCredentials(c) == \A ref \in Range(DNSCredentials(c)) : Resolves(ref)

\* Credentials.Single: both vendors here authenticate with one value.
Single(c) == Len(DNSCredentials(c)) = 1

\* host:port for the server and a domain name for the key.
NewRFC2136(c) == Single(c) /\ c.tsig = "fine"

newDNSProvider(c) ==
  \/ c.dns_mode = "manual"
  \/ /\ c.dns_mode = "api" /\ resolveDNSCredentials(c)
     /\ IF c.dns_provider = "rfc2136" THEN NewRFC2136(c)
        ELSE c.dns_provider # "unknown" /\ Single(c)

newACMEProviderForSolver(c) ==
  /\ c.accept_tos
  /\ c.solver = "tls_alpn_01" \/ (c.solver = "dns_01" /\ newDNSProvider(c))

newCertProvider(c) ==
  \/ c.mode \in {"manual", "csr"}
  \/ c.mode = "self_signed" /\ (prod(c) => c.allow_self_signed)
  \/ c.mode = "acme" /\ newACMEProviderForSolver(c)
  \/ /\ c.mode = "cloudflare_origin"
     /\ Resolves(c.api_token_ref) /\ c.trusted_proxies # "none"

buildTLSConfig(c) == c.min_version # "1.1" /\ newCertProvider(c)

\* buildServer or, in upstream mode, buildUpstreamServer, which takes no
\* certificate.
buildServer(c) == c.mode # "upstream" => buildTLSConfig(c)
=============================================================================
