--------------------------------- MODULE Certs ---------------------------------
(***************************************************************************)
(* The server's certificate (internal/transport/http: tls.go, the five     *)
(* providers cert*.go, the guard of certprovider.go): where it comes from  *)
(* at boot, how the renewal loop of the two issuing modes replaces it, and *)
(* what a crash leaves in the cache.                                       *)
(*                                                                         *)
(* A certificate is the key it was made for and its age.  It lives for     *)
(* Lifetime ticks; the cache is a key file and a certificate file, each    *)
(* replaced by a rename of its own.  The certification authority, the      *)
(* operator and the supervisor that restarts the process are external.     *)
(***************************************************************************)
EXTENDS Naturals

CONSTANTS
  Lifetime,       \* ticks between NotBefore and NotAfter
  RenewFraction,  \* share of the lifetime that must remain (acmeRenewFraction)
  SelfSignedRenewBefore, \* ticks before its end a self-signed one is replaced
  CheckInterval,  \* ticks between two looks of the renewal loop
  BackoffMin, BackoffMax, BackoffFactor,
  MaxFailures,    \* bound: failures of the authority, the disk or the operator
  MaxCrashes,     \* bound: crashes of the process
  PromptFailures  \* the failures met by a process that runs promptly

ASSUME CertsAssumption ==
  /\ {Lifetime, CheckInterval, BackoffMin, BackoffMax, BackoffFactor,
      SelfSignedRenewBefore} \subseteq Nat
  /\ RenewFraction \in Nat \ {0} /\ PromptFailures \in Nat

Expired == Lifetime + 1
CertKey == 1..4
NoCert  == [key |-> 0, age |-> 0]
Cert    == [key : CertKey, age : 0..Expired]

VARIABLES
  pace,       \* rough: the process may crash, and time passes at any moment;
              \* prompt: it keeps running, and none while the loop is due or at work
  mode,       \* tls.mode
  keyFile,    \* the key in the key file, 0 when there is none
  certFile,   \* the certificate in the certificate file
  up,         \* the process: down, booting, or serving
  current,    \* the certificate in memory
  signer,     \* the private key held with it, 0 when there is none
  loop,       \* where the renewal loop, or the issuance at boot, is
  fresh,      \* the certificate being stored
  challenge,  \* a TLS-ALPN-01 challenge certificate is installed
  timer, backoff,
  faults, crashes

disk     == <<keyFile, certFile>>
memory   == <<up, current, signer, loop, fresh, challenge, timer, backoff>>
limits   == <<pace, faults, crashes>>
certVars == <<mode, disk, memory, limits>>

Issuing == {"acme", "cloudflare_origin"}
Mode    == Issuing \cup {"self_signed", "manual", "csr"}
AtWork  == {"order", "solve", "finalize", "store_key", "store_cert"}
AwaitsCA == mode = "acme" /\ loop \in {"order", "solve", "finalize"}

CertsTypeOK ==
  /\ pace \in {"rough", "prompt"}
  /\ mode \in Mode
  /\ keyFile \in CertKey \cup {0}
  /\ certFile \in Cert \cup {NoCert}
  /\ up \in {"down", "booting", "serving"}
  /\ current \in Cert \cup {NoCert}
  /\ signer \in CertKey \cup {0}
  /\ loop \in {"off", "idle"} \cup AtWork
  /\ fresh \in Cert \cup {NoCert}
  /\ challenge \in BOOLEAN
  /\ challenge => loop = "solve"
  /\ timer \in 0..CheckInterval + 2 * BackoffMax
  /\ backoff \in 0..2 * BackoffMax
  /\ up = "down" => loop = "off" /\ current = NoCert /\ ~challenge

\* A first start: nothing cached yet, or what the operator installed.
CertsInit ==
  /\ pace \in {"rough", "prompt"}
  /\ mode \in Mode
  /\ IF mode = "manual" THEN keyFile = 1 /\ certFile = [key |-> 1, age |-> 0]
                        ELSE keyFile = 0 /\ certFile = NoCert
  /\ up = "down" /\ current = NoCert /\ signer = 0 /\ loop = "off" /\ fresh = NoCert
  /\ challenge = FALSE /\ timer = 0 /\ backoff = 0
  /\ faults = 0 /\ crashes = 0

\* validateCertificate and checkKeyMatchesLeaf, for a key and a certificate.
Valid(k, c) == c # NoCert /\ k = c.key /\ c.age <= Lifetime

\* Mutant: renewed when it has expired.
NeedsRenewal_Late(c) == c.age > Lifetime

\* acmeNeedsRenewal: less than its share of the lifetime remains.
NeedsRenewal(c) == c.age > Lifetime - Lifetime \div RenewFraction

needsIssuance == current = NoCert \/ NeedsRenewal(current)

\* A key never used for anything that is still around.
NewKey == CHOOSE k \in CertKey : k \notin {keyFile, certFile.key, current.key}

\* loadCachedCert, and the pair of files of the manual and CSR modes.
Cached == IF Valid(keyFile, certFile) THEN certFile ELSE NoCert

\* nextACMEBackoff: doubled within its bounds, plus up to a quarter.
NextBackoff(b) ==
  LET raised == IF b * BackoffFactor < BackoffMin THEN BackoffMin ELSE b * BackoffFactor
      next == IF raised > BackoffMax THEN BackoffMax ELSE raised
  IN {next + spread : spread \in 0..next \div 4}

Failure ==
  /\ faults < IF pace = "prompt" THEN PromptFailures ELSE MaxFailures
  /\ faults' = faults + 1
  /\ UNCHANGED <<pace, crashes>>

GoDown ==
  /\ up' = "down" /\ current' = NoCert /\ signer' = 0 /\ loop' = "off" /\ fresh' = NoCert
  /\ challenge' = FALSE /\ timer' = 0 /\ backoff' = 0

Serving(k, c, t) ==
  /\ up' = "serving" /\ current' = c /\ fresh' = NoCert
  /\ signer' = IF c = NoCert THEN 0 ELSE k
  /\ loop' = IF mode \in Issuing THEN "idle" ELSE "off"
  /\ timer' = t /\ backoff' = 0 /\ UNCHANGED challenge

(***************************************************************************)
(* Boot: newCertProvider and the startup probe of buildTLSConfig.  A boot  *)
(* that fails leaves the process down.                                     *)
(***************************************************************************)
\* The certificate is made in memory, for whichever hosts are configured.
BootSelfSigned ==
  /\ mode = "self_signed" /\ up = "down"
  /\ Serving(NewKey, [key |-> NewKey, age |-> 0], 0)
  /\ UNCHANGED <<mode, disk, limits>>

\* The pair must match, and the probe refuses one that is not valid now.
BootManual ==
  /\ mode = "manual" /\ up = "down" /\ Cached # NoCert
  /\ Serving(keyFile, Cached, 0)
  /\ UNCHANGED <<mode, disk, limits>>

\* The key is created once; the request is written anew; with no signed
\* certificate, or one the probe refuses, the process does not start.
BootCSR ==
  /\ mode = "csr" /\ up = "down"
  /\ IF Cached # NoCert THEN Serving(keyFile, Cached, 0) ELSE UNCHANGED memory
  /\ keyFile' = IF keyFile = 0 THEN NewKey ELSE keyFile
  /\ UNCHANGED <<mode, certFile, limits>>

\* Mutant: the cache is only written, never read.
BootACME_Cold ==
  /\ mode = "acme" /\ up = "down"
  /\ Serving(0, NoCert, 0)
  /\ UNCHANGED <<mode, disk, limits>>

\* The account is registered, or found to exist already; then a usable
\* cached certificate is adopted and the loop looks at once.
BootACME ==
  /\ mode = "acme" /\ up = "down"
  /\ Serving(keyFile, Cached, 0)
  /\ UNCHANGED <<mode, disk, limits>>

\* A failed registration or an unreadable account key: the boot fails.
BootFails ==
  /\ mode \in Issuing /\ up = "down"
  /\ Failure
  /\ UNCHANGED <<mode, disk, memory>>

\* With nothing usable in the cache the first certificate is obtained before
\* the server starts.
BootOrigin ==
  /\ mode = "cloudflare_origin" /\ up = "down"
  /\ IF Cached # NoCert THEN Serving(keyFile, Cached, CheckInterval)
     ELSE /\ up' = "booting" /\ loop' = "order"
          /\ UNCHANGED <<current, signer, fresh, challenge, timer, backoff>>
  /\ UNCHANGED <<mode, disk, limits>>

(***************************************************************************)
(* Issuance.                                                               *)
(***************************************************************************)
\* renewalLoop: the timer fires and the certificate is looked at.
Check ==
  /\ loop = "idle" /\ timer = 0
  /\ IF needsIssuance THEN loop' = "order" /\ UNCHANGED timer
                      ELSE timer' = CheckInterval /\ UNCHANGED loop
  /\ UNCHANGED <<mode, disk, up, current, signer, fresh, challenge, backoff, limits>>

\* obtain of the ACME mode: the order, then each authorization, for which the
\* challenge is shown until the deferred release takes it away again.
AuthorizeOrder ==
  /\ mode = "acme" /\ loop = "order"
  /\ loop' = "solve" /\ challenge' = TRUE
  /\ UNCHANGED <<mode, disk, up, current, signer, fresh, timer, backoff, limits>>

SolveAuthorization ==
  /\ mode = "acme" /\ loop = "solve"
  /\ loop' = "finalize" /\ challenge' = FALSE
  /\ UNCHANGED <<mode, disk, up, current, signer, fresh, timer, backoff, limits>>

\* finalize: a new key, and a certificate for it that validateCertificate
\* accepts.  A lost answer is fetched again by its order.
Finalize ==
  /\ mode = "acme" /\ loop = "finalize"
  /\ fresh' = [key |-> NewKey, age |-> 0]
  /\ loop' = "store_key"
  /\ UNCHANGED <<mode, disk, up, current, signer, challenge, timer, backoff, limits>>

\* obtain of the origin mode: one request carries a new key's CSR.
RequestCertificate ==
  /\ mode = "cloudflare_origin" /\ loop = "order"
  /\ fresh' = [key |-> NewKey, age |-> 0]
  /\ loop' = "store_key"
  /\ UNCHANGED <<mode, disk, up, current, signer, challenge, timer, backoff, limits>>

\* storeCachedCert: first the key file is replaced, then the certificate file.
StoreKey ==
  /\ loop = "store_key"
  /\ keyFile' = fresh.key
  /\ loop' = "store_cert"
  /\ UNCHANGED <<mode, certFile, up, current, signer, fresh, challenge, timer, backoff, limits>>

\* The certificate is adopted once both are on disk; the loop rests.
StoreCert ==
  /\ loop = "store_cert"
  /\ certFile' = fresh
  /\ Serving(fresh.key, fresh, CheckInterval)
  /\ UNCHANGED <<mode, keyFile, limits>>

\* Mutant: the timer is not set again.
Retry_Off ==
  /\ up' = "serving" /\ loop' = "off" /\ fresh' = NoCert /\ challenge' = FALSE
  /\ backoff' \in NextBackoff(backoff) /\ timer' = backoff'
  /\ UNCHANGED <<current, signer>>

\* The attempt failed: the loop waits, and what is served stays as it was.
Retry ==
  /\ up' = "serving" /\ loop' = "idle" /\ fresh' = NoCert /\ challenge' = FALSE
  /\ backoff' \in NextBackoff(backoff) /\ timer' = backoff'
  /\ UNCHANGED <<current, signer>>

\* The authority refuses or cannot be reached, its certificate is rejected, or
\* a file cannot be written.  At boot the process gives up.
AttemptFails ==
  /\ loop \in AtWork
  /\ Failure
  /\ IF up = "booting" THEN GoDown ELSE Retry
  /\ UNCHANGED <<mode, disk>>

(***************************************************************************)
(* Handshakes, stops, and the surroundings.                                *)
(***************************************************************************)
\* selfSignedProvider.GetCertificate makes a new one shortly before the old
\* one expires (selfSignedRenewBefore); every other mode hands out what it has, and the guard
\* validates each time, so an expired certificate is refused, not served.
Handshake ==
  /\ mode = "self_signed" /\ up = "serving" /\ current.age >= Lifetime - SelfSignedRenewBefore
  /\ current' = [key |-> NewKey, age |-> 0] /\ signer' = NewKey
  /\ UNCHANGED <<mode, disk, up, loop, fresh, challenge, timer, backoff, limits>>

ProcessEnds ==
  /\ pace = "rough" /\ crashes < MaxCrashes
  /\ crashes' = crashes + 1
  /\ GoDown
  /\ UNCHANGED <<mode, disk, pace, faults>>

\* Close: the context is cancelled, which ends an attempt at its next call to
\* the authority, never between the two files; then the loop returns.
Close ==
  /\ up = "serving" /\ loop \notin {"store_key", "store_cert"}
  /\ ProcessEnds

\* The process dies, wherever it is.
ProcessDies == up # "down" /\ ProcessEnds

\* The operator replaces the pair, one file after the other, or installs the
\* certificate that was signed for the request.
OperatorInstalls ==
  /\ \/ /\ mode = "manual" /\ keyFile = certFile.key /\ NeedsRenewal(certFile)
        /\ keyFile' = NewKey /\ UNCHANGED certFile
     \/ /\ mode = "manual" /\ keyFile # certFile.key
        /\ certFile' = [key |-> keyFile, age |-> 0] /\ UNCHANGED keyFile
     \/ /\ mode = "csr" /\ keyFile # 0 /\ (certFile = NoCert \/ NeedsRenewal(certFile))
        /\ certFile' = [key |-> keyFile, age |-> 0] /\ UNCHANGED keyFile
  /\ UNCHANGED <<mode, memory, limits>>

Older(c) == IF c = NoCert \/ c.age = Expired THEN c ELSE [c EXCEPT !.age = @ + 1]

\* Writing two small files takes no time on this scale.
Tick ==
  /\ loop \notin {"store_key", "store_cert"}
  /\ pace = "prompt" => loop \notin AtWork /\ ~(loop = "idle" /\ timer = 0) /\ up = "serving"
  /\ certFile' = Older(certFile) /\ current' = Older(current)
  /\ timer' = IF timer = 0 THEN 0 ELSE timer - 1
  /\ UNCHANGED <<mode, keyFile, up, signer, loop, fresh, challenge, backoff, limits>>

StartUp == BootSelfSigned \/ BootManual \/ BootCSR \/ BootACME \/ BootOrigin
Authority == AuthorizeOrder \/ SolveAuthorization \/ Finalize
Loop == Check \/ RequestCertificate \/ StoreKey \/ StoreCert

CertsNext ==
  \/ StartUp \/ BootFails \/ Loop \/ Authority \/ AttemptFails \/ Handshake
  \/ Close \/ ProcessDies \/ OperatorInstalls \/ Tick

\* The supervisor restarts the process, whose start and whose requests to the
\* origin CA have timeouts, the loop's goroutine runs, clients come, time passes,
\* and the operator installs what they are asked for.  An ACME order has neither
\* a deadline nor a client with a timeout: the CA need not ever answer, so there
\* is no fairness of Authority.
CertsFairness ==
  /\ WF_certVars(StartUp) /\ WF_certVars(Loop) /\ WF_certVars(Handshake)
  /\ WF_certVars(OperatorInstalls) /\ WF_certVars(Tick)

CertsSpec == CertsInit /\ [][CertsNext]_certVars /\ CertsFairness

(***************************************************************************)
(* Properties.                                                             *)
(***************************************************************************)
\* An order is placed only when there is nothing usable in memory nor in the
\* cache, or the certificate in use is due: a restart that finds a usable
\* cached certificate orders nothing (newACMEProviderWithClient and
\* newOriginCAProviderWithClient adopt it, renewalLoop decides).
OrderedOnlyWhenDue ==
  [][loop' = "order" /\ loop # "order"
       => \/ current # NoCert /\ NeedsRenewal(current)
          \/ current = NoCert /\ ~(Valid(keyFile, certFile) /\ ~NeedsRenewal(certFile))]_certVars

\* The certificate in memory is one the server holds the key of, also when a
\* crash has torn the cached pair (loadCachedCert); and a server that makes or
\* orders its certificate has a usable one again and again, after failures, a
\* torn cache or an expiry (renewalLoop), unless one call to an ACME authority
\* never returns: nothing ends it, and the loop waits for ever (obtain).
ServesAgain ==
  /\ [](current # NoCert => signer = current.key)
  /\ mode \in Issuing \cup {"self_signed"} =>
       \/ []<>(up = "serving" /\ Valid(signer, current))
       \/ <>[]AwaitsCA

\* With the loop scheduled promptly, and orders that take no time, a running issuing
\* server renews before the certificate expires, in spite of the failures the bound
\* allows (acmeNeedsRenewal, nextACMEBackoff).
NeverLapses == pace = "prompt" /\ mode \in Issuing /\ up = "serving" => current.age <= Lifetime
================================================================================
