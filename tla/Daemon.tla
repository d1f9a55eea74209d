------------------------------- MODULE Daemon -------------------------------
(***************************************************************************)
(* valletd from start to exit: the start-up sequence of run, the          *)
(* listeners and the background jobs serve starts, the drain after a      *)
(* signal, and the deferred closes (cmd/valletd over internal/sweep, the  *)
(* servers of internal/transport/http and internal/telemetry).            *)
(***************************************************************************)
EXTENDS Config

CONSTANTS
  Configs,     \* the configurations the operator may start with
  Faulty,      \* the configurations explored with faults and traffic
  Jobs         \* the background jobs: the purge and the two sweeps

\* Every reference, interval and setting of RFC 2136 is of one of the classes the
\* code tells apart.
ASSUME ConfigsAssumption ==
  \A c \in Configs :
    /\ allRefs(c) \subseteq Refs
    /\ c.credentials_refs \in Seq(Refs)
    /\ c.tsig \in ACMEDNSConfig.tsig
    /\ {c.audit_purge_interval, c.handle_quarantine_sweep_interval,
        c.access_key_grace_sweep_interval} \subseteq Spans

VARIABLES
  cfg,         \* the configuration
  main,        \* where run and serve are
  open,        \* what run has opened, in order; closed from the end
  cert,        \* the certificate provider and its renewal loop
  listener,    \* listener[l] for the three servers
  errCh,       \* what the application listener's goroutine sent
  live,        \* whether the signal context is still live
  asked,       \* whether a termination signal arrived
  trapped,     \* whether a signal is still caught rather than fatal
  grace,       \* whether the drain's deadline passed
  job,         \* job[j]: off, waiting, in a pass, or returned
  handling     \* whether a request is in a handler

vars == <<cfg, main, open, cert, listener, errCh, live, asked, trapped, grace,
          job, handling>>

Listeners == {"app", "metrics", "health"}

\* The steps of run in order, each with what the configuration must satisfy.
Boot == <<"validate", "database", "migrate", "fold", "secrets", "purge",
          "sweeps", "counters", "telemetry", "deps", "server">>

Accepts(step, c) ==
  CASE step = "validate"  -> Validate(c)
    [] step = "database"  -> openDatabase(c)
    [] step = "secrets"   -> ResolveRequiredSecrets(c)
    [] step = "purge"     -> newRetentionScheduler(c)
    [] step = "sweeps"    -> newSweepRunner(c)
    [] step = "counters"  -> newSharedCounterStore(c)
    [] step = "deps"      -> buildAPIDeps(c)
    [] step = "server"    -> buildServer(c)
    [] OTHER              -> TRUE

\* The steps that open something a deferred call closes.
Opens == {"database", "counters", "telemetry"}

Successor(step) ==
  LET i == CHOOSE i \in DOMAIN Boot : Boot[i] = step IN
  IF i = Len(Boot) THEN "serve" ELSE Boot[i + 1]

Ended == main \in {"exited", "killed"}
Booting == main \in Range(Boot)

\* One step of run.  Constructors that check the configuration refuse here.
BootStep ==
  /\ Booting /\ Accepts(main, cfg)
  /\ main' = Successor(main)
  /\ open' = IF main \in Opens THEN Append(open, main) ELSE open
  /\ cert' = IF main = "server" /\ cfg.mode # "upstream" THEN "running" ELSE cert
  /\ UNCHANGED <<cfg, listener, errCh, live, asked, trapped, grace, job, handling>>

\* An error return: the deferred calls of run follow.
BootRefused ==
  /\ Booting /\ ~Accepts(main, cfg)
  /\ main' = IF main = "validate" THEN "exited" ELSE "refused"
  /\ UNCHANGED <<cfg, open, cert, listener, errCh, live, asked, trapped, grace,
                 job, handling>>

\* The database, the key server or a file fails.
BootFault ==
  /\ cfg \in Faulty
  /\ Booting /\ main \notin {"validate", "telemetry"}
  /\ main' = "unwind"
  /\ UNCHANGED <<cfg, open, cert, listener, errCh, live, asked, trapped, grace,
                 job, handling>>

Enabled(j) ==
  CASE j = "purge"   -> cfg.audit_purge_interval # "zero"
    [] j = "handles" -> cfg.handle_quarantine_sweep_interval # "zero"
    [] j = "grace"   -> cfg.access_key_grace_sweep_interval # "zero"

AddrOf(l) ==
  CASE l = "app"     -> AppAddr(cfg)
    [] l = "metrics" -> cfg.prometheus_addr
    [] l = "health"  -> cfg.health_listen_addr

\* The start of serve: the signal context, startRetention and startSweeps,
\* and the goroutines of the listeners.
StartServing ==
  /\ main = "serve"
  /\ main' = "select"
  /\ trapped' = TRUE
  /\ job' = [j \in Jobs |-> IF Enabled(j) THEN "wait" ELSE "off"]
  /\ listener' = [l \in Listeners |->
                    IF AddrOf(l) = Unset THEN "off" ELSE "starting"]
  /\ UNCHANGED <<cfg, open, cert, errCh, live, asked, grace, handling>>

-----------------------------------------------------------------------------
(* The listeners                                                          *)

\* What net.Listen makes of an address: one spelling for every interface, the
\* address of a name, the number of a service.
Interface(a) ==
  CASE a.host \in {"blank", "0.0.0.0", "::", "::0"} -> "0.0.0.0"
    [] a.host = "localhost"                    -> "127.0.0.1"
    [] OTHER                                   -> a.host

PortNumber(a) == IF a.port = "https" THEN "443" ELSE a.port

\* The kernel's rule: a port is taken on an interface, and by a socket on every
\* interface on each of them.
Collide(a, b) ==
  /\ Parses(a) /\ Parses(b)
  /\ PortNumber(a) = PortNumber(b)
  /\ Interface(a) = Interface(b) \/ "0.0.0.0" \in {Interface(a), Interface(b)}

\* An address in figures: not a name, not a service, and zeros as Go prints them.
InFigures(a) == a.host \notin {"localhost", "::0"} /\ a.port # "https"

TakenByOwn(l) ==
  \E k \in Listeners \ {l} :
    listener[k] = "listening" /\ Collide(AddrOf(k), AddrOf(l))

\* net.Listen, then Serve.  A server already shut down returns at once with
\* no error; a failed bind is an error that only the application's matters.
ListenAndServe(l, free) ==
  /\ ~Ended
  /\ listener[l] \in {"starting", "shut"}
  /\ ~free => cfg \in Faulty
  /\ LET got == IF TakenByOwn(l) THEN "own"
                ELSE IF ~free THEN "taken"
                ELSE IF listener[l] = "shut" THEN "closed" ELSE "listening" IN
     /\ listener' = [listener EXCEPT ![l] = got]
     /\ errCh' = IF l # "app" \/ got = "listening" THEN errCh
                 ELSE IF got = "closed" THEN "nil" ELSE "error"
  /\ UNCHANGED <<cfg, main, open, cert, live, asked, trapped, grace, job, handling>>

\* The accept loop of the application listener fails on its own.
ListenerDies ==
  /\ cfg \in Faulty
  /\ listener["app"] = "listening" /\ main = "select"
  /\ listener' = [listener EXCEPT !["app"] = "taken"]
  /\ errCh' = "error"
  /\ UNCHANGED <<cfg, main, open, cert, live, asked, trapped, grace, job, handling>>

Request ==
  /\ cfg \in Faulty
  /\ ~Ended
  /\ listener["app"] = "listening" /\ ~handling
  /\ handling' = TRUE
  /\ UNCHANGED <<cfg, main, open, cert, listener, errCh, live, asked, trapped,
                 grace, job>>

Response ==
  /\ handling
  /\ ~Ended
  /\ handling' = FALSE
  /\ UNCHANGED <<cfg, main, open, cert, listener, errCh, live, asked, trapped,
                 grace, job>>

-----------------------------------------------------------------------------
(* The background jobs                                                    *)

\* The first pass, or the timer fires; the loop looks at the context again
\* before it makes the pass.
runJob(j) ==
  /\ job[j] = "wait" /\ live
  /\ job' = [job EXCEPT ![j] = "pass"]
  /\ UNCHANGED <<cfg, main, open, cert, listener, errCh, live, asked, trapped,
                 grace, handling>>

\* Mutant: a panic is not recovered, and ends the job where faults are met.
runGuarded_Panics(j, outcome) ==
  /\ job[j] = "pass"
  /\ job' = [job EXCEPT ![j] = IF outcome = "panic" /\ cfg \in Faulty
                                 THEN "returned" ELSE "wait"]
  /\ UNCHANGED <<cfg, main, open, cert, listener, errCh, live, asked, trapped,
                 grace, handling>>

\* A pass ends with success, an error, or a panic that is recovered.
runGuarded(j, outcome) ==
  /\ job[j] = "pass"
  /\ job' = [job EXCEPT ![j] = "wait"]
  /\ UNCHANGED <<cfg, main, open, cert, listener, errCh, live, asked, trapped,
                 grace, handling>>

jobReturns(j) ==
  /\ job[j] = "wait" /\ ~live
  /\ job' = [job EXCEPT ![j] = "returned"]
  /\ UNCHANGED <<cfg, main, open, cert, listener, errCh, live, asked, trapped,
                 grace, handling>>

-----------------------------------------------------------------------------
(* serve, from its select                                                 *)

Signal ==
  /\ trapped /\ ~asked /\ cfg \in Faulty
  /\ ~Ended
  /\ asked' = TRUE /\ live' = FALSE
  /\ UNCHANGED <<cfg, main, open, cert, listener, errCh, trapped, grace, job,
                 handling>>

\* Before serve and once stop was called a signal has its default disposition.
FatalSignal ==
  /\ cfg \in Faulty /\ ~trapped
  /\ ~Ended
  /\ main' = "killed"
  /\ UNCHANGED <<cfg, open, cert, listener, errCh, live, asked, trapped, grace,
                 job, handling>>

\* The application listener's error ends serve.
SelectError ==
  /\ main = "select" /\ errCh # "empty"
  /\ main' = "stop"
  /\ errCh' = "empty"
  /\ UNCHANGED <<cfg, open, cert, listener, live, asked, trapped, grace, job,
                 handling>>

SelectDone ==
  /\ main = "select" /\ ~live
  /\ main' = "shut_metrics"
  /\ trapped' = FALSE
  /\ UNCHANGED <<cfg, open, cert, listener, errCh, live, asked, grace, job,
                 handling>>

\* Shutdown of one server: no more connections; a server whose goroutine
\* has not reached Listen will find itself shut down.
Shut(l) ==
  listener' = [listener EXCEPT ![l] =
                 CASE @ = "listening" -> "closed"
                   [] @ = "starting"  -> "shut"
                   [] OTHER           -> @]

ShutMetrics ==
  /\ main = "shut_metrics"
  /\ Shut("metrics")
  /\ main' = "shut_health"
  /\ UNCHANGED <<cfg, open, cert, errCh, live, asked, trapped, grace, job, handling>>

ShutHealth ==
  /\ main = "shut_health"
  /\ Shut("health")
  /\ main' = "shut_app"
  /\ UNCHANGED <<cfg, open, cert, errCh, live, asked, trapped, grace, job, handling>>

\* Server.Shutdown first stops accepting; the goroutine of a listener that
\* was serving returns with no error.
ShutApp ==
  /\ main = "shut_app"
  /\ Shut("app")
  /\ errCh' = IF listener["app"] = "listening" THEN "nil" ELSE errCh
  /\ main' = "drain"
  /\ UNCHANGED <<cfg, open, cert, live, asked, trapped, grace, job, handling>>

\* The drain ends with the last request, or with the deadline, after which
\* the connections are closed under the handlers; the certificate provider
\* is closed either way.
Drained ==
  /\ main = "drain" /\ ~handling
  /\ cert' = IF cert = "running" THEN "closed" ELSE cert
  /\ main' = "await"
  /\ UNCHANGED <<cfg, open, listener, errCh, live, asked, trapped, grace, job,
                 handling>>

DrainExpires ==
  /\ main = "drain" /\ handling
  /\ grace' = TRUE
  /\ cert' = IF cert = "running" THEN "closed" ELSE cert
  /\ main' = "stop"
  /\ UNCHANGED <<cfg, open, listener, errCh, live, asked, trapped, job, handling>>

\* The last receive of serve.
AwaitListener ==
  /\ main = "await" /\ errCh # "empty"
  /\ errCh' = "empty"
  /\ main' = "stop"
  /\ UNCHANGED <<cfg, open, cert, listener, live, asked, trapped, grace, job,
                 handling>>

DeferredStop_JoinFirst ==
  /\ main = "stop"
  /\ main' = "join"
  /\ UNCHANGED <<cfg, open, cert, listener, errCh, live, asked, trapped, grace,
                 job, handling>>

\* The deferred function of serve: stop, then both joins.
DeferredStop ==
  /\ main = "stop"
  /\ live' = FALSE /\ trapped' = FALSE
  /\ main' = "join"
  /\ UNCHANGED <<cfg, open, cert, listener, errCh, asked, grace, job, handling>>

Join_PurgeOnly ==
  /\ main = "join"
  /\ job["purge"] \in {"off", "returned"}
  /\ main' = "unwind"
  /\ UNCHANGED <<cfg, open, cert, listener, errCh, live, asked, trapped, grace,
                 job, handling>>

Join ==
  /\ main = "join"
  /\ \A j \in Jobs : job[j] \in {"off", "returned"}
  /\ main' = "unwind"
  /\ UNCHANGED <<cfg, open, cert, listener, errCh, live, asked, trapped, grace,
                 job, handling>>

\* The deferred calls of run, last opened first, then the exit.
Unwind ==
  /\ main \in {"unwind", "refused"}
  /\ IF open = <<>>
     THEN main' = "exited" /\ open' = open
     ELSE open' = SubSeq(open, 1, Len(open) - 1) /\ main' = main
  /\ UNCHANGED <<cfg, cert, listener, errCh, live, asked, trapped, grace, job,
                 handling>>

-----------------------------------------------------------------------------
Init ==
  /\ cfg \in Configs
  /\ main = Boot[1]
  /\ open = <<>>
  /\ cert = "none"
  /\ listener = [l \in Listeners |-> "off"]
  /\ errCh = "empty"
  /\ live = TRUE /\ asked = FALSE /\ trapped = FALSE /\ grace = FALSE
  /\ job = [j \in Jobs |-> "off"]
  /\ handling = FALSE

MainStep ==
  \/ BootStep \/ BootRefused \/ StartServing
  \/ SelectError \/ SelectDone \/ ShutMetrics \/ ShutHealth \/ ShutApp
  \/ Drained \/ DrainExpires \/ AwaitListener
  \/ DeferredStop \/ Join \/ Unwind

JobStep(j) ==
  \/ runJob(j)
  \/ \E outcome \in {"success", "error", "panic"} : runGuarded(j, outcome)
  \/ jobReturns(j)

\* After the exit nothing moves.
Stopped == Ended /\ UNCHANGED vars

Next ==
  \/ MainStep \/ BootFault
  \/ \E l \in Listeners, free \in BOOLEAN : ListenAndServe(l, free)
  \/ ListenerDies \/ Request \/ Response
  \/ ~Ended /\ \E j \in Jobs : JobStep(j)
  \/ Signal \/ FatalSignal
  \/ Stopped

\* The Go scheduler runs every goroutine that can run; a pass honours the
\* context it is given, so it ends; a request may take for ever, and the
\* drain's deadline does not wait for it.
Spec ==
  /\ Init /\ [][Next]_vars
  /\ WF_vars(MainStep)
  /\ \A l \in Listeners : WF_vars(\E free \in BOOLEAN : ListenAndServe(l, free))
  /\ \A j \in Jobs : WF_vars(~Ended /\ JobStep(j))

-----------------------------------------------------------------------------
(***************************************************************************)
(* While the process is not killed, the database is closed only when no   *)
(* purge or sweep is in a pass, and no request is in a handler either     *)
(* unless the drain's deadline passed or the listener failed (the joins   *)
(* of serve come before run's deferred Close).                            *)
(***************************************************************************)
DBOutlivesWork ==
  main \in {"unwind", "refused", "exited"} /\ "database" \notin Range(open) =>
    /\ \A j \in Jobs : job[j] # "pass"
    /\ handling => grace \/ listener["app"] = "taken"

(***************************************************************************)
(* After a signal, or when the application listener ends on its own, the  *)
(* process exits, whichever goroutine had or had not started and however  *)
(* long a request takes (stop before the joins in serve's deferred call). *)
(***************************************************************************)
Exits == (asked \/ errCh = "error") ~> Ended

(***************************************************************************)
(* While the daemon serves, each configured job keeps making passes,      *)
(* whatever a pass returns or panics with (runGuarded recovers, and the   *)
(* loop resets its timer after every pass).                               *)
(***************************************************************************)
SweepsGoOn ==
  \A j \in Jobs : (main = "select" /\ job[j] # "off" /\ live)
                    ~> (job[j] = "pass" \/ ~live \/ Ended)

\* Why a constructor may refuse what Validate accepted: a secret that is missing or
\* too short, a shared store's address or a DNS vendor nobody knows, RFC 2136
\* settings that are there and malformed, several credentials for a vendor that
\* takes one, and name lists that cannot be installed.
BeyondValidate(c) ==
  \/ {"missing", "short"} \cap allRefs(c) # {}
  \/ c.shared_address = "unparsable"
  \/ c.dns_provider = "unknown"
  \/ c.tsig = "malformed"
  \/ Len(c.credentials_refs) > 1
  \/ ~c.blocklist

(***************************************************************************)
(* What a validated configuration may still fail for.  Starting is refused *)
(* only for a reason that Validate does not look at: what else the         *)
(* constructors require, Validate requires first.  And the application     *)
(* listener loses its address to another listener of the daemon only if    *)
(* one of the two is written with a name, a service or an unusual zero     *)
(* address, which addrsOverlap compares as text, or if it is the scrape    *)
(* listener's in upstream mode, which no check compares with it            *)
(* (validateListenerOverlap and validatePrometheus over addrsOverlap).     *)
(***************************************************************************)
ValidatedRuns ==
  /\ main = "refused" => BeyondValidate(cfg)
  /\ listener["app"] = "own" =>
       \E l \in Listeners \ {"app"} :
         /\ Collide(AddrOf(l), AddrOf("app"))
         /\ \/ ~InFigures(AddrOf(l)) \/ ~InFigures(AddrOf("app"))
            \/ l = "metrics" /\ cfg.mode = "upstream"
=============================================================================
