------------------------------ MODULE MCDaemon ------------------------------
(* Daemon for TLC: configurations that differ from two sound ones in related
   fields. *)
EXTENDS Daemon

\* A development configuration with everything on.
Sound ==
  [environment |-> "development", public_base_url |-> "unset",
   trusted_proxies |-> "listed", listen_addr |-> Addr("blank", "443"),
   health_listen_addr |-> Addr("127.0.0.1", "8080"), min_version |-> "1.3",
   mode |-> "manual", allow_self_signed |-> FALSE, files |-> TRUE,
   domain |-> "fqdn", upstream_addr |-> Unset, api_token_ref |-> "good",
   cache_dir |-> TRUE, validity_days |-> TRUE, solver |-> "dns_01",
   directory |-> TRUE, accept_tos |-> TRUE, dns_mode |-> "api",
   dns_provider |-> "gandi", credentials_ref |-> "good",
   credentials_refs |-> <<>>, tsig |-> "fine",
   driver |-> "sqlite", path |-> TRUE, dsn_ref |-> "good",
   access_token_ttl |-> "fine", refresh_token_max_age |-> "fine",
   access_key_grace_window |-> "fine", providers |-> TRUE,
   token_signing_key_ref |-> "good", admin_token_signing_key_ref |-> "good",
   access_key_pepper_ref |-> "good", rate_limit |-> TRUE, store |-> "shared",
   shared_address |-> "fine", shared_password_ref |-> "good", tiers |-> TRUE,
   log |-> TRUE, otlp |-> "off", headers_ref |-> "none", traces |-> "off", sample_ratio |-> TRUE,
   prometheus_addr |-> Addr("blank", "9090"), prometheus_path |-> TRUE,
   onboarding_mode |-> "invite", blocklist |-> TRUE, handle_quarantine |-> "fine",
   audit_retention |-> "fine", audit_purge_interval |-> "fine", batches |-> TRUE,
   handle_quarantine_sweep_interval |-> "fine",
   access_key_grace_sweep_interval |-> "fine", max_sets_per_owner |-> TRUE]

Production == [Sound EXCEPT !.environment = "production",
                            !.public_base_url = "https", !.mode = "acme"]
Upstream == [Sound EXCEPT !.mode = "upstream",
                          !.upstream_addr = Addr("127.0.0.1", "8443")]

\* c with the fields that a check or a constructor relates changed together in
\* every way, and every other field on its own.
Near(c) ==
  UNION {
    {[c EXCEPT !.environment = v, !.access_key_pepper_ref = w,
               !.access_key_grace_sweep_interval = x] :
       v \in Domains["environment"], w \in Domains["access_key_pepper_ref"],
       x \in Domains["access_key_grace_sweep_interval"]},
    {[c EXCEPT !.environment = v, !.token_signing_key_ref = w,
               !.admin_token_signing_key_ref = x] :
       v \in Domains["environment"], w \in Domains["token_signing_key_ref"],
       x \in Domains["admin_token_signing_key_ref"]},
    {[c EXCEPT !.mode = v, !.api_token_ref = w, !.trusted_proxies = x,
               !.domain = y] :
       v \in Domains["mode"], w \in Domains["api_token_ref"],
       x \in Domains["trusted_proxies"], y \in Domains["domain"]},
    {[c EXCEPT !.driver = v, !.dsn_ref = w] :
       v \in Domains["driver"], w \in Domains["dsn_ref"]},
    {[c EXCEPT !.rate_limit = v, !.store = w, !.shared_address = x,
               !.shared_password_ref = y] :
       v \in Domains["rate_limit"], w \in Domains["store"],
       x \in Domains["shared_address"], y \in Domains["shared_password_ref"]},
    {[c EXCEPT !.audit_retention = v, !.audit_purge_interval = w] :
       v \in Domains["audit_retention"], w \in Domains["audit_purge_interval"]}}
  \cup UNION {{[c EXCEPT ![f] = v] : v \in Domains[f]} : f \in Fields}

\* Every way to write the addresses of the listeners, where the application has
\* its own and where it is the upstream's.
Listening ==
  {[Sound EXCEPT !.mode = v, !.listen_addr = w, !.upstream_addr = x,
                 !.health_listen_addr = y, !.prometheus_addr = z] :
     v \in {"manual", "upstream"}, w \in Domains["listen_addr"],
     x \in Domains["upstream_addr"], y \in Domains["health_listen_addr"],
     z \in Domains["prometheus_addr"]}

\* Every setting of the DNS challenge.
Issuing ==
  {[Production EXCEPT !.dns_mode = v, !.dns_provider = w, !.credentials_ref = x,
                      !.credentials_refs = y, !.tsig = z] :
     v \in Domains["dns_mode"], w \in Domains["dns_provider"],
     x \in Domains["credentials_ref"], y \in Domains["credentials_refs"],
     z \in Domains["tsig"]}

MCFaulty == {Sound, Upstream}
MCConfigs == Near(Sound) \cup Near(Production) \cup Listening \cup Issuing
=============================================================================
