-------------------------------- MODULE Dns01 ---------------------------------
(***************************************************************************)
(* DNS-01 challenges: the solver (internal/transport/http/certacmedns01.go *)
(* and solveAuthorization of certacme.go) over the thirteen providers of   *)
(* internal/dns01, with the propagation gate of propagation.go.            *)
(*                                                                         *)
(* An attempt publishes its own challenge value, waits until the           *)
(* authoritative nameservers serve it, tells the CA, and withdraws it.     *)
(* Attempts of several processes share one account, and so does the        *)
(* operator, who keeps records of their own in the same zones.             *)
(*                                                                         *)
(* A challenge name has Labels labels; a zone that may hold it is its      *)
(* suffix of d labels.  A record is a value at the challenge name (an      *)
(* attempt stands for the value it publishes) or a record of another name  *)
(* of the zone.  The vendor's API, its nameservers and the operator are    *)
(* modelled from how the code uses them.                                   *)
(***************************************************************************)
EXTENDS Naturals, FiniteSetsExt

CONSTANTS
  Inst,           \* issuance attempts, each with a challenge value of its own
  Foreign,        \* records the operator keeps
  Elsewhere,      \* those of Foreign that are not at the challenge name
  Labels,         \* labels of the challenge name
  MaxZoneLabels,  \* bound of the walk up the labels
  Address,        \* addresses of nameservers
  Servers,        \* the authoritative nameservers, each a set of addresses
  MaxEdits        \* bound: changes the operator makes

Vendor == {"cloudflare", "digitalocean", "dnsimple", "arvancloud", "ovh", "gandi", "godaddy",
           "azure", "route53", "gcp", "namecheap", "rfc2136", "manual"}
Depth  == 2..Labels - 1
Record == Inst \cup Foreign

VARIABLES
  vendor,    \* the provider configured
  copies,    \* zones the account hosts, by depth (two may bear one name)
  zone,      \* the records the API holds in each
  live,      \* OVH: the records of the last refresh
  ours,      \* Namecheap: the domain is served by Namecheap's own DNS
  served,    \* challenge values each nameserver address answers with
  edits,
  pc, target, \* each attempt, and the zone its cleanup is bound to
  seen,      \* what its last read returned
  resolved, passed, \* nameservers of the current poll, and those that showed the value
  pending,   \* a CleanupFunc is registered with the solver
  cleaned,   \* how the withdrawal ended
  late,      \* a request given up on that the vendor may still apply
  landed     \* history: attempts one of whose requests was applied late

dns     == <<vendor, copies, zone, live, ours, served, edits>>
attempt == <<pc, target, seen, resolved, passed, pending, cleaned, late, landed>>
vars    == <<dns, attempt>>

None == [op |-> "none", from |-> {}, to |-> {}]
Request == [op : {"none", "add", "del", "put", "clear", "delset", "cas", "all"},
            from : SUBSET Record, to : SUBSET Record]

TypeOK ==
  /\ vendor \in Vendor
  /\ copies \in [Depth -> 0..2]
  /\ zone \in [Depth -> SUBSET Record]
  /\ live \in [Depth -> SUBSET Record]
  /\ ours \in BOOLEAN
  /\ served \in [Address -> SUBSET Inst]
  /\ edits \in 0..MaxEdits
  /\ pc \in [Inst -> {"start", "read", "write", "refresh", "await", "accepted", "release",
                      "c_read", "c_write", "c_refresh", "done"}]
  /\ target \in [Inst -> Depth \cup {0}]
  /\ seen \in [Inst -> SUBSET Record]
  /\ resolved \in [Inst -> SUBSET Servers]
  /\ \A i \in Inst : passed[i] \subseteq resolved[i]
  /\ pending \in [Inst -> BOOLEAN]
  /\ cleaned \in [Inst -> {"no", "nothing", "ok", "told", "failed"}]
  /\ late \in [Inst -> Request]
  /\ landed \subseteq Inst

Init ==
  /\ vendor \in Vendor
  /\ copies \in [Depth -> IF vendor \in {"route53", "gcp", "azure"} THEN 0..2 ELSE 0..1]
  /\ \E kept \in {Foreign, Foreign \ Elsewhere, {}} :
       zone = [d \in Depth |-> IF copies[d] = 0 THEN {} ELSE kept]
  /\ live = zone
  /\ ours \in IF vendor = "namecheap" THEN BOOLEAN ELSE {TRUE}
  /\ served = [a \in Address |-> {}]
  /\ edits = 0
  /\ pc = [i \in Inst |-> "start"]
  /\ target = [i \in Inst |-> 0]
  /\ seen = [i \in Inst |-> {}]
  /\ resolved = [i \in Inst |-> {}]
  /\ passed = [i \in Inst |-> {}]
  /\ pending = [i \in Inst |-> FALSE]
  /\ cleaned = [i \in Inst |-> "no"]
  /\ late = [i \in Inst |-> None]
  /\ landed = {}

(***************************************************************************)
(* Which zone holds the record.  Each provider walks up from the parent of *)
(* the challenge name and stops above two labels; it takes the first name  *)
(* the account hosts.  0: none found, or refused.                          *)
(***************************************************************************)
Hosted == {d \in Depth : copies[d] > 0}
Candidates == {d \in Hosted : Labels - d <= MaxZoneLabels}
MostSpecific == IF Candidates = {} THEN 0 ELSE Max(Candidates)
\* Two zones of the name found: refused, even though a parent may be unique.
Unambiguous == IF Candidates = {} \/ copies[Max(Candidates)] > 1 THEN 0 ELSE Max(Candidates)

cloudflare_zoneID == MostSpecific
digitalocean_domainFor == MostSpecific
dnsimple_zoneFor == MostSpecific
arvancloud_domainFor == MostSpecific
ovh_zoneFor == MostSpecific
gandi_domainFor == MostSpecific
godaddy_domainFor == MostSpecific
azure_zoneFor == Unambiguous
route53_hostedZoneID == Unambiguous
gcp_managedZone == Unambiguous
\* The account's domains are listed and the longest suffix of the name wins.
namecheap_domainFor == IF Hosted = {} THEN 0 ELSE Max(Hosted)
\* The SOA owner, asked for from the full name upward, that name included.
rfc2136_zoneFor ==
  LET found == {d \in Hosted : Labels - d < MaxZoneLabels}
  IN IF found = {} THEN 0 ELSE Max(found)

zoneFor ==
  CASE vendor = "cloudflare" -> cloudflare_zoneID
    [] vendor = "digitalocean" -> digitalocean_domainFor
    [] vendor = "dnsimple" -> dnsimple_zoneFor
    [] vendor = "arvancloud" -> arvancloud_domainFor
    [] vendor = "ovh" -> ovh_zoneFor
    [] vendor = "gandi" -> gandi_domainFor
    [] vendor = "godaddy" -> godaddy_domainFor
    [] vendor = "azure" -> azure_zoneFor
    [] vendor = "route53" -> route53_hostedZoneID
    [] vendor = "gcp" -> gcp_managedZone
    [] vendor = "namecheap" -> namecheap_domainFor
    [] vendor = "rfc2136" -> rfc2136_zoneFor

(***************************************************************************)
(* What a provider reads before it writes: the records at the challenge    *)
(* name, all of them; the record of its own value; or the whole zone.      *)
(***************************************************************************)
AtName(d) == zone[d] \ Elsewhere

digitalocean_findRecord(i) == AtName(target[i]) \cap {i}
dnsimple_findRecord(i) == AtName(target[i]) \cap {i}
arvancloud_findRecord(i) == AtName(target[i]) \cap {i}
ovh_findRecord(i) == AtName(target[i]) \cap {i}
gandi_currentTXT(i) == AtName(target[i])
godaddy_currentTXT(i) == AtName(target[i])
azure_currentTXT(i) == AtName(target[i])
route53_currentTXT(i) == AtName(target[i])
gcp_currentTXT(i) == AtName(target[i])
namecheap_getHosts(i) == zone[target[i]]

current(i) ==
  CASE vendor = "digitalocean" -> digitalocean_findRecord(i)
    [] vendor = "dnsimple" -> dnsimple_findRecord(i)
    [] vendor = "arvancloud" -> arvancloud_findRecord(i)
    [] vendor = "ovh" -> ovh_findRecord(i)
    [] vendor = "gandi" -> gandi_currentTXT(i)
    [] vendor = "godaddy" -> godaddy_currentTXT(i)
    [] vendor = "azure" -> azure_currentTXT(i)
    [] vendor = "route53" -> route53_currentTXT(i)
    [] vendor = "gcp" -> gcp_currentTXT(i)
    [] vendor = "namecheap" -> namecheap_getHosts(i)

\* Providers that read the record set before they publish, and those that
\* need no read even to withdraw.
PresentReads == {"gandi", "godaddy", "azure", "route53", "gcp", "namecheap"}
NeverReads   == {"cloudflare", "rfc2136"}
\* Those whose write replaces what another writer added since the read.
Replacing    == {"gandi", "godaddy", "azure", "route53", "namecheap"}

(***************************************************************************)
(* The request that publishes, and the one that withdraws.                 *)
(***************************************************************************)
Add(i)       == [op |-> "add", from |-> {}, to |-> {i}]
Del(i)       == [op |-> "del", from |-> {i}, to |-> {}]
Put(S)       == [op |-> "put", from |-> {}, to |-> S]
Clear        == [op |-> "clear", from |-> {}, to |-> {}]
DelSet(S)    == [op |-> "delset", from |-> S, to |-> {}]
Swap(S, T)   == [op |-> "cas", from |-> S, to |-> T]
All(S)       == [op |-> "all", from |-> {}, to |-> S]

cloudflare_Present(i) == Add(i)
digitalocean_Present(i) == Add(i)
dnsimple_Present(i) == Add(i)
arvancloud_Present(i) == Add(i)
ovh_Present(i) == Add(i)
gandi_Present(i) == Put(seen[i] \cup {i})
godaddy_Present(i) == Put(seen[i] \cup {i})
azure_Present(i) == Put(seen[i] \cup {i})
route53_Present(i) == Put(seen[i] \cup {i})
gcp_Present(i) == Swap(seen[i], seen[i] \cup {i})
namecheap_Present(i) == All(seen[i] \cup {i})
rfc2136_Present(i) == Add(i)

Publication(i) ==
  CASE vendor = "cloudflare" -> cloudflare_Present(i)
    [] vendor = "digitalocean" -> digitalocean_Present(i)
    [] vendor = "dnsimple" -> dnsimple_Present(i)
    [] vendor = "arvancloud" -> arvancloud_Present(i)
    [] vendor = "ovh" -> ovh_Present(i)
    [] vendor = "gandi" -> gandi_Present(i)
    [] vendor = "godaddy" -> godaddy_Present(i)
    [] vendor = "azure" -> azure_Present(i)
    [] vendor = "route53" -> route53_Present(i)
    [] vendor = "gcp" -> gcp_Present(i)
    [] vendor = "namecheap" -> namecheap_Present(i)
    [] vendor = "rfc2136" -> rfc2136_Present(i)

PutOrClear(S) == IF S = {} THEN Clear ELSE Put(S)

\* Mutant: the whole record set goes with the value.
gandi_removeValue_Clear(i) == Clear

cloudflare_deleteRecord(i) == Del(i)
digitalocean_removeValue(i) == Del(i)
dnsimple_removeValue(i) == Del(i)
arvancloud_removeValue(i) == Del(i)
ovh_removeValue(i) == Del(i)
gandi_removeValue(i) == PutOrClear(seen[i] \ {i})
godaddy_removeValue(i) == PutOrClear(seen[i] \ {i})
azure_removeValue(i) == PutOrClear(seen[i] \ {i})
route53_removeValue(i) == IF seen[i] = {i} THEN DelSet(seen[i]) ELSE Put(seen[i] \ {i})
gcp_removeValue(i) == Swap(seen[i], seen[i] \ {i})
namecheap_removeValue(i) == All(seen[i] \ {i})
rfc2136_removeRecord(i) == Del(i)

Withdrawal(i) ==
  CASE vendor = "cloudflare" -> cloudflare_deleteRecord(i)
    [] vendor = "digitalocean" -> digitalocean_removeValue(i)
    [] vendor = "dnsimple" -> dnsimple_removeValue(i)
    [] vendor = "arvancloud" -> arvancloud_removeValue(i)
    [] vendor = "ovh" -> ovh_removeValue(i)
    [] vendor = "gandi" -> gandi_removeValue(i)
    [] vendor = "godaddy" -> godaddy_removeValue(i)
    [] vendor = "azure" -> azure_removeValue(i)
    [] vendor = "route53" -> route53_removeValue(i)
    [] vendor = "gcp" -> gcp_removeValue(i)
    [] vendor = "namecheap" -> namecheap_removeValue(i)
    [] vendor = "rfc2136" -> rfc2136_removeRecord(i)

(***************************************************************************)
(* The vendor's side of a write, and what the provider makes of the reply. *)
(* A reply is good, an HTTP 404, Cloudflare's code for a record that is    *)
(* gone, a refusal, unreadable although the request was applied, or lost.  *)
(***************************************************************************)
Matches(rs, w) == w.op \in {"delset", "cas"} => rs \ Elsewhere = w.from

Apply(rs, w) ==
  CASE w.op = "add" -> rs \cup w.to
    [] w.op = "del" -> rs \ w.from
    [] w.op = "all" -> w.to
    [] OTHER -> (rs \cap Elsewhere) \cup w.to

\* A decoded answer is required of the calls that have an out parameter.
StatusOnly(reply) ==
  CASE reply \in {"ok", "garbled"} -> "ok"
    [] reply = "404" -> "notfound"
    [] OTHER -> "err"

cloudflare_do(reply) ==
  CASE reply = "ok" -> "ok"
    [] reply \in {"404", "gone"} -> "notfound"
    [] OTHER -> "err"
digitalocean_do(reply) == StatusOnly(reply)
dnsimple_do(reply) == StatusOnly(reply)
arvancloud_do(reply) == StatusOnly(reply)
ovh_do(reply) == StatusOnly(reply)
gandi_do(reply) == StatusOnly(reply)
godaddy_do(reply) == StatusOnly(reply)
azure_do(reply) == StatusOnly(reply)
\* These two know no "not found": every status outside 2xx is an error.
route53_do(reply) == IF reply \in {"ok", "garbled"} THEN "ok" ELSE "err"
gcp_do(reply) == IF reply \in {"ok", "garbled"} THEN "ok" ELSE "err"
\* The status is in the body, so an unreadable body is a failure.
namecheap_do(reply) == IF reply = "ok" THEN "ok" ELSE "err"
rfc2136_update(reply) == IF reply = "ok" THEN "ok" ELSE "err"

do(reply) ==
  CASE vendor = "cloudflare" -> cloudflare_do(reply)
    [] vendor = "digitalocean" -> digitalocean_do(reply)
    [] vendor = "dnsimple" -> dnsimple_do(reply)
    [] vendor = "arvancloud" -> arvancloud_do(reply)
    [] vendor = "ovh" -> ovh_do(reply)
    [] vendor = "gandi" -> gandi_do(reply)
    [] vendor = "godaddy" -> godaddy_do(reply)
    [] vendor = "azure" -> azure_do(reply)
    [] vendor = "route53" -> route53_do(reply)
    [] vendor = "gcp" -> gcp_do(reply)
    [] vendor = "namecheap" -> namecheap_do(reply)
    [] vendor = "rfc2136" -> rfc2136_update(reply)

\* How the vendor takes the request w of attempt i to a zone's records: at
\* once, not at all, or, when the caller gave up waiting, at some later time.
Serve(i, w, reply) ==
  LET rs == zone[target[i]]
  IN \/ /\ reply \in {"ok", "garbled", "lost"} /\ Matches(rs, w)
        /\ zone' = [zone EXCEPT ![target[i]] = Apply(rs, w)]
        /\ UNCHANGED late
     \/ /\ \/ reply \in {"refused", "lost"}
           \/ reply \in {"404", "gone"} /\ w.op = "del" /\ w.from \cap rs = {}
           \/ reply = "404" /\ w.op = "clear" /\ AtName(target[i]) = {}
        /\ UNCHANGED <<zone, late>>
     \/ /\ reply = "lost"
        /\ late' = [late EXCEPT ![i] = w]
        /\ UNCHANGED zone

Goto(i, l) == pc' = [pc EXCEPT ![i] = l]
NoDns == UNCHANGED dns

(***************************************************************************)
(* solveAuthorization: the release is deferred before the value is shown,  *)
(* so every failure goes through it.                                       *)
(***************************************************************************)
\* Present, up to the first call that concerns the record: credentials,
\* tokens and the zone, each of which may fail with nothing created.  The
\* manual provider only writes a log line for the operator.
Present(i) ==
  /\ pc[i] = "start"
  /\ \/ /\ vendor = "manual"
        /\ pending' = [pending EXCEPT ![i] = TRUE]
        /\ Goto(i, "await")
        /\ UNCHANGED target
     \/ /\ vendor # "manual" /\ zoneFor # 0
        /\ target' = [target EXCEPT ![i] = zoneFor]
        /\ Goto(i, IF vendor \in PresentReads THEN "read" ELSE "write")
        /\ UNCHANGED pending
     \/ /\ vendor # "manual"
        /\ Goto(i, "release")
        /\ UNCHANGED <<target, pending>>
  /\ NoDns /\ UNCHANGED <<seen, resolved, passed, cleaned, late, landed>>

\* The record set as it stands; Namecheap refuses a domain it does not serve.
PresentRead(i) ==
  /\ pc[i] = "read"
  /\ \/ /\ ours
        /\ seen' = [seen EXCEPT ![i] = current(i)]
        /\ Goto(i, "write")
     \/ /\ Goto(i, "release")
        /\ UNCHANGED seen
  /\ NoDns /\ UNCHANGED <<target, resolved, passed, pending, cleaned, late, landed>>

\* Mutant: the cleanup is handed back only when the write succeeded.
Registers_OnSuccess(out) == out = "ok"

\* Every provider but Cloudflare, which needs the new record's identifier,
\* hands its cleanup back whether or not the write succeeded.
Registers(out) == vendor = "cloudflare" => out = "ok"

PresentWrite(i) ==
  /\ pc[i] = "write"
  /\ \E reply \in {"ok", "refused", "garbled", "lost"} :
       /\ Serve(i, Publication(i), reply)
       /\ pending' = [pending EXCEPT ![i] = Registers(do(reply))]
       /\ Goto(i, IF do(reply) # "ok" THEN "release"
                  ELSE IF vendor = "ovh" THEN "refresh" ELSE "await")
  /\ seen' = [seen EXCEPT ![i] = {}]
  /\ UNCHANGED <<vendor, copies, live, ours, served, edits, target, resolved, passed, cleaned, landed>>

\* OVH serves nothing of the change until the zone is refreshed.
Refresh(i) == live' = [live EXCEPT ![target[i]] = zone[target[i]]]

PresentRefresh(i) ==
  /\ pc[i] = "refresh"
  /\ \/ Refresh(i) /\ pc' \in {[pc EXCEPT ![i] = l] : l \in {"await", "release"}}
     \/ Goto(i, "release") /\ UNCHANGED live
  /\ UNCHANGED <<vendor, copies, zone, ours, served, edits, target, seen, resolved, passed, pending,
                 cleaned, late, landed>>

(***************************************************************************)
(* awaitPropagation.                                                       *)
(***************************************************************************)
\* authoritativeServers: a nameserver whose addresses cannot be looked up is
\* left out of the list.
PollBegins(i) ==
  /\ pc[i] = "await" /\ resolved[i] = {}
  /\ \E s \in SUBSET Servers \ {{}} : resolved' = [resolved EXCEPT ![i] = s]
  /\ NoDns /\ UNCHANGED <<pc, target, seen, passed, pending, cleaned, late, landed>>

\* commonTXT for one nameserver: some of its addresses answer, and each one
\* that does serves the value.
Shows(s, v) == \E answering \in SUBSET s \ {{}} : \A a \in answering : v \in served[a]

\* Mutant: the first nameserver that shows the value ends the poll.
PollServer_First(i) ==
  /\ pc[i] = "await"
  /\ \E s \in resolved[i] \ passed[i] : /\ Shows(s, i)
                                        /\ passed' = [passed EXCEPT ![i] = resolved[i]]
  /\ Goto(i, "accepted")
  /\ NoDns /\ UNCHANGED <<target, seen, resolved, pending, cleaned, late, landed>>

\* The nameservers are asked one after the other; the last one ends the wait.
PollServer(i) ==
  /\ pc[i] = "await"
  /\ \E s \in resolved[i] \ passed[i] : /\ Shows(s, i)
                                        /\ passed' = [passed EXCEPT ![i] = @ \cup {s}]
  /\ Goto(i, IF passed'[i] = resolved[i] THEN "accepted" ELSE "await")
  /\ NoDns /\ UNCHANGED <<target, seen, resolved, pending, cleaned, late, landed>>

\* A nameserver without the value, or none of whose addresses answers, ends
\* the poll; the next tick starts a new one.
PollMisses(i) ==
  /\ pc[i] = "await" /\ resolved[i] # {}
  /\ resolved' = [resolved EXCEPT ![i] = {}]
  /\ passed' = [passed EXCEPT ![i] = {}]
  /\ NoDns /\ UNCHANGED <<pc, target, seen, pending, cleaned, late, landed>>

\* The deadline, or the cancelled context of a provider that is closing: an
\* error, whatever was seen so far.  After acceptance: the CA's verdict.
Leave(i) ==
  /\ pc[i] \in {"await", "accepted"}
  /\ Goto(i, "release")
  /\ resolved' = [resolved EXCEPT ![i] = {}]
  /\ passed' = [passed EXCEPT ![i] = {}]
  /\ NoDns /\ UNCHANGED <<target, seen, pending, cleaned, late, landed>>

(***************************************************************************)
(* releaseChallenge and cleanup: the entry is taken out first, so the      *)
(* cleanup runs at most once.                                              *)
(***************************************************************************)
Finish(i, how) ==
  /\ Goto(i, "done")
  /\ cleaned' = [cleaned EXCEPT ![i] = how]
  /\ seen' = [seen EXCEPT ![i] = {}]

Release(i) ==
  /\ pc[i] = "release"
  /\ pending' = [pending EXCEPT ![i] = FALSE]
  /\ \/ ~pending[i] /\ Finish(i, "nothing")
     \/ pending[i] /\ vendor = "manual" /\ Finish(i, "told")
     \/ /\ pending[i] /\ vendor # "manual"
        /\ Goto(i, IF vendor \in NeverReads THEN "c_write" ELSE "c_read")
        /\ UNCHANGED <<cleaned, seen>>
  /\ NoDns /\ UNCHANGED <<target, resolved, passed, late, landed>>

\* Nothing is written when the value is not there, nor to a domain Namecheap
\* no longer serves.
CleanupRead(i) ==
  /\ pc[i] = "c_read"
  /\ \/ i \in current(i) /\ ours
        /\ seen' = [seen EXCEPT ![i] = current(i)]
        /\ Goto(i, "c_write")
        /\ UNCHANGED cleaned
     \/ (i \notin current(i) \/ ~ours) /\ Finish(i, "ok")
     \/ Finish(i, "failed")
  /\ NoDns /\ UNCHANGED <<target, resolved, passed, pending, late, landed>>

CleanupWrite(i) ==
  /\ pc[i] = "c_write"
  /\ \E reply \in {"ok", "404", "gone", "refused", "garbled", "lost"} :
       LET gone == do(reply) = "ok" \/ do(reply) = "notfound"
       IN /\ reply = "gone" => vendor = "cloudflare"
          /\ Serve(i, Withdrawal(i), reply)
          /\ \/ gone /\ vendor = "ovh" /\ Goto(i, "c_refresh") /\ UNCHANGED <<cleaned, seen>>
             \/ gone /\ vendor # "ovh" /\ Finish(i, "ok")
             \/ ~gone /\ Finish(i, "failed")
  /\ UNCHANGED <<vendor, copies, live, ours, served, edits, target, resolved, passed, pending, landed>>

CleanupRefresh(i) ==
  /\ pc[i] = "c_refresh"
  /\ \/ Refresh(i) /\ (Finish(i, "ok") \/ Finish(i, "failed"))
     \/ Finish(i, "failed") /\ UNCHANGED live
  /\ UNCHANGED <<vendor, copies, zone, ours, served, edits, target, resolved, passed, pending, late, landed>>

(***************************************************************************)
(* The surroundings.                                                       *)
(***************************************************************************)
\* A request the provider gave up on is applied after all, or dropped.
Land(i) ==
  /\ late[i] # None
  /\ LET rs == zone[target[i]]
     IN \/ /\ Matches(rs, late[i])
           /\ zone' = [zone EXCEPT ![target[i]] = Apply(rs, late[i])]
           /\ landed' = landed \cup {i}
        \/ UNCHANGED <<zone, landed>>
  /\ late' = [late EXCEPT ![i] = None]
  /\ UNCHANGED <<vendor, copies, live, ours, served, edits, pc, target, seen, resolved, passed, pending,
                 cleaned>>

Published(d) ==
  CASE vendor = "ovh" -> live[d]
    [] vendor = "namecheap" /\ ~ours -> {}
    [] OTHER -> zone[d]

\* A nameserver address catches up with the most specific zone.
Sync(a) ==
  /\ a \in UNION Servers
  /\ Hosted # {}
  /\ served' = [served EXCEPT ![a] = Published(Max(Hosted)) \cap Inst]
  /\ UNCHANGED <<vendor, copies, zone, live, ours, edits, attempt>>

\* The operator edits records of their own, delegates a more specific zone,
\* moves a domain to another DNS host, or, in manual mode, does as told.
OperatorEdits ==
  /\ edits < MaxEdits
  /\ edits' = edits + 1
  /\ \/ \E d \in Hosted, r \in Foreign :
          /\ zone' = [zone EXCEPT ![d] = IF r \in @ THEN @ \ {r} ELSE @ \cup {r}]
          /\ live' = [live EXCEPT ![d] = zone'[d]]
          /\ UNCHANGED <<copies, ours>>
     \/ \E d \in Depth \ Hosted :
          /\ copies' = [copies EXCEPT ![d] = 1]
          /\ UNCHANGED <<zone, live, ours>>
     \/ /\ vendor = "namecheap"
        /\ ours' = ~ours
        /\ UNCHANGED <<zone, live, copies>>
     \/ \E d \in Hosted, i \in Inst :
          /\ vendor = "manual"
          /\ \/ pc[i] \in {"await", "accepted"} /\ zone' = [zone EXCEPT ![d] = @ \cup {i}]
             \/ pc[i] = "done" /\ zone' = [zone EXCEPT ![d] = @ \ {i}]
          /\ UNCHANGED <<copies, live, ours>>
  /\ UNCHANGED <<vendor, served, attempt>>

Step(i) ==
  \/ Present(i) \/ PresentRead(i) \/ PresentWrite(i) \/ PresentRefresh(i)
  \/ PollBegins(i) \/ PollServer(i) \/ PollMisses(i) \/ Leave(i)
  \/ Release(i) \/ CleanupRead(i) \/ CleanupWrite(i) \/ CleanupRefresh(i)

Next ==
  \/ \E i \in Inst : Step(i) \/ Land(i)
  \/ \E a \in Address : Sync(a)
  \/ OperatorEdits

Spec == Init /\ [][Next]_vars

(***************************************************************************)
(* Properties.                                                             *)
(***************************************************************************)
\* No other attempt got as far as a zone.
Alone(i) == \A j \in Inst \ {i} : target[j] = 0
\* Nobody can overwrite what attempt i did.
Undisturbed(i) == vendor \in Replacing => Alone(i)

\* The zone the nameservers read holds the value.
InPlace(i) == Hosted # {} /\ i \in Published(Max(Hosted))

\* When the CA is told to validate, every nameserver the poll resolved has
\* an address that serves the value (awaitPropagation and commonTXT), unless
\* another attempt writes through a provider that replaces what it read, or
\* the operator moved the zone.
AcceptedIsServed ==
  \A i \in Inst : pc[i] = "accepted" /\ Undisturbed(i) /\ InPlace(i) =>
    \A s \in resolved[i] : \E a \in s : i \in served[a]

Leaked(i) == pc[i] = "done" /\ i \notin landed /\ \E d \in Depth : i \in Published(d)

\* An attempt that ends with its value still published has said so: its
\* cleanup failed and was logged for the operator (dns01Solver.cleanup).  Of
\* the providers whose writes replace what they read, only while no other
\* attempt writes; not Cloudflare, whose Present returns no cleanup when the
\* answer to its write is lost.
LeakIsReported ==
  \A i \in Inst :
    Leaked(i) /\ Undisturbed(i) /\ vendor # "cloudflare" => cleaned[i] \in {"failed", "told"}

Moves(i) == pc'[i] # pc[i] \/ late'[i] # late[i]
\* What i knew when it made the request that is now applied.
Known(i) == IF pc'[i] # pc[i] THEN seen[i] ELSE late[i].to

\* A provider removes no record but its own value, except that a write which
\* replaces the record set may drop one added since it was read; the
\* conditional and single-record writes never do (Present and removeValue).
OthersKept ==
  [][\A i \in Inst, d \in Depth : Moves(i) =>
       zone[d] \ zone'[d] \subseteq {i} \cup (IF vendor \in Replacing THEN Record \ Known(i) ELSE {})]_vars
===============================================================================
