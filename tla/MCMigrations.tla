---------------------------- MODULE MCMigrations ----------------------------
(***************************************************************************)
(* Migrations, Dns01 and AuthBackoff for TLC in four settings; a behaviour *)
(* stays in the one it starts in, where one of the three moves.  Processes *)
(* that migrate, and attempts at a certificate, are interchangeable.       *)
(*                                                                         *)
(*   schema  two processes migrate a database, with the release, an        *)
(*           earlier one, and one whose text of two migrations was edited  *)
(*   gate    one attempt before two nameservers, one of which has two      *)
(*           addresses, over every choice of hosted zones                  *)
(*   race    two attempts that share a zone, with one nameserver           *)
(*   tier    the authentication tier, with one client that sends its       *)
(*           requests one after the other                                  *)
(***************************************************************************)
EXTENDS Migrations, TLC

VARIABLES
  setting,
  vendor, copies, zone, live, ours, served, changes, pc, target, seen, resolved,
  passed, pending, cleaned, late, landed,
  clock, count, expires, lock, client, level, unarmed, met

dvars ==
  <<vendor, copies, zone, live, ours, served, changes, pc, target, seen, resolved,
    passed, pending, cleaned, late, landed>>

tvars == <<clock, count, expires, lock, client, level, unarmed, met>>

MCBuilds == {Build(12, {}), Build(7, {}), Build(12, {3, 10})}

Gate ==
  INSTANCE Dns01
    WITH Inst <- Procs, Foreign <- {"op", "www"}, Elsewhere <- {"www"}, Labels <- 4,
         MaxZoneLabels <- 32, Address <- {"a1", "a2", "b1"},
         Servers <- {{"a1", "a2"}, {"b1"}}, MaxEdits <- 1, edits <- changes

Race ==
  INSTANCE Dns01
    WITH Inst <- Procs, Foreign <- {"op", "www"}, Elsewhere <- {"www"}, Labels <- 4,
         MaxZoneLabels <- 32, Address <- {"a1", "a2", "b1"},
         Servers <- {{"b1"}}, MaxEdits <- 1, edits <- changes

Tier ==
  INSTANCE AuthBackoff
    WITH Caller <- {1}, Limit <- 1, Window <- 2, Cap <- 4, Width <- 16, MaxLevel <- 5,
         Horizon <- 7, MaxTime <- 12, now <- clock, pc <- client

\* The two calls of RecordFailure fall within one tick.
PromptArm == client[1] = "arm" => clock' = clock

OneZone == copies = [d \in DOMAIN copies |-> IF d = 2 THEN 1 ELSE 0] /\ zone[2] = {"op", "www"} /\ ours

MCInit ==
  /\ setting \in {"schema", "gate", "race", "tier"}
  /\ Init /\ Gate!Init /\ Tier!Init
  /\ setting # "schema" => engine = "sqlite"
  /\ setting # "gate" => OneZone
  /\ setting \in {"schema", "tier"} => vendor = "gandi"

MCNext ==
  /\ \/ setting = "schema" /\ Next /\ UNCHANGED <<dvars, tvars>>
     \/ /\ setting = "gate" /\ Gate!Next /\ UNCHANGED <<vars, tvars>>
        /\ \E i \in Procs : \A j \in Procs \ {i} : pc'[j] = "start"
     \/ setting = "race" /\ Race!Next /\ UNCHANGED <<vars, tvars>>
     \/ setting = "tier" /\ Tier!Next /\ PromptArm /\ UNCHANGED <<vars, dvars>>
  /\ UNCHANGED setting

MCSpec == MCInit /\ [][MCNext]_<<vars, dvars, tvars, setting>>

\* When the CA is told to validate, every nameserver the poll resolved has an
\* address that serves the value (awaitPropagation and commonTXT), unless
\* another attempt writes through a provider that replaces what it read, or the
\* operator moved the zone.
AcceptedIsServed == Gate!AcceptedIsServed

\* An attempt that ends with its value still published has said so: its cleanup
\* failed and was logged for the operator (dns01Solver.cleanup), but for
\* Cloudflare and for two attempts that overwrite each other.
LeakIsReported == Gate!LeakIsReported

\* A provider removes no record but its own value, except that a write which
\* replaces the record set may drop one added since it was read (Present and
\* removeValue).
OthersKept == Gate!OthersKept

\* Failures cost time, for a client that sends one request at a time: it can
\* count no further failure before it has served the lockouts of the levels
\* below, but for levels whose lockout was not written and for at most one that
\* an earlier life of the count has cut short (RecordFailure, Check).
GuessesCost == Tier!GuessesCost

Symmetry == Permutations(Procs)
=============================================================================
