----------------------------- MODULE Migrations -----------------------------
(***************************************************************************)
(* The schema migrations: the registry of internal/schema, and the runner  *)
(* of internal/migrate over the two database adapters.  Several processes  *)
(* (a daemon, a second replica, an administrative command, an older or an  *)
(* edited build) run at once against one database; each may fail or crash  *)
(* at any point.  A statement is the table or column it adds or removes;   *)
(* indexes and column types are left out.                                  *)
(***************************************************************************)
EXTENDS Naturals, FiniteSets, Sequences, SequencesExt, FiniteSetsExt

CONSTANTS
  Builds,      \* the builds in use: records of Build
  Procs,       \* processes that may migrate at the same time
  MaxRuns,     \* bound on the runs a process makes
  Targets      \* down targets in use: how many migrations to keep

VARIABLES
  engine,      \* the database engine of this deployment
  catalog,     \* the committed tables and columns
  ledger,      \* schema_migrations: applied id -> checksum
  run,         \* run[p]: what process p is doing
  runs,        \* runs[p]: the runs p has started
  overlapped   \* whether a revert ever ran beside another run

vars == <<engine, catalog, ledger, run, runs, overlapped>>

-----------------------------------------------------------------------------
(* The registry: what each migration adds, in order, with the table every *)
(* foreign key of an added table references.                              *)

Table(name, refs) == [name |-> name, refs |-> refs]

Creates(requires, adds) ==
  [requires |-> requires, adds |-> adds,
   absent |-> {adds[i].name : i \in DOMAIN adds}, exists |-> {}]

migration0001Owners ==
  Creates({}, <<Table("owners", {}), Table("handles", {"owners"})>>)

migration0002Devices ==
  Creates({1}, <<Table("devices", {"owners"}),
                 Table("public_keys", {"owners", "devices"})>>)

migration0003KeySets ==
  Creates({1, 2}, <<Table("key_sets", {"owners"}),
                    Table("key_set_members", {"key_sets", "public_keys"})>>)

migration0004AuditRecords == Creates({}, <<Table("audit_records", {})>>)

migration0005OwnerErasureSalts ==
  Creates({}, <<Table("owner_erasure_salts", {})>>)

migration0006RefreshCredentials ==
  Creates({1}, <<Table("refresh_credentials", {"owners"})>>)

migration0007LinkedIdentities ==
  Creates({1}, <<Table("linked_identities", {"owners"})>>)

migration0008DevicePairings == Creates({1}, <<Table("device_pairings", {})>>)

migration0009Administrators == Creates({}, <<Table("administrators", {})>>)

migration0010AccessKeys ==
  Creates({1, 3}, <<Table("access_keys", {"owners", "key_sets"})>>)

migration0011ListOverrides == Creates({}, <<Table("list_overrides", {})>>)

\* The one migration that alters: two columns of handles, whose table must
\* exist.  A column references the table it belongs to.
migration0012HandleLifecycle ==
  [requires |-> {1},
   adds |-> <<Table("handles.name_fold", {"handles"}),
              Table("handles.fold_version", {"handles"})>>,
   absent |-> {}, exists |-> {"handles"}]

Registry ==
  <<migration0001Owners, migration0002Devices, migration0003KeySets,
    migration0004AuditRecords, migration0005OwnerErasureSalts,
    migration0006RefreshCredentials, migration0007LinkedIdentities,
    migration0008DevicePairings, migration0009Administrators,
    migration0010AccessKeys, migration0011ListOverrides,
    migration0012HandleLifecycle>>

Ids == DOMAIN Registry
Adds(m) == Registry[m].adds
Names(m) == {Adds(m)[i].name : i \in DOMAIN Adds(m)}
AllTables == UNION {Range(Adds(m)) : m \in Ids}
Refs(name) == (CHOOSE t \in AllTables : t.name = name).refs

\* A build knows the first len migrations; edited are those whose text it
\* changed after another build was released with them.
Build(len, edited) == [len |-> len, edited |-> edited]

\* ChecksumFor: the text of the migration decides it.
ChecksumFor(b, m) == IF m \in b.edited THEN "edited" ELSE "released"

\* NewRegistry refuses a requirement that is not strictly earlier.
NewRegistry(b) == \A m \in 1..b.len : Registry[m].requires \subseteq 1..(m - 1)

-----------------------------------------------------------------------------
(* The adapters: what a statement does to a catalog, or that it fails.    *)

\* CREATE TABLE and ADD COLUMN: a second copy is refused by both engines, a
\* reference to a missing table by Postgres, a column of one by both.
CanAdd(c, t) ==
  /\ t.name \notin c
  /\ (engine = "postgres" \/ t.name \in Names(12)) => t.refs \subseteq c

Dependants(c, name) == {n \in c : name \in Refs(n)}

\* DROP TABLE and DROP COLUMN: Postgres refuses while another table refers to
\* it; SQLite refuses only when rows do, so either outcome is possible.
\* Dropping a table takes its columns with it.
CanDrop(c, name, rows) ==
  /\ name \in c
  /\ Dependants(c, name) \ Names(12) # {} => engine = "sqlite" /\ ~rows

AddAll(c, m) == c \cup Names(m)
UpSucceeds(c, m) ==
  \A i \in DOMAIN Adds(m) :
    CanAdd(c \cup {Adds(m)[j].name : j \in 1..(i - 1)}, Adds(m)[i])

\* The down steps drop in the reverse order of the up steps.
DropAll(c, m) ==
  c \ (Names(m) \cup UNION {Dependants(c, n) \cap Names(12) : n \in Names(m)})
DownSucceeds(c, m, rows) ==
  \A i \in DOMAIN Adds(m) :
    CanDrop(c \ {Adds(m)[j].name : j \in (i + 1)..Len(Adds(m))}, Adds(m)[i].name, rows)

\* TableAbsent and TableExists, read before the steps.
TableAbsent(c, m) == Registry[m].absent \cap c = {}
TableExists(c, m) == Registry[m].exists \subseteq c

-----------------------------------------------------------------------------
Idle == [op |-> "idle"]
Running(p) == run[p].op # "idle"
Applied == DOMAIN ledger

\* checkDependencies over the registry's suffix.
checkDependencies(b, applied) ==
  \A m \in (1..b.len) \ applied :
    Registry[m].requires \subseteq applied \cup 1..(m - 1)

\* verify: the rows are those of a prefix of this build's registry, under
\* this build's checksums.  One engine writes one database, so the engine
\* recorded in a row is always this one's.
verify(b) ==
  /\ Cardinality(Applied) <= b.len
  /\ \A m \in Applied : m \in 1..b.len /\ ledger[m] = ChecksumFor(b, m)
  /\ Applied = 1..Cardinality(Applied)
  /\ checkDependencies(b, Applied)

\* Begin a run: count it, and note a revert that shares the database.
Enter(p, r) ==
  /\ ~Running(p) /\ runs[p] < MaxRuns
  /\ runs' = [runs EXCEPT ![p] = @ + 1]
  /\ run' = [run EXCEPT ![p] = r]
  /\ overlapped' = (overlapped \/ \E q \in Procs \ {p} :
                      Running(q) /\ "down" \in {run[q].op, r.op})
  /\ UNCHANGED <<engine, catalog, ledger>>

\* Up, to the end of verify: the pending list is fixed here, outside any
\* transaction.  A ledger verify refuses ends the run with nothing done.
Up(p, b) ==
  /\ NewRegistry(b) /\ verify(b)
  /\ Cardinality(Applied) < b.len
  /\ Enter(p, [op |-> "up", build |-> b, next |-> Cardinality(Applied) + 1,
               stop |-> b.len, step |-> "begin"])

\* Down, to the end of its checks: revert from the last applied migration to
\* the one after the target.  No migration of the registry is irreversible
\* or destructive, so neither refusal arises.
Down(p, b, keep) ==
  /\ NewRegistry(b) /\ verify(b)
  /\ keep < Cardinality(Applied)
  /\ Enter(p, [op |-> "down", build |-> b, next |-> Cardinality(Applied),
               stop |-> keep + 1, step |-> "begin"])

\* applyOne, to its last precondition; another process may commit after it.
CheckPreconditions(p) ==
  /\ run[p].op = "up" /\ run[p].step = "begin"
  /\ TableAbsent(catalog, run[p].next) /\ TableExists(catalog, run[p].next)
  /\ run' = [run EXCEPT ![p].step = "exec"]
  /\ UNCHANGED <<engine, catalog, ledger, runs, overlapped>>

\* The run moves to its next migration, or returns after the last.
Advance(p, next) ==
  run' = [run EXCEPT ![p] = IF @.next = @.stop THEN Idle
                            ELSE [@ EXCEPT !.next = next, !.step = "begin"]]

\* The rest of applyOne: the up steps, the ledger row and the commit are one
\* transaction.  A statement that meets another's uncommitted one waits for
\* it, so the outcome is the one against what is committed at the end.
applyOne(p) ==
  LET m == run[p].next IN
  /\ run[p].op = "up" /\ run[p].step = "exec"
  /\ UpSucceeds(catalog, m)
  /\ m \notin Applied
  /\ catalog' = AddAll(catalog, m)
  /\ ledger' = [i \in Applied \cup {m} |->
                  IF i = m THEN ChecksumFor(run[p].build, m) ELSE ledger[i]]
  /\ Advance(p, m + 1)
  /\ UNCHANGED <<engine, runs, overlapped>>

\* revertOne: the down steps and the ledger delete, which is satisfied by a
\* row that is already gone, in one transaction.
revertOne(p, rows) ==
  LET m == run[p].next IN
  /\ run[p].op = "down"
  /\ DownSucceeds(catalog, m, rows)
  /\ catalog' = DropAll(catalog, m)
  /\ ledger' = [i \in Applied \ {m} |-> ledger[i]]
  /\ Advance(p, m - 1)
  /\ UNCHANGED <<engine, runs, overlapped>>

\* Mutant: the first statement of the failed migration stays.
Fail_Keeps(p) ==
  /\ Running(p)
  /\ run' = [run EXCEPT ![p] = Idle]
  /\ catalog' = IF run[p].op = "up" /\ run[p].step = "exec"
                   /\ CanAdd(catalog, Adds(run[p].next)[1])
                THEN catalog \cup {Adds(run[p].next)[1].name} ELSE catalog
  /\ UNCHANGED <<engine, ledger, runs, overlapped>>

\* Any error, a precondition that does not hold, or a crash: the deferred
\* Rollback discards the open transaction and the run ends.
Fail(p) ==
  /\ Running(p)
  /\ run' = [run EXCEPT ![p] = Idle]
  /\ UNCHANGED <<engine, catalog, ledger, runs, overlapped>>

Init ==
  /\ engine \in {"sqlite", "postgres"}
  /\ catalog = {}
  /\ ledger = <<>>
  /\ run = [p \in Procs |-> Idle]
  /\ runs = [p \in Procs |-> 0]
  /\ overlapped = FALSE

Next ==
  \E p \in Procs :
    \/ \E b \in Builds : Up(p, b) \/ \E keep \in Targets : Down(p, b, keep)
    \/ CheckPreconditions(p) \/ applyOne(p)
    \/ \E rows \in BOOLEAN : revertOne(p, rows)
    \/ Fail(p)

Spec == Init /\ [][Next]_vars

-----------------------------------------------------------------------------
(***************************************************************************)
(* While no revert runs beside another run, the ledger rows are a prefix   *)
(* of the registry under the checksums of one build, and the committed     *)
(* tables are exactly what that prefix creates, with every referenced      *)
(* table present: whatever two processes starting together, crashes and    *)
(* failed steps do.  Up verifies once, outside any transaction, and        *)
(* applies each migration with its ledger row in one; a build whose text   *)
(* of an applied migration differs adds nothing to what another began,     *)
(* even when both verified the same ledger first, since its second CREATE  *)
(* fails.                                                                  *)
(***************************************************************************)
SchemaMatchesLedger ==
  ~overlapped =>
    /\ Applied = 1..Cardinality(Applied)
    /\ catalog = UNION {Names(m) : m \in Applied}
    /\ \A n \in catalog : Refs(n) \subseteq catalog
    /\ \E b \in Builds : \A m \in Applied : ledger[m] = ChecksumFor(b, m)
=============================================================================
