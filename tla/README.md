# TLA+ verification of valletd

`valletd` publishes SSH public keys. Owners hold handles, devices, public keys,
key sets and access keys; clients enrol by a device grant, hold rotating
refresh tokens and short-lived access tokens; readers fetch published key sets,
and a helper on a host splices them into an `authorized_keys` file. The daemon
runs on SQLite or on PostgreSQL, in one or several replicas, with a counter
store in memory or in Redis, and obtains its own TLS certificate.

This directory holds TLA+ modules of the parts of the program whose correctness
depends on the order in which things happen, TLC configurations that check them
on small instances, and TLAPS proofs of results that hold for every instance.
The modules are translated from the Go source under `src/`; the comments in the
code are only used to find out what it is meant to guarantee. `PROJECT.json`
says, for every definition, which lines it models.

Paths below are relative to `src/internal/` unless they begin with `cmd/` or
`docs/`.

Running it: `tlc -config Handles.cfg MCHandles` checks a run (the runs, with
their module and configuration, are listed in `PROJECT.json`), and
`tlapm Publish_proofs.tla` checks the proofs of a module.

## The parts and how they meet

| Module | Code | What it models |
|---|---|---|
| `RefreshTokens` | `auth/tokenservice.go`, `auth/denylist.go`, `storage/*/refreshcred.go` | rotation of refresh tokens, reuse detection, lineage revocation, the denylist of access tokens |
| `Lineage` | | what a rotation lineage promises, abstractly; refined by `RefreshTokens` |
| `Enrollment`, `EnrollmentConstants` | `auth/enrollment.go`, `auth/apitoken.go`, `auth/authenticator.go`, `storage/*/pairing.go` | the device grant: start, mint, approve, redeem, poll, revoke |
| `AccessKeys` | `service/accesskey`, `storage/*/accesskey.go` | bearer keys of protected sets: mint, rotate with a grace window, revoke, verify, the grace sweep |
| `Handles` | `service/handle`, `storage/*/handle.go`, `service/onboarding` | public names: first claim, rename, hold, release sweep, the look-alike recompute at boot |
| `KeySets` | `service/keyset`, `storage/*/keyset.go` | the sets of one owner: create, rename, delete, default, visibility |
| `Publish` | `service/publish`, `service/publickey`, `service/device` | the five reads behind a published body, and the changes of keys and devices under them |
| `Erasure` | `erasure/{erasure,graph,owner}.go`, `storage/*/audit.go` | crypto-erasure of an owner from the audit log |
| `Retention`, `RetentionConstants` | `erasure/{retention,scheduler}.go`, `storage/*/audit.go` | the purge of old audit records by several replicas |
| `Names` | `blocklist`, `service/listadmin`, `storage/*/listoverride.go` | skeletons of names, edits of the lists by an administrator, the replay of the edits at start |
| `NameGuard` | `blocklist`, `nameguard` | matching of a name against the lists `Names` leaves, over every way to read it |
| `CounterPort` | `counter/counter.go` | what a counter store promises |
| `MemoryStore`, `StoreConstants` | `counter/memory.go` | the in-memory store, with its lazy purge; refines `CounterPort` |
| `Failover` | `counter/failover.go`, `redisstore`, `ratelimit/ratelimit.go` | the rate limiter on a shared store with a private fallback |
| `AuthBackoff` | `ratelimit/backoff.go`, `transport/http/enrollment.go` | counted failures and the lockouts they arm |
| `Migrations` | `schema`, `migrate`, `storage/*/migratedb.go` | the schema registry and its runner, for several processes |
| `Config` | `config/validate.go`, `config/secretsref.go`, `cmd/valletd/*.go` | validation of a configuration, and what the constructors of the start-up require of the same fields |
| `Daemon` | `cmd/valletd/main.go`, `sweep`, `transport/http/{server,healthserver,upstream}.go`, `telemetry/metricsserver.go` | start-up, listeners, background jobs, signals, drain, exit |
| `Certs` | `transport/http/cert*.go`, `transport/http/tls.go` | the certificate provider: issue, renew, cache, serve |
| `Dns01` | `dns01`, `transport/http/certacmedns01.go` | the DNS-01 challenge through each of the thirteen providers |
| `ManagedBlock` | `managedblock`, `cmd/vallet-helper` | the helper that rewrites a block of `authorized_keys` |

The parts meet in few places, and the modules meet there too.

* Everything durable is rows. A module keeps the columns its code reads or
  writes, by name, and its actions are statements. `Publish` treats what the
  other services commit (a rename, a deletion, a mint) as one step each;
  `KeySets`, `Handles` and `AccessKeys` model how such a commit comes about, so
  what they establish about committed rows is what `Publish` starts from.
* A device is enrolled in `Enrollment`, where a lineage is one value; what
  becomes of it is `RefreshTokens`.
* The denylist, the rate limiter and the backoff tier are clients of the counter
  port. `RefreshTokens` and `AuthBackoff` use it as `CounterPort` states it (a
  live entry keeps the deadline it was created with, an expired one is absent),
  `MemoryStore` is shown to implement that, and `Failover` puts two stores behind
  it.
* `Daemon` evaluates `Config`'s `Validate` in its first step and runs the
  background jobs. What a pass does is `Retention`, `Handles` and `AccessKeys`;
  what the boot's steps do is `Migrations`, `Names` and the recompute of
  `Handles`.
* `Certs` takes a challenge as a step that succeeds or fails; `Dns01` is that step.

### Transactions

Both engines are modelled by the order their statements can take. A deployment
has one (`newStore` in `cmd/valletd/datastore.go`): a variable `engine`, chosen
initially and never changed, or in `Handles` and `KeySets` a constant,
`Serialized`.

* SQLite (`Serialized`): `WithTx` is `BEGIN IMMEDIATE`, so one write
  transaction runs at a time, and an auto-committed write waits for it.
* PostgreSQL: transactions interleave at READ COMMITTED. A statement
  reads what is committed when it starts and what its own transaction wrote; an
  UPDATE of several rows locks them one by one in any order, waiting with some in
  hand, re-evaluates its predicate on each and does not find others; a transaction
  in a cycle of waits is rolled back; an index entry that another
  transaction has written is waited for. A transaction's writes appear in the
  tables when it commits.

Operations the code does not run in a transaction (enrolment, mint, device and key
changes, the publish path, list edits, erasure) are several steps on both engines.
A request may be abandoned between any two of its statements, which stands for an
error, a cancelled context and a crash alike; an open transaction is then rolled
back.

### How the modules are written

Actions keep the names of the functions they model, with a suffix where a function
has several statements. History variables are marked `history` and are read only
by properties. Bounds are constants named `Max...`; no proof depends on a bound's
value.

Operators whose name ends in a suffix such as `_Unconditional` are mutants: the
operator of the same base name with one plausible mistake in it. No
specification uses them. For every property a run checks, `PROJECT.json` names a
mutant that violates it under the same configuration, so each property is known
to depend on the code it is about.

A module starting with `MC` instantiates specifications for TLC. Most do so in
several *settings*: a variable chosen initially and never changed selects which
instance of a specification moves (an engine, a smaller set of operations, another
bound), and the variables of the others stay as they were. Each behaviour is
therefore a behaviour of one instance, and the states of a run are the disjoint
union of the settings. A property that holds only on one engine says so by
name (`...OnSqlite`, `...OnPostgres`), and the section on divergences says what
happens on the other. Besides choosing constants, a setting may restrict the
steps (one rename at a time, no sweep) to keep its state space small; the
restriction is a conjunct of `MCNext`, in sight, and none is part of a
specification or used by a proof.

## What the runs check

Every run is exhaustive for its bounds; none takes more than five minutes with
two workers. State counts are distinct states, after symmetry.

### `refresh_tokens` (565,000 states)

Two concurrent exchanges over three credentials of one owner: racing within two
instants on SQLite and within one on PostgreSQL, and one at a time while tokens and
denylist entries age.

* `ImplementsLineage`: every committed exchange or revocation is a rotation or a
  kill of the abstract lineage of `Lineage`, so a lineage that has lost its
  current credential never gets another. The refinement mapping takes the
  current credential of a lineage to be its active row.
* `RevokedIsDeadOnSqlite`: once a reuse has been answered nothing in the lineage is
  usable.
* `DenylistOutlivesTokens`: a credential the denylist pass has listed, or skipped
  as too old, has no access token that an instance accepts, even one whose
  clock is behind by the tolerated skew.
* `DeadlockLosesNoRevocation`: only answers to a replayed token wait for rows in a
  cycle, never a rotation; and when PostgreSQL rolls one of them back, the lineage
  has been revoked or another request is at revoking it.

Three credentials are a root, its successor and the successor of that, which is
the shortest chain on which a reuse, a racing rotation and a lineage-wide update
meet; two requests are the shortest race. Lifetimes 1 and 2 and a clock to 3 let
an access token, its denylist entry and the lineage end at different times.

### `access_keys` (1,336,000 states)

Two components that share no state, in three settings.

Access keys: two service calls on three keys of which at most two are minted
(SQLite), or two calls and a sweep on two keys (PostgreSQL), with a set that leaves
service and a clock to 3.

* `LapsesOnSqlite`: a superseded key stops verifying at the first deadline it was
  given, whatever rotates or revokes it afterwards.
* `HandedIsRecorded`: a token reaches a caller only when its creation, and the
  rotation it comes from, are in the audit trail.

Enrolment: one pairing, two owners, two requests, two lineages, the limit of one
approval attempt, and every statement failing.

* `DeliveredToApprover`: tokens a client receives are those of the account the row
  and the link name, whatever approvals race.
* `NoStrayLineage`: a live lineage is on a redeemed pairing, or its request is still
  going to consume or revoke it, or that request failed.

### `failover` (200,000 states)

Three components that share no state, in four settings.

The limiter: one instance with its reprobe goroutine, three requests, a primary that
goes and returns at any moment, a client that goes away (one request may be
cancelled), and `Close`.

* `EnforcedWhileFlapping`: at most `Limit` requests pass on the primary's count and
  at most `Limit` on the instance's own, however often the store fails over.
* `Recovers`: a primary that stays up is used again. The flag, the wake-up channel
  of capacity one and the goroutine are separate steps; this is the property
  that a lost wake-up would break.
* `CloseReturns`: `Close` returns although the goroutine may be in a probe.

Requests are numbered in order of arrival rather than declared symmetric, because
symmetry is unsound for temporal properties.

The in-memory store: two keys, two lifetimes, a purge on every third operation.

* `ImplementsPort`: an entry that has expired but is still resident cannot be told
  from an absent one, through any sequence of operations and purges.
* `ExpiredAreSwept`: an expired entry outlives fewer than `SweepInterval` mutating
  operations.

The purge of the audit log: two replicas with batches of 2 and a ceiling of 3 per
pass; up to four records on SQLite, two on PostgreSQL over a longer time, three with
a storage layer that panics under one replica.

* `DeletionsAccounted`: between passes, what a replica deleted and no audit record
  counts is exactly what was in reports that could not be written and in passes
  that a panic ended.
* `PurgedOnPostgres`: a record past its window is deleted in the end, by some
  replica that is still running.

### `handles` (536,000 states)

Two owners, two renames, one sweep, two booting replicas and four names of which
two look alike, in five settings (listed in `MCHandles`).

* `ExactlyOneActive`: an owner with any name has exactly one active name, unless they
  had names in the table the first boot found, which may hold an owner's names
  without an active one.
* `HoldProtectsName` (an action property): a vacated name reaches another owner only
  when the window since the rename that vacated it is over.
* `SettlesAlone`: on every legal table of up to three rows, once a replica is up
  every row has its true skeleton or is held, flagged, for an older one that has
  it; checked with two replicas that boot together.

The limit on held names is 2, so that it is reached; the window is 1 and the clock
goes to 2, so that a hold ends.

### `erasure` (1,585,000 states)

Two erasers on either engine, an owner with rows in two tables, one of which may be
deleted, one failure, and services that write rows and records meanwhile.

* `ColumnsErased`: when an erasure has returned, no record of its time has the owner or
  one of their rows in an identity column, whoever else was erasing or writing. Rows
  deleted meanwhile are excepted: nothing is left to collect them from.
* `NoHalfErasedRecord`: a record with a tombstone has no detail in the clear. Records a
  service writes between an erasure's read of the details and its rewriting of the
  columns (`late`) are excepted.

### `key_sets` (1,074,000 states) and `key_sets_postgres`

Two components that share no state, in three settings.

Key sets: three operations by two requests of an owner with two sets, at the limit of
three; all operations on SQLite, all but `SetDefault` and `SetVisibility` on PostgreSQL.

* `SetsAreIntact`: there is one default set and it is active; a rename takes the
  members along; no set is more widely visible than the owner last asked.

`key_sets_postgres` has the two operations the other leaves out, beside a rename. Its
property, `TombstonesStayDown`, is one the code does not have on PostgreSQL: see the
finding below. (It holds when `Serialized`.)

Name lists: two daemons on one database, two edits of three spellings (two of which have one
skeleton), two seeds, crashes, and writes that fail with or without effect.
Identifiers have up to three glyphs, one more ambiguous one than the bound on
readings.

* `WeakerIsRecorded`: what a daemon lets through beyond its seed is in the audit log.
* `EditsSurvive`: what a start composes for an edited entry is what the last
  successful edit left, or what a later, unanswered one tried to leave.
* `NoReservedReading`: a name that passes is exempt under its exact skeleton, or none
  of its readings is a reserved term or contains a forbidden part. The reference
  enumerates readings as functions; the code grows a list of candidates.

### `publish` (752,000 states) and `publish_device`

A reader's five statements against one key on one device while the other services
make up to three commits (`gates`), and against two keys on two devices while two
requests of the owner change them (`keys`).

* `GatesHeld`: a body is given only if, while the request ran, the handle was active,
  the owner in good standing, and the set public or opened by the reader's key.
  There is no transaction, so these need not have held together.
* `RevokedStaysUnserved`: no body holds a key revoked before the request began.

`publish_device` is a run whose property the code does not have: see the finding
below.

### `migrations` (827,000 states)

Three components that share no state, in four settings.

Migrations: two processes with the full registry of twelve migrations, running the
release, an earlier one or one with two edited texts, up or down to 4 or 0, two
runs each, failing anywhere.

* `SchemaMatchesLedger`: the ledger is a prefix of the registry under one build's
  checksums and the tables are exactly what it creates, as long as no revert ran
  beside another run.

DNS-01: each vendor, a name of four labels, every choice of hosted zones, two
nameservers (one with two addresses), lost answers, writes that land late, and an
operator who edits once; and two attempts in one zone.

* `AcceptedIsServed`: when the CA is told to validate, every nameserver the poll
  resolved has an address that serves the value.
* `LeakIsReported`: a value that stays published has been reported.
* `OthersKept` (an action property): only the attempt's own value is removed, but for
  the read-modify-write vendors.

Backoff: one client that sends one request after the other, five levels with lockouts
of 2 and 4, a count that lives 7, a clock to 12, a store that may fail under any call,
16-bit durations. A life of the count can end, or a success delete it, while a lockout
is still running.

* `GuessesCost`: the n-th failure of a life is counted only after the lockouts of the
  levels below have been served, except those whose write failed and at most one that
  met a lockout of an earlier life.

### `daemon` (54,000 states)

Every configuration that differs from two sound ones in a group of related fields,
through the eleven boot steps, three listeners, two jobs, signals, drain and exit;
two of the configurations also meet faults and traffic.

* `DBOutlivesWork`: the database is closed only when no job is in a pass, and no
  request in a handler unless the drain's deadline passed or the listener failed.
* `ValidatedRuns`: a configuration that passes `Validate` is refused later only for
  what `Validate` does not look at (`BeyondValidate`): a secret that is missing or too
  short, an address of the shared store that does not parse, a DNS vendor nobody
  knows, RFC 2136 settings that are present and malformed, several credentials for a
  vendor that takes one, or a seed of the name lists that cannot be installed. And its
  application listener loses its address to another listener only if one of the two
  is not spelled in figures or in the upstream case noted below. `addrsOverlap`
  compares spellings; `Collide`, the kernel's rule, compares the interface and port
  the spellings resolve to (`localhost`, `[::0]`, `https`).
* `Exits`: after a signal or the failure of the application listener the process ends.
* `SweepsGoOn`: while the daemon serves, a job that fails or panics is run again.

### `managed_block` (137,000 states)

Two components that share no state, in two settings.

Managed block: a timer and a person run the helper on a file of seven kinds, while
the published set changes once, the user edits once and there is one fault
(including power loss, where an unsynced rename may be undone). The limit on the
file's size is 6 lines, which the user or a run may exceed.

* `OwnLinesKept`: lines outside the markers are those the user last left, unless the
  user edited between a run's read and its rename.
* `Converges`: once everything settles the block holds exactly the published keys, or
  the file is one the timer refuses: ambiguous markers, not a regular file, over the
  size limit, or an empty published set.

Certificates: lifetimes of 12, checks every unit, backoff from 1 to 4. A variable
`pace` is chosen at first: three failures and three crashes at any moment (`rough`),
or two failures and a loop that is scheduled promptly (`prompt`).

* `NeverLapses`: the certificate in use does not expire (`prompt`, where an order, with
  its waits for the authority, takes no time).
* `OrderedOnlyWhenDue` (an action property): an order is placed only if nothing usable
  is in memory or in the cache, or the one in use is due.
* `ServesAgain`: the certificate in memory is one whose key the server holds, also after
  a crash between the two files of the cache; and a valid one is always in use again,
  unless a call to an ACME authority never returns (`AwaitsCA`).

### Deadlock, symmetry and fairness

Deadlock is checked in `refresh_tokens`, `publish`, `daemon` and `managed_block`. The others may stop when a bound is used up (no identifier, no
run, no tick left), so it is switched off there.

Symmetry is used only in runs without liveness properties: `ImplementsLineage`,
`HoldProtectsName` and `OthersKept` are safety properties.

Fairness is assumed where the scheduler, a timer or a supervisor gives it, and
never for what a client or a fault does:

| Run | Assumed | Because |
|---|---|---|
| `failover` | weak for a request's steps after a failed call, for the reprobe loop and for closing; strong for the loop's `done` case | goroutines that can run do run; Go's `select` chooses among ready cases at random, so a case that is ready again and again is taken |
| `failover` (purge) | weak for the clock, for the steps of a pass and for the start of a pass; strong for stopping | timers fire; the loop selects on its timer and its context |
| `daemon` | weak for the main goroutine, for each listener's start and for each job | as above; a pass honours its context. A request may take for ever and no response is assumed |
| `managed_block` | weak for the steps of a run and for the timer's start of one | the systemd timer starts the helper again |
| `managed_block` (certificates) | weak for booting, the loop's own steps, handshakes, the clock, and the installation of a signed certificate in the mode that waits for one; none for the answers of an ACME authority | the supervisor restarts the process, and start-up has a timeout, as the origin CA's client has; an ACME order has neither deadline nor client timeout; the last mode asks an operator and can do nothing without an answer |

## What is proved

The modules named `..._proofs` hold the theorems. All obligations are discharged by
Z3, Zenon and LS4. The theorems quantify over every value of the constants that
satisfies the component's `ASSUME`, so over any number of credentials, owners,
requests and replicas, on either engine, and however long the clock runs. Each
property is also checked by a run, which is how the invariants were found; most
proofs need only part of a component's `TypeOK`, which they call `Shape`.

| Theorem | Says |
|---|---|
| `RefreshTokens_proofs!TypeCorrect` | types |
| `...!RotationKeepsOneActive` | one active credential per lineage |
| `...!TokenConsumedOnce` | one successor per credential |
| `...!RotationInheritsDeadline` | every member expires with its root |
| `...!RevocationIsFinalOnSqlite` | `RevokedIsDeadOnSqlite` |
| `...!DeadlockIsHarmless` | `DeadlockLosesNoRevocation` |
| `...!DenylistIsSound` | `DenylistOutlivesTokens` |
| `...!RefinesLineage` | `ImplementsLineage` |
| `AccessKeys_proofs!TokensAreRecorded` | `HandedIsRecorded` |
| `...!GraceIsAWindow` | `LapsesOnSqlite` |
| `...!ApproverGetsTokens` | `DeliveredToApprover` (of `Enrollment`) |
| `...!LineagesAreAccountedFor` | `NoStrayLineage` (of `Enrollment`) |
| `Handles_proofs!OwnersKeepAName` | `ExactlyOneActive` |
| `...!HoldIsKept` | `HoldProtectsName` |
| `Publish_proofs!RevokedIsNeverServed` | `RevokedStaysUnserved` |
| `...!GatesAreNeverBypassed` | `GatesHeld` |
| `...!OrdersAreDue` | `OrderedOnlyWhenDue` (of `Certs`) |
| `...!RenewedInTime` | `NeverLapses` (of `Certs`), if the renewal share covers the waits between attempts |
| `Erasure_proofs!NothingHalfErased` | `NoHalfErasedRecord` |
| `...!ErasureIsComplete` | `ColumnsErased` |
| `Failover_proofs!LimitHolds` | `EnforcedWhileFlapping` |
| `...!StoreTypeCorrect` | types of the in-memory store |
| `...!ExpiredEntriesAreSwept` | `ExpiredAreSwept` (of `MemoryStore`) |
| `...!StoreImplementsPort` | `ImplementsPort` (of `MemoryStore`) |
| `...!PassesAccount` | `DeletionsAccounted` (of `Retention`) |
| `KeySets_proofs!SetsStayIntact` | `SetsAreIntact`, on SQLite, or without default and visibility changes |
| `Daemon_proofs!DatabaseOutlivesWork` | `DBOutlivesWork` |
| `...!ValidatedConfigsRun` | `ValidatedRuns` |
| `...!WeakeningIsAudited` | `WeakerIsRecorded` (of `Names`) |
| `...!EditsOutliveRestarts` | `EditsSurvive` (of `Names`) |

The inductive invariants, and why the properties need them:

* **RefreshTokens.** `RotationInv` adds to the three rotation properties that a
  transaction works on rows that exist, that a consumed row is spent, and
  `HoldsLock`: a transaction that has updated its credential and not committed
  still has it active in the tables and nobody else has updated it. Without the
  last, two exchanges could both commit a successor. `SerialInv` says that an open
  lineage revocation has found every active row of its lineage, which is true only
  because no other transaction is open: this is where PostgreSQL differs. For
  deadlocks, `WaitInv`: an exchange holds no row while it waits, so a cycle is made of
  revocations of one lineage (`CycleIsOneLineage`); `AnsweredInv` then says that a
  lineage that lost an answer to one is revoked or still has a request answering.
  `DenyInv` relates the denylist entry to the time of issue. The refinement needs
  in addition that the rows a revocation found are of its lineage, and that
  `CurrentOf`, a `CHOOSE`, is determined by the active row (`CurrentDetermined`).
* **MemoryStore.** `SweepInv`: an expired entry has outlived no more operations
  than were counted since the last purge. For the refinement, a purge is invisible
  through the port's reading of the map (`PurgeIsInvisible`).
* **Enrollment.** From the update that approves a row to the write of the link the
  row names the approver (`ApproverHeld`); a link names the row's owner
  (`LinkAgrees`); a redemption past the lookup acts for that owner (`RedeemerHeld`).
  `NoStrayLineage` is inductive on the types alone.
* **AccessKeys.** An identifier is drawn once (`DrawnOnce`), and a key in the middle
  of its records replaces at most the key its call rotates (`ReplacesOne`).
  `FirstDeadline` and `OneTransaction` are the argument for the grace window: what
  `Rotate` read is still so when it writes. The step fails on PostgreSQL.
* **Handles.** The property speaks of committed rows, so the invariant adds what
  transactions in flight have written (`Writes`, `Locks`), that an id never changes its
  name or owner (`CopiesKnown`, so a copy read before a wait may be written back after
  it), and that no two renames of an owner are both about to commit (`OneCommit`, the
  index on active rows). The proof uses nothing of SQLite's serialization. For the
  hold, `HoldStands`: a vacated name is still its owner's and held until the window
  ends, or the window is over.
* **Erasure.** Records stay in place and tombstones stay tombstones, whoever writes
  (`LogKept`). An erasure past its collection has collected every kept row named in a
  record of its time (`CollectedSoFar`); one at its n-th identifier has no record of
  its time left with an earlier one (`Rewritten`); and one past its scrub has left
  no such record with a detail in the clear (`Scrubbed`), also if another erasure
  rewrites the same columns with another salt.
* **Publish.** `Present` (a reader has seen the rows as they are now) and `Passed`
  (a reader past a gate has seen it open). The many actions that change rows are
  handled once, by a lemma that says what any of them may do to a reader
  (`Steps`, `WitnessSaw`).
* **Failover.** The requests let through split into a part within the shared count
  and a part within the counts of their instances, each at most `Limit`; the split
  is an existential in the invariant, and a step moves it along.
* **Retention.** Deleted and not recorded = excused + the count of the pass under
  way; a panic moves the second into the first.
* **Daemon.** No job runs after the joins (`Joined`), the listener accepts nothing
  from the drain on (`Accepting`), and a request still in a handler then has a
  reason (`Handled`). For the configurations, `ConfigInv`: past its first step the
  process runs only a configuration that `Validate` accepts, one that is refused has a
  fault `Validate` does not look at (`Blamed`, shown for each constructor of the boot in
  turn), and a listener that lost its address to another of the daemon names one whose
  address collides. The configurations are any set whose references and intervals are
  of the classes the code tells apart (`ConfigsAssumption`).
* **KeySets.** The property speaks of committed rows; the invariant adds what each
  transaction in flight has written (`Written`), what it remembers of the row it read
  (`Knows`) and who holds the owner's row (`Locks`). Beside a transaction that is about
  to write a default only deletions of other rows commit, so that at its commit the
  default it takes away is still the only one. The theorem has the condition the
  property has: `Serialized`, or no operation that writes back by id what it read before
  it waited. The two sets of the initial state, and that a request is not the value
  for "nobody", are the assumptions on the constants.
* **Names.** For any number of daemons. `PolicyInv`: a row that weakens a list
  has its record (`RowHeld`), since an edit that weakens is recorded before it is
  persisted (`EditHeld`, by the stage of the edit); an edit past its write has its row,
  which is its own unless a rival edited the entry, and rivals know of each other
  (`RivalsKnown`); an entry some edit has settled has a row. What `replay` composes for an
  entry that has a row is what the row says, under every seed (`RowDecides`), and what
  it composes beyond the seed comes from a weakening row (`ComposedIsRecorded`), so a
  restart after any crash brings up nothing that is not recorded.

* **Certs.** `CertInv`: the certificate being stored is for another key than the old one,
  so a cache torn between its two files is not taken for valid, and an issuing process
  without a certificate in memory has no usable one in its cache. For the lapse,
  `LapseInv` is a budget: the age of the certificate, plus what is left on the timer, is at
  most the age at which it is due, plus one check, plus the longest wait for each failure
  so far. `RenewedInTime` therefore asks that
  `CheckInterval + PromptFailures * (BackoffMax + BackoffMax \div 4)` is at most the
  share `Lifetime \div RenewFraction`; with the code's values (90 days, a third, one
  hour, six hours) that allows 95 failures in a row. The run's instance is outside that
  condition, since its backoff starts below its maximum, so the two say different things.

Only model-checked: every liveness property (liveness under fairness is out of the
prover's reach); what the operators over sequences and folds compute
(`NoReservedReading` over the candidates of `expandCandidates`, `GuessesCost` over the sum of
the lockouts, `ManagedBlock`'s splicing, and the recompute behind `SettlesAlone`), which
would take induction over data; and the safety properties of `Migrations`, `Dns01`,
`AuthBackoff` and `ManagedBlock`.

## Where the code and its description differ

Two runs, `publish_device` and `key_sets_postgres`, show a difference by a
counterexample:

* **A revoked device keeps publishing.** `device.Revoke` (`service/device/device.go:317`)
  writes the device's row and leaves its keys active; `RevokeByDevice` has no
  caller, and the publish path never reads the device. `docs/requirements/phase-1.md:29`
  says "Keys are grouped by device so a lost/retired device can be revoked as a
  unit."
* **A rename is undone on PostgreSQL.** `SetVisibility` (`service/keyset/keyset.go:693`)
  writes back by id the state and visibility of a row it read without a lock; a rename
  that commits in between has quarantined that row, which publishes again beside the
  new name. `SetDefault` (`:617`) likewise puts the default on a tombstone. The comment
  of `SetDefault` (`:568`) says of its read that "it runs inside the same transaction as
  the write so a rename cannot quarantine the row in between", and that of
  `SetVisibility` (`:653`) refers to it.

The others were met while modelling. The modules contain the behaviour; the
properties above leave it out by their setting or by a condition they name.

*Two transactions on PostgreSQL* (the reason for the `...OnSqlite` properties):

* `storage/postgres/refreshcred.go:198`: an exchange that commits while the lineage
  UPDATE waits for its row adds a successor the UPDATE does not see. The comment
  says there is "no window in which an attacker's freshly minted successor survives".
* `service/accesskey/rotate.go:134`: two rotations of one key both read it as active,
  and the second one installs a later deadline, where `MarkRotated` does not exclude
  a row in grace. "A grace window that can be extended is not a window"
  (`rotate.go:70`).
* `service/handle/handle.go:307`: the held names are counted in one statement and the
  active row is quarantined in a later one, so three renames of one owner can leave
  one name more than the limit.
* `service/handle/recompute.go:132`: replicas that boot together list the same rows,
  and the second one writes and records every quarantine again.
* `service/keyset/keyset.go:428`: a rename copies the visibility it read before it
  waited. For this and the finding above the PostgreSQL setting of `key_sets` leaves
  `SetDefault` and `SetVisibility` out.
* `erasure/retention.go:168`: a batch shorter than its limit ends a pass, and a replica
  whose rows another one deletes gets a short batch; the next tick goes on.

*Several statements without a transaction, on both engines:*

* `auth/enrollment.go:491`: `Revoke` of a redeemed pairing gets a conflict from its
  first write and returns before it revokes the lineage; a pairing it can still
  revoke has no lineage. The doc comment says it "kills the credentials it issued".
* `auth/enrollment.go:455`: a process that dies between `Issue` and `MarkRedeemed`, or
  whose compensating revocation fails, leaves a live lineage that no pairing names
  (`lost` in `NoStrayLineage`). Its tokens reached nobody.
* `auth/enrollment.go:578`: `Poll` compares and advances `next_poll_at` in two
  statements, so two polls at once are both answered.
* `service/accesskey/accesskey.go:304`: `Mint` reads the set and inserts the key; a set
  that leaves service in between gains a key.
* `service/publickey/publickey.go:201`: `Add` does the same with a device.
* `service/publish/publish.go:159`: a set deleted after its row was read is answered
  with an empty body and success.
* `erasure/erasure.go:244`: a record appended between the read of the details and the
  rewriting of the columns keeps its details (`NoHalfErasedRecord` excepts such
  records). `erasure/graph.go:190`: what a released handle was named in stays
  in the clear, as its row is no longer there to be collected (`ColumnsErased` excepts such rows).
* `erasure/owner.go:89`: "This rewrites identifier columns only", and "do not read this type
  as providing erasure over a whole audit record". The code does more: `EraseOwner` scrubs
  the metadata of every record it erases (`erasure/erasure.go:244`), and
  `NoHalfErasedRecord` shows that no such record keeps a detail. The comment is out of date.
* `service/listadmin/listadmin.go:258`: "An edit that cannot be recorded ... is an edit that
  did not happen", while a strengthening edit is persisted before it is recorded and
  stays when the record fails. `Names` has it so; `EditsSurvive` counts such an edit
  as one that may have taken effect. Other replicas keep their lists until they
  restart.

*Limits and clocks:*

* `storage/postgres/accesskey.go:224`: the sweep takes `grace_until <= now` while `usable`
  accepts a key at that instant.
* `counter/memory.go:188`: entries that expire together right after a purge are all
  resident until the next one; "bounded by sweepInterval" (`memory.go:13`) holds for how
  long an entry stays, which is `ExpiredAreSwept`, not for how many there are.
* `redisstore/redisstore.go:225`: a cancelled request is reported as an outage, so one
  client that goes away puts an instance on its private counters until the next probe.
* `counter/failover.go:48`: the memory counts "are discarded when the Primary recovers". The
  code leaves them: they expire with their window, and an instance that degrades again
  in it goes on counting where it was. `EnforcedWhileFlapping` depends on this; with the
  counts discarded, a primary that comes and goes would let a client through again and
  again, which is the mutant the property is tried with.
* `ratelimit/backoff.go:232`: the count has a fixed life, so a lockout armed late in it
  outlives it. `:242`: a success does not remove lockouts, so a level reached again
  may find the rest of an old one. `:106`: a shift can wrap to a small positive value,
  though not for the shipped tier. `GuessesCost` is about one client that waits for
  its answers; it excuses the levels whose lockout was not written (`unarmed`), and at
  most one level of a life that met such a rest (`met`).
* `erasure/scheduler.go:231`: a panic in a later batch loses the count of the earlier ones
  (`DeletionsAccounted` excuses such a pass).
* `service/keyset/keyset.go:319`: a quarantined set's name is never released: the query for
  expired ones has no caller. `:428`: access keys do not follow a renamed set.
* `service/handle/handle.go:404`: an owner can take a held look-alike back, since
  reactivation looks at no fold; `SettlesAlone` is about tables nothing else writes.

*Certificates, listeners, files:*

* `dns01/propagation.go:201`: a nameserver whose name does not resolve is left out of the
  intersection. The comment (`:48`) says a positive result means that "every server the
  CA could ask" serves the record; `AcceptedIsServed` is about the ones resolved.
* `dns01/cloudflare.go:164`: when the answer to the creating request is lost, `Present`
  returns no cleanup, which the contract (`dns01.go:106`) asks for "whenever anything was
  created". Vendors that replace a whole record set can drop what another writer added
  since they read it.
* `config/validate.go:750`: the scrape listener is compared with `server.listen_addr` alone,
  so in upstream mode it can take the application's address. `ValidatedRuns` names
  this case. `:777`: addresses are compared as written, so `localhost` beside `127.0.0.1`
  or `:https` beside `:443` pass and collide at start; the comment there says so.
* `dns01/rfc2136.go:183`, `cmd/valletd/namepolicy.go:49`: a TSIG server or key name that is
  present and malformed, or a bad seed of the block list, passes `Validate` and is
  refused at start.
* `transport/http/certacme.go:211`, `:785`: orders run on a context without deadline over a
  client without timeout. An authority that accepts a connection and never answers stops
  the renewal loop until the process is restarted (`AwaitsCA` in `ServesAgain`).
* `managedblock/apply.go:231`: the limit on the file's size is checked when it is read and
  not when the merged file is written. A run can push a file over the limit, and every
  later run is then refused, be the published set ever so small (`TooLarge` in `Converges`).
* `managedblock/apply.go`: an edit by the user between a run's read and its rename is
  overwritten (`raced` in `OwnLinesKept`).
* `migrate/runner.go`: `Up` and `Down` verify outside the transactions they go on to make, so
  a revert beside another run can leave tables the ledger does not list
  (`overlapped`). `Down` has no caller in production.

## Not modelled, and what is abstracted

* **Authorization, administrator tokens** (the roles, the token signatures): decisions on one
  request, a table over role and ownership. They have no state, so a property would
  restate the table. Where a service re-reads an owner's standing, that read is a step.
* **HTTP rate limiting middleware**: picks a tier and a key; the limiter is in `Failover`.
* **HTTP handlers** other than those of authentication: decode, call one service, encode.
* **Secrets, hashing, redaction, logging, telemetry**: values and output. Signatures and
  HMACs are injective functions of what they cover.
* **Key parsing, rendering, entity tags, the tables of confusable runes, request formats of
  the DNS vendors**: data. `Names` and `NameGuard` have one digit and one ambiguous stroke of the tables, which
  is what its properties tell apart.
* **List queries, paging, the owner and administrator repositories**: reads, or single
  statements without a race.
* **Onboarding and bootstrap**: the claim of a first handle is in `Handles` and the state
  after seeding is the initial state of `Publish` and `KeySets`; the check of the operator's
  token is not modelled.
* **Migrations**: a statement is the table or column it adds; indexes and column types are
  left out, and the flags for destructive and irreversible migrations, which none of the
  twelve sets.
* **ManagedBlock**: permission bits and symbolic links are one kind of file, refused.
* **Daemon**: the two sweeps share one runner implementation and are two instances of it;
  jitter only delays a pass. Configurations vary in groups of related fields around two
  sound ones, since their full product is out of reach and the checks of different
  groups share no field.
* **Redis** is a count that is up or down; **the CA, the DNS and the kernel's bind** are
  modelled from how the code uses them and marked external in `PROJECT.json`.
