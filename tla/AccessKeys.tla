------------------------------ MODULE AccessKeys ------------------------------
(***************************************************************************)
(* Bearer access keys of key sets (internal/service/accesskey over         *)
(* internal/storage/{sqlite,postgres}/accesskey.go): Mint, Rotate with a   *)
(* grace window, Revoke, Verify, and the ExpireGrace sweep.                *)
(*                                                                         *)
(* Mint, Revoke and the sweep run one auto-committed statement at a time;  *)
(* Rotate runs in one transaction.  The engine is as in RefreshTokens: on  *)
(* SQLite a write waits until no transaction is open, on PostgreSQL only   *)
(* for the lock of the row it updates.                                     *)
(***************************************************************************)
EXTENDS Naturals, FiniteSets

CONSTANTS
  Key,          \* access key identifiers, minted once each
  NoKey,        \* the nil ReplacedByID
  KeySet,       \* key sets of one owner
  Req,          \* concurrent service calls
  Sweeper,      \* server instances running the grace-expiry sweep
  GraceWindow,  \* how long a rotated key stays usable
  Batch,        \* rows one sweep pass may retire
  MaxTime       \* bound on the clock, for model checking

ASSUME KeysAssumption ==
  /\ NoKey \notin Key
  /\ GraceWindow \in Nat \ {0}
  /\ Batch \in Nat \ {0}
  /\ MaxTime \in Nat

VARIABLES
  engine,      \* the storage engine of the deployment
  now,         \* the clock
  inService,   \* key sets whose name is active
  status,      \* access_keys, column by column; "none": no such row
  setOf,       \* key_set_id
  grace,       \* grace_until; 0 is NULL
  replacedBy,
  revokedAt,   \* 0 is NULL
  pc,          \* next statement of each call
  key,         \* the key a call works on
  new,         \* the key a Rotate mints
  until,       \* the deadline a Rotate computed when it was called
  spc,         \* next statement of each sweeper
  batch,       \* keys the pass has still to retire
  swept,       \* the key whose retirement is to be recorded
  at,          \* clock reading of the pass
  trail,       \* audit records: <<action, key>>
  handed,      \* keys whose plaintext token reached the owner
  promised     \* history: first deadline each rotated key was given; 0: none

row   == <<status, setOf, grace, replacedBy, revokedAt>>
call  == <<pc, key, new, until>>
sweep == <<spc, batch, swept, at>>
vars  == <<engine, now, inService, row, call, sweep, trail, handed, promised>>

Serialized == engine = "sqlite"

InTx == {"rotate_get", "rotate_set", "rotate_mark", "rotate_commit"}

Location ==
  InTx \cup {"idle", "mint_create", "mint_emit", "rotate_emit_created",
             "rotate_emit_rotated", "revoke_write", "revoke_emit"}

Action == {"created", "rotated", "revoked"}

TypeOK ==
  /\ now \in Nat \ {0}
  /\ inService \subseteq KeySet
  /\ status \in [Key -> {"none", "active", "grace", "revoked"}]
  /\ setOf \in [Key -> KeySet]
  /\ grace \in [Key -> Nat]
  /\ replacedBy \in [Key -> Key \cup {NoKey}]
  /\ revokedAt \in [Key -> Nat]
  /\ pc \in [Req -> Location]
  /\ key \in [Req -> Key \cup {NoKey}]
  /\ new \in [Req -> Key \cup {NoKey}]
  /\ \A r \in Req : pc[r] # "idle" => key[r] \in Key
  /\ until \in [Req -> Nat]
  /\ spc \in [Sweeper -> {"idle", "retire", "emit"}]
  /\ batch \in [Sweeper -> SUBSET Key]
  /\ swept \in [Sweeper -> Key \cup {NoKey}]
  /\ at \in [Sweeper -> Nat]
  /\ trail \subseteq Action \X Key
  /\ handed \subseteq Key
  /\ promised \in [Key -> Nat]

Init ==
  /\ engine \in {"sqlite", "postgres"}
  /\ now = 1
  /\ inService = KeySet
  /\ status = [k \in Key |-> "none"]
  /\ setOf \in {[k \in Key |-> s] : s \in KeySet}
  /\ grace = [k \in Key |-> 0]
  /\ replacedBy = [k \in Key |-> NoKey]
  /\ revokedAt = [k \in Key |-> 0]
  /\ pc = [r \in Req |-> "idle"]
  /\ key = [r \in Req |-> NoKey]
  /\ new = [r \in Req |-> NoKey]
  /\ until = [r \in Req |-> 0]
  /\ spc = [w \in Sweeper |-> "idle"]
  /\ batch = [w \in Sweeper |-> {}]
  /\ swept = [w \in Sweeper |-> NoKey]
  /\ at = [w \in Sweeper |-> 0]
  /\ trail = {}
  /\ handed = {}
  /\ promised = [k \in Key |-> 0]

(***************************************************************************)
(* Helpers.                                                                *)
(***************************************************************************)
\* The lifecycle state of key k permits verification; the deadline counts.
Usable(k) ==
  \/ status[k] = "active"
  \/ status[k] = "grace" /\ grace[k] # 0 /\ now <= grace[k]

\* Verify: the token of key k, with the right secret, opens key set s.
Verify(k, s) == status[k] # "none" /\ setOf[k] = s /\ Usable(k)

\* No open transaction keeps a write out of the database.
MayWrite == Serialized => \A r \in Req : pc[r] \notin InTx

\* Row k carries the uncommitted update of a Rotate.
Locked(k) == \E r \in Req : pc[r] = "rotate_commit" /\ key[r] = k

\* Identifiers no row carries and no call has drawn.
Fresh(k) ==
  /\ status[k] = "none"
  /\ \A r \in Req : new[r] # k /\ ~(pc[r] = "mint_create" /\ key[r] = k)

Goto(r, l) == pc' = [pc EXCEPT ![r] = l]

Return(r) ==
  /\ pc' = [pc EXCEPT ![r] = "idle"]
  /\ key' = [key EXCEPT ![r] = NoKey]
  /\ new' = [new EXCEPT ![r] = NoKey]
  /\ until' = [until EXCEPT ![r] = 0]

(***************************************************************************)
(* Mint.                                                                   *)
(***************************************************************************)
\* The set is resolved and must be active; id and secret are drawn.
Mint(r, s, k) ==
  /\ pc[r] = "idle"
  /\ s \in inService
  /\ Fresh(k)
  /\ Goto(r, "mint_create")
  /\ key' = [key EXCEPT ![r] = k]
  /\ setOf' = [setOf EXCEPT ![k] = s]
  /\ UNCHANGED <<now, inService, status, grace, replacedBy, revokedAt, new, until, sweep,
                 trail, handed, promised>>

MintCreate(r) ==
  /\ pc[r] = "mint_create"
  /\ MayWrite
  /\ status' = [status EXCEPT ![key[r]] = "active"]
  /\ Goto(r, "mint_emit")
  /\ UNCHANGED <<now, inService, setOf, grace, replacedBy, revokedAt, key, new, until, sweep,
                 trail, handed, promised>>

\* The token is handed out only when the creation was recorded.
MintEmit(r) ==
  /\ pc[r] = "mint_emit"
  /\ trail' = trail \cup {<<"created", key[r]>>}
  /\ handed' = handed \cup {key[r]}
  /\ Return(r)
  /\ UNCHANGED <<now, inService, row, sweep, promised>>

(***************************************************************************)
(* Rotate.                                                                 *)
(***************************************************************************)
\* The deadline is computed from the clock before the transaction begins.
Rotate(r, k) ==
  /\ pc[r] = "idle"
  /\ status[k] # "none"
  /\ now + GraceWindow <= MaxTime   \* bound: the deadline is within reach
  /\ MayWrite
  /\ Goto(r, "rotate_get")
  /\ key' = [key EXCEPT ![r] = k]
  /\ until' = [until EXCEPT ![r] = now + GraceWindow]
  /\ UNCHANGED <<now, inService, row, new, sweep, trail, handed, promised>>

\* Mutant: every live credential may be rotated.
RotateGet_AnyLive(r) ==
  /\ pc[r] = "rotate_get"
  /\ \/ /\ status[key[r]] = "revoked"
        /\ Return(r)
     \/ /\ status[key[r]] # "revoked"
        /\ Goto(r, "rotate_set")
        /\ UNCHANGED <<key, new, until>>
  /\ UNCHANGED <<now, inService, row, sweep, trail, handed, promised>>

\* Only an active credential may be rotated.
RotateGet(r) ==
  /\ pc[r] = "rotate_get"
  /\ \/ /\ status[key[r]] # "active"
        /\ Return(r)
     \/ /\ status[key[r]] = "active"
        /\ Goto(r, "rotate_set")
        /\ UNCHANGED <<key, new, until>>
  /\ UNCHANGED <<now, inService, row, sweep, trail, handed, promised>>

\* keySetIn, and newRotatedKey when the set is in service.
RotateKeySet(r) ==
  /\ pc[r] = "rotate_set"
  /\ \/ /\ setOf[key[r]] \notin inService
        /\ Return(r)
     \/ /\ setOf[key[r]] \in inService
        /\ Goto(r, "rotate_mark")
        /\ \E k \in Key : Fresh(k) /\ new' = [new EXCEPT ![r] = k]
        /\ UNCHANGED <<key, until>>
  /\ UNCHANGED <<now, inService, row, sweep, trail, handed, promised>>

\* The INSERT of the new row, seen by nobody yet, and the UPDATE of the old
\* one: it waits for the row lock and then excludes a revoked row, in which
\* case the transaction rolls back.
MarkRotated(r) ==
  /\ pc[r] = "rotate_mark"
  /\ ~Locked(key[r])
  /\ \/ /\ status[key[r]] = "revoked"
        /\ Return(r)
     \/ /\ status[key[r]] # "revoked"
        /\ Goto(r, "rotate_commit")
        /\ UNCHANGED <<key, new, until>>
  /\ UNCHANGED <<now, inService, row, sweep, trail, handed, promised>>

\* Both rows appear together.
RotateCommit(r) ==
  /\ pc[r] = "rotate_commit"
  /\ status' = [status EXCEPT ![key[r]] = "grace", ![new[r]] = "active"]
  /\ setOf' = [setOf EXCEPT ![new[r]] = setOf[key[r]]]
  /\ grace' = [grace EXCEPT ![key[r]] = until[r]]
  /\ replacedBy' = [replacedBy EXCEPT ![key[r]] = new[r]]
  /\ promised' = [promised EXCEPT ![key[r]] = IF @ = 0 THEN until[r] ELSE @]
  /\ Goto(r, "rotate_emit_created")
  /\ UNCHANGED <<now, inService, revokedAt, key, new, until, sweep, trail, handed>>

RotateEmitCreated(r) ==
  /\ pc[r] = "rotate_emit_created"
  /\ trail' = trail \cup {<<"created", new[r]>>}
  /\ Goto(r, "rotate_emit_rotated")
  /\ UNCHANGED <<now, inService, row, key, new, until, sweep, handed, promised>>

\* Mutant: the token is returned although the first record failed.
RotateEmitRotated_Early(r) ==
  /\ pc[r] \in {"rotate_emit_created", "rotate_emit_rotated"}
  /\ trail' = trail \cup {<<"rotated", key[r]>>}
  /\ handed' = handed \cup {new[r]}
  /\ Return(r)
  /\ UNCHANGED <<now, inService, row, sweep, promised>>

RotateEmitRotated(r) ==
  /\ pc[r] = "rotate_emit_rotated"
  /\ trail' = trail \cup {<<"rotated", key[r]>>}
  /\ handed' = handed \cup {new[r]}
  /\ Return(r)
  /\ UNCHANGED <<now, inService, row, sweep, promised>>

(***************************************************************************)
(* Revoke, by the owner.                                                   *)
(***************************************************************************)
Revoke(r, k) ==
  /\ pc[r] = "idle"
  /\ status[k] \in {"active", "grace"}
  /\ Goto(r, "revoke_write")
  /\ key' = [key EXCEPT ![r] = k]
  /\ UNCHANGED <<now, inService, row, new, until, sweep, trail, handed, promised>>

\* The repository's Revoke: unconditional, keeps the first instant, clears
\* the deadline and the replacement.
RevokeRow(k, t) ==
  /\ MayWrite
  /\ ~Locked(k)
  /\ status' = [status EXCEPT ![k] = "revoked"]
  /\ revokedAt' = [revokedAt EXCEPT ![k] = IF @ = 0 THEN t ELSE @]
  /\ grace' = [grace EXCEPT ![k] = 0]
  /\ replacedBy' = [replacedBy EXCEPT ![k] = NoKey]
  /\ UNCHANGED setOf

RevokeWrite(r) ==
  /\ pc[r] = "revoke_write"
  /\ RevokeRow(key[r], now)
  /\ Goto(r, "revoke_emit")
  /\ UNCHANGED <<now, inService, key, new, until, sweep, trail, handed, promised>>

RevokeEmit(r) ==
  /\ pc[r] = "revoke_emit"
  /\ trail' = trail \cup {<<"revoked", key[r]>>}
  /\ Return(r)
  /\ UNCHANGED <<now, inService, row, sweep, handed, promised>>

\* A call ends early: an open transaction rolls back, a statement or an audit
\* write fails, or the process stops.
Abandon(r) ==
  /\ pc[r] # "idle"
  /\ Return(r)
  /\ UNCHANGED <<now, inService, row, sweep, trail, handed, promised>>

(***************************************************************************)
(* ExpireGrace.                                                            *)
(***************************************************************************)
\* Rows in grace whose deadline is at or before t.
ExpiredGrace(t) == {k \in Key : status[k] = "grace" /\ grace[k] # 0 /\ grace[k] <= t}

\* ListExpiredGrace: the oldest deadlines first, at most Batch of them.  An
\* empty page ends the pass at once.
ListExpiredGrace(w) ==
  /\ spc[w] = "idle"
  /\ \E page \in SUBSET ExpiredGrace(now) :
       /\ page # {}
       /\ Cardinality(page) <= Batch
       /\ Cardinality(page) = Batch \/ page = ExpiredGrace(now)
       /\ \A k \in page, j \in ExpiredGrace(now) \ page : grace[k] <= grace[j]
       /\ batch' = [batch EXCEPT ![w] = page]
  /\ spc' = [spc EXCEPT ![w] = "retire"]
  /\ at' = [at EXCEPT ![w] = now]
  /\ UNCHANGED <<now, inService, row, call, swept, trail, handed, promised>>

\* The next key of the page is revoked at the instant the pass began.  The
\* order inside a page is left open.
SweepRetire(w) ==
  /\ spc[w] = "retire"
  /\ \E k \in batch[w] :
       /\ RevokeRow(k, at[w])
       /\ batch' = [batch EXCEPT ![w] = @ \ {k}]
       /\ swept' = [swept EXCEPT ![w] = k]
  /\ spc' = [spc EXCEPT ![w] = "emit"]
  /\ UNCHANGED <<now, inService, call, at, trail, handed, promised>>

\* emitSystem.
SweepEmit(w) ==
  /\ spc[w] = "emit"
  /\ trail' = trail \cup {<<"revoked", swept[w]>>}
  /\ swept' = [swept EXCEPT ![w] = NoKey]
  /\ spc' = [spc EXCEPT ![w] = IF batch[w] = {} THEN "idle" ELSE "retire"]
  /\ at' = [at EXCEPT ![w] = IF batch[w] = {} THEN 0 ELSE @]
  /\ UNCHANGED <<now, inService, row, call, batch, handed, promised>>

\* A failed write or audit record ends the pass.
SweepAbandon(w) ==
  /\ spc[w] # "idle"
  /\ spc' = [spc EXCEPT ![w] = "idle"]
  /\ batch' = [batch EXCEPT ![w] = {}]
  /\ swept' = [swept EXCEPT ![w] = NoKey]
  /\ at' = [at EXCEPT ![w] = 0]
  /\ UNCHANGED <<now, inService, row, call, trail, handed, promised>>

(***************************************************************************)
(* Environment: a key set's name leaves service; time passes.              *)
(***************************************************************************)
SetLeavesService(s) ==
  /\ MayWrite
  /\ inService' = inService \ {s}
  /\ UNCHANGED <<now, row, call, sweep, trail, handed, promised>>

Tick ==
  /\ now < MaxTime
  /\ now' = now + 1
  /\ UNCHANGED <<inService, row, call, sweep, trail, handed, promised>>

CallStep(r) ==
  \/ MintCreate(r) \/ MintEmit(r)
  \/ RotateGet(r) \/ RotateKeySet(r) \/ MarkRotated(r) \/ RotateCommit(r)
  \/ RotateEmitCreated(r) \/ RotateEmitRotated(r)
  \/ RevokeWrite(r) \/ RevokeEmit(r)

Next ==
  /\ \/ \E r \in Req :
          \/ \E s \in KeySet, k \in Key : Mint(r, s, k)
          \/ \E k \in Key : Rotate(r, k) \/ Revoke(r, k)
          \/ CallStep(r)
          \/ Abandon(r)
     \/ \E w \in Sweeper :
          ListExpiredGrace(w) \/ SweepRetire(w) \/ SweepEmit(w) \/ SweepAbandon(w)
     \/ \E s \in inService : SetLeavesService(s)
     \/ Tick
  /\ UNCHANGED engine

Spec == Init /\ [][Next]_vars

(***************************************************************************)
(* Properties.                                                             *)
(***************************************************************************)
\* "A grace window that can be extended is not a window" (Rotate): Verify
\* never accepts a superseded key past the first deadline it was given,
\* whether or not the sweep runs, if write transactions are serialized.
LapsesOnSqlite ==
  Serialized => \A k \in Key, s \in KeySet : promised[k] # 0 /\ Verify(k, s) => now <= promised[k]

\* The owner holds a plaintext token only if its creation is in the audit
\* trail, and, for a replacement still recorded on its predecessor, the
\* rotation is too (Mint and Rotate return no token after a failed emit).
HandedIsRecorded ==
  \A k \in handed :
    /\ <<"created", k>> \in trail
    /\ \A j \in Key : replacedBy[j] = k => <<"rotated", j>> \in trail

===============================================================================
