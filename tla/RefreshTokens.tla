----------------------------- MODULE RefreshTokens -----------------------------
(***************************************************************************)
(* Rotating refresh credentials (internal/auth/tokenservice.go over        *)
(* internal/storage/{sqlite,postgres}/refreshcred.go) and the access-token *)
(* denylist (internal/auth/denylist.go over a counter store).              *)
(*                                                                         *)
(* Every Exchange is a request r of Req that runs its statements one at a  *)
(* time inside one transaction.  The two storage engines differ in what    *)
(* may happen between two statements:                                      *)
(*   sqlite    BEGIN IMMEDIATE, one write transaction.                     *)
(*   postgres  READ COMMITTED: transactions interleave; each statement     *)
(*     reads the rows committed when it starts; an UPDATE takes the rows   *)
(*     it has found one at a time and in any order, waits for each row     *)
(*     that an open transaction has locked, re-evaluates its predicate on  *)
(*     it, and keeps the lock until its own transaction ends.  Requests    *)
(*     that wait in a cycle are detected, and one of them is rolled back.  *)
(* Uncommitted writes are visible to their own transaction only, so a      *)
(* transaction's writes appear in the tables in its commit step.           *)
(***************************************************************************)
EXTENDS Naturals

CONSTANTS
  Cred,                    \* credential identifiers, minted once each
  NoCred,                  \* the nil RotatedFromID
  Owner,                   \* accounts
  Req,                     \* concurrent Exchange requests
  AccessTokenLifetime,     \* life of an access token
  RefreshLineageLifetime,  \* absolute life of a rotation lineage
  DenylistSkew,            \* tolerated clock difference between instances
  MaxTime                  \* bound on the clock, for model checking

ASSUME ConstantsAssumption ==
  /\ NoCred \notin Cred
  /\ AccessTokenLifetime \in Nat \ {0}
  /\ RefreshLineageLifetime \in Nat \ {0}
  /\ DenylistSkew \in Nat
  /\ MaxTime \in Nat

VARIABLES
  engine,     \* the storage engine of the deployment
  now,        \* the clock
  standing,   \* owners that are active and not deleted
  status,     \* refresh_credentials, column by column; "none": no such row
  lineage,
  owner,
  from,       \* rotated_from_id
  issuedAt,
  expiresAt,
  denied,     \* denylist: instant at which the entry of a credential expires
  pc,         \* next statement of each request
  tok,        \* the credential a request presents
  at,         \* the request's own clock reading
  seen,       \* status the request read
  rows,       \* rows a lineage revocation has found and not yet updated
  held,       \* rows the transaction of a request has locked
  want,       \* row whose lock a request waits for
  toDeny,     \* rows read back, still to be listed on the denylist
  killed,     \* history: lineages whose revocation has committed
  dealtWith,  \* history: credentials the denylist pass has dealt with
  aborted     \* history: lineages a deadlock cost a request, and no error since

tables == <<status, lineage, owner, from, issuedAt, expiresAt>>
local  == <<tok, at, seen, rows, held, want, toDeny>>
ghost  == <<killed, dealtWith, aborted>>
vars   == <<engine, now, standing, tables, denied, pc, local, ghost>>

Serialized == engine = "sqlite"

Status   == {"none", "active", "rotated", "revoked"}
InTx     == {"lookup", "owner", "consume", "mint", "reuse", "revoking", "commit"}
Location == InTx \cup {"idle", "deny"}

TypeOK ==
  /\ now \in Nat
  /\ standing \subseteq Owner
  /\ status \in [Cred -> Status]
  /\ lineage \in [Cred -> Cred]
  /\ owner \in [Cred -> Owner]
  /\ from \in [Cred -> Cred \cup {NoCred}]
  /\ issuedAt \in [Cred -> Nat]
  /\ expiresAt \in [Cred -> Nat]
  /\ denied \in [Cred -> Nat]
  /\ pc \in [Req -> Location]
  /\ tok \in [Req -> Cred \cup {NoCred}]
  /\ \A r \in Req : pc[r] # "idle" => tok[r] \in Cred
  /\ at \in [Req -> Nat]
  /\ seen \in [Req -> Status]
  /\ rows \in [Req -> SUBSET Cred]
  /\ held \in [Req -> SUBSET Cred]
  /\ want \in [Req -> Cred \cup {NoCred}]
  /\ toDeny \in [Req -> SUBSET Cred]
  /\ killed \subseteq Cred
  /\ dealtWith \subseteq Cred
  /\ aborted \subseteq Cred

Init ==
  /\ engine \in {"sqlite", "postgres"}
  /\ now = 0
  /\ standing = Owner
  /\ status = [c \in Cred |-> "none"]
  /\ lineage = [c \in Cred |-> c]
  /\ owner \in {[c \in Cred |-> o] : o \in Owner}
  /\ from = [c \in Cred |-> NoCred]
  /\ issuedAt = [c \in Cred |-> 0]
  /\ expiresAt = [c \in Cred |-> 0]
  /\ denied = [c \in Cred |-> 0]
  /\ pc = [r \in Req |-> "idle"]
  /\ tok = [r \in Req |-> NoCred]
  /\ at = [r \in Req |-> 0]
  /\ seen = [r \in Req |-> "none"]
  /\ rows = [r \in Req |-> {}]
  /\ held = [r \in Req |-> {}]
  /\ want = [r \in Req |-> NoCred]
  /\ toDeny = [r \in Req |-> {}]
  /\ killed = {}
  /\ dealtWith = {}
  /\ aborted = {}

(***************************************************************************)
(* The storage engine.                                                     *)
(***************************************************************************)
\* No other transaction is open; SQLite lets a writer begin only then.
MayBegin(r) == Serialized => \A q \in Req \ {r} : pc[q] \notin InTx

\* Row c is locked by a transaction other than r's.
Locked(c, r) == \E q \in Req \ {r} : c \in held[q]

\* An UPDATE takes the lock of a row, or begins to wait for it.
LockRow(r, c) ==
  /\ ~Locked(c, r)
  /\ held' = [held EXCEPT ![r] = @ \cup {c}]
  /\ want' = [want EXCEPT ![r] = NoCred]

AwaitRow(r, c) ==
  /\ want[r] = NoCred
  /\ Locked(c, r)
  /\ want' = [want EXCEPT ![r] = c]
  /\ UNCHANGED held

\* r waits for a row of q; r is one of several requests that wait in a cycle.
Awaits(r, q) == want[r] # NoCred /\ want[r] \in held[q]

Deadlocked(r) ==
  \E S \in SUBSET Req :
    /\ r \in S
    /\ \A p \in S : (\E q \in S : Awaits(p, q)) /\ (\E q \in S : Awaits(q, p))

Goto(r, l) == pc' = [pc EXCEPT ![r] = l]

\* The request returns; its local state is gone.
Return(r) ==
  /\ pc' = [pc EXCEPT ![r] = "idle"]
  /\ tok' = [tok EXCEPT ![r] = NoCred]
  /\ at' = [at EXCEPT ![r] = 0]
  /\ seen' = [seen EXCEPT ![r] = "none"]
  /\ rows' = [rows EXCEPT ![r] = {}]
  /\ held' = [held EXCEPT ![r] = {}]
  /\ want' = [want EXCEPT ![r] = NoCred]
  /\ toDeny' = [toDeny EXCEPT ![r] = {}]

\* The rows of the lineage of the presented credential.
LineageOf(r) == {c \in Cred : status[c] # "none" /\ lineage[c] = lineage[tok[r]]}

(***************************************************************************)
(* Issue: one auto-committed INSERT of the root of a new lineage.  The      *)
(* caller has checked the owner's standing earlier; Issue does not.        *)
(***************************************************************************)
Issue(o, c) ==
  /\ status[c] = "none"
  /\ Serialized => \A q \in Req : pc[q] \notin InTx
  /\ status' = [status EXCEPT ![c] = "active"]
  /\ lineage' = [lineage EXCEPT ![c] = c]
  /\ owner' = [owner EXCEPT ![c] = o]
  /\ from' = [from EXCEPT ![c] = NoCred]
  /\ issuedAt' = [issuedAt EXCEPT ![c] = now]
  /\ expiresAt' = [expiresAt EXCEPT ![c] = now + RefreshLineageLifetime]
  /\ UNCHANGED <<now, standing, denied, pc, local, ghost>>

(***************************************************************************)
(* Exchange.                                                               *)
(***************************************************************************)
\* WithTx begins; the caller has read the clock.  A token names a credential
\* that was minted at some time.
Begin(r, c) ==
  /\ pc[r] = "idle"
  /\ status[c] # "none"
  /\ MayBegin(r)
  /\ Goto(r, "lookup")
  /\ tok' = [tok EXCEPT ![r] = c]
  /\ at' = [at EXCEPT ![r] = now]
  /\ UNCHANGED <<now, standing, tables, denied, seen, rows, held, want, toDeny, ghost>>

\* GetByID.
Lookup(r) ==
  /\ pc[r] = "lookup"
  /\ seen' = [seen EXCEPT ![r] = status[tok[r]]]
  /\ Goto(r, "owner")
  /\ UNCHANGED <<now, standing, tables, denied, tok, at, rows, held, want, toDeny, ghost>>

\* Owners.Get and the decision: an owner in bad standing is refused before
\* reuse is even considered, a credential read as inactive is a reuse, an
\* expired lineage is refused.
CheckOwner(r) ==
  /\ pc[r] = "owner"
  /\ \/ /\ owner[tok[r]] \notin standing
        /\ Return(r)
     \/ /\ owner[tok[r]] \in standing
        /\ seen[r] # "active"
        /\ Goto(r, "reuse")
        /\ UNCHANGED local
     \/ /\ owner[tok[r]] \in standing
        /\ seen[r] = "active"
        /\ at[r] >= expiresAt[tok[r]]
        /\ Return(r)
     \/ /\ owner[tok[r]] \in standing
        /\ seen[r] = "active"
        /\ at[r] < expiresAt[tok[r]]
        /\ Goto(r, "consume")
        /\ UNCHANGED local
  /\ UNCHANGED <<now, standing, tables, denied, ghost>>

\* Mutant: UPDATE without "AND status = 'active'".
MarkRotated_Unconditional(r) ==
  /\ pc[r] = "consume"
  /\ \/ AwaitRow(r, tok[r]) /\ UNCHANGED pc
     \/ LockRow(r, tok[r]) /\ Goto(r, "mint")
  /\ UNCHANGED <<now, standing, tables, denied, tok, at, seen, rows, toDeny, ghost>>

\* MarkRotated: UPDATE ... WHERE status = 'active', and its classification of
\* zero rows as a conflict, which the caller treats as a reuse.  A row that was
\* active when the statement began is locked even if it no longer is.
MarkRotated(r) ==
  /\ pc[r] = "consume"
  /\ \/ /\ want[r] = NoCred
        /\ status[tok[r]] # "active"
        /\ Goto(r, "reuse")
        /\ UNCHANGED <<held, want>>
     \/ /\ status[tok[r]] = "active"
        /\ AwaitRow(r, tok[r])
        /\ UNCHANGED pc
     \/ /\ status[tok[r]] = "active"
        /\ LockRow(r, tok[r])
        /\ Goto(r, "mint")
     \/ /\ want[r] = tok[r]
        /\ status[tok[r]] # "active"
        /\ LockRow(r, tok[r])
        /\ Goto(r, "reuse")
  /\ UNCHANGED <<now, standing, tables, denied, tok, at, seen, rows, toDeny, ghost>>

\* Create the successor, mint, COMMIT.
CommitExchange(r) ==
  /\ pc[r] = "mint"
  /\ \E c \in Cred :
       /\ status[c] = "none"
       /\ status' = [status EXCEPT ![tok[r]] = "rotated", ![c] = "active"]
       /\ lineage' = [lineage EXCEPT ![c] = lineage[tok[r]]]
       /\ owner' = [owner EXCEPT ![c] = owner[tok[r]]]
       /\ from' = [from EXCEPT ![c] = tok[r]]
       /\ issuedAt' = [issuedAt EXCEPT ![c] = at[r]]
       /\ expiresAt' = [expiresAt EXCEPT ![c] = expiresAt[tok[r]]]
  /\ Return(r)
  /\ UNCHANGED <<now, standing, denied, ghost>>

\* Mutant: only the replayed credential is revoked.
FindLineage_OnlyPresented(r) ==
  /\ pc[r] = "reuse"
  /\ rows' = [rows EXCEPT ![r] = {tok[r]}]
  /\ Goto(r, "revoking")
  /\ UNCHANGED <<now, standing, tables, denied, tok, at, seen, held, want, toDeny, ghost>>

\* RevokeLineage, first half: the rows its snapshot finds.
FindLineage(r) ==
  /\ pc[r] = "reuse"
  /\ rows' = [rows EXCEPT ![r] = {c \in LineageOf(r) : status[c] # "revoked"}]
  /\ Goto(r, "revoking")
  /\ UNCHANGED <<now, standing, tables, denied, tok, at, seen, held, want, toDeny, ghost>>

\* RevokeLineage, second half: one row after another, with no ORDER BY.  A row
\* that someone else has revoked meanwhile is locked and otherwise left alone.
RevokeRow(r) ==
  /\ pc[r] = "revoking"
  /\ \E c \in rows[r] :
       /\ want[r] \in {NoCred, c}
       /\ \/ AwaitRow(r, c) /\ UNCHANGED rows
          \/ LockRow(r, c) /\ rows' = [rows EXCEPT ![r] = @ \ {c}]
  /\ UNCHANGED <<now, standing, tables, denied, pc, tok, at, seen, toDeny, ghost>>

\* ListByLineage; a failed read leaves nothing to list and still commits.
ListByLineage(r) ==
  /\ pc[r] = "revoking"
  /\ rows[r] = {}
  /\ \E S \in {LineageOf(r), {}} : toDeny' = [toDeny EXCEPT ![r] = S]
  /\ Goto(r, "commit")
  /\ UNCHANGED <<now, standing, tables, denied, tok, at, seen, rows, held, want, ghost>>

\* Mutant: the denial is returned from inside the transaction, which rolls back.
CommitRevocation_DenialRollsBack(r) ==
  /\ pc[r] = "commit"
  /\ Return(r)
  /\ UNCHANGED <<now, standing, tables, denied, ghost>>

\* COMMIT of the revocation; the transaction gives up its locks.
CommitRevocation(r) ==
  /\ pc[r] = "commit"
  /\ status' = [c \in Cred |-> IF c \in held[r] THEN "revoked" ELSE status[c]]
  /\ killed' = killed \cup {lineage[tok[r]]}
  /\ held' = [held EXCEPT ![r] = {}]
  /\ Goto(r, "deny")
  /\ UNCHANGED <<now, standing, lineage, owner, from, issuedAt, expiresAt, denied, tok, at, seen,
                 rows, want, toDeny, dealtWith, aborted>>

\* The request has found a reuse and has not yet committed its answer.
Answering(r) == pc[r] \in {"reuse", "revoking", "commit"}

\* A storage error, a wrong secret, a canceled context or a crash: ROLLBACK.
Rollback(r) ==
  /\ pc[r] \in InTx
  /\ Return(r)
  /\ aborted' = IF Answering(r) THEN aborted \ {lineage[tok[r]]} ELSE aborted
  /\ UNCHANGED <<now, standing, tables, denied, killed, dealtWith>>

\* Postgres rolls back a request of a cycle; nothing in the code tries again.
DeadlockVictim(r) ==
  /\ pc[r] \in InTx
  /\ Deadlocked(r)
  /\ Return(r)
  /\ aborted' = aborted \cup {lineage[tok[r]]}
  /\ UNCHANGED <<now, standing, tables, denied, killed, dealtWith>>

(***************************************************************************)
(* denyRevoked: after the commit, best effort.                             *)
(***************************************************************************)
\* Mutant: entries live exactly as long as the tokens.
DenylistEntryTTL_NoSkew == AccessTokenLifetime

\* The life of a denylist entry.
DenylistEntryTTL == AccessTokenLifetime + DenylistSkew

\* Counter store Increment: a live entry keeps its expiry.
ListOnDenylist(c) ==
  denied' = [denied EXCEPT ![c] = IF now < @ THEN @ ELSE now + DenylistEntryTTL]

\* One iteration of Denylist.RevokeLineage; credentials issued too long ago
\* to have a live access token are skipped.
DenylistNext(r) ==
  /\ pc[r] = "deny"
  /\ \E c \in toDeny[r] :
       /\ \/ /\ issuedAt[c] + DenylistEntryTTL > at[r]
             /\ ListOnDenylist(c)
          \/ /\ issuedAt[c] + DenylistEntryTTL <= at[r]
             /\ UNCHANGED denied
       /\ toDeny' = [toDeny EXCEPT ![r] = @ \ {c}]
       /\ dealtWith' = dealtWith \cup {c}
  /\ UNCHANGED <<now, standing, tables, pc, tok, at, seen, rows, held, want, killed, aborted>>

\* The loop is done, or the store failed and the rest is dropped, or a crash.
DenylistEnd(r) ==
  /\ pc[r] = "deny"
  /\ Return(r)
  /\ UNCHANGED <<now, standing, tables, denied, ghost>>

(***************************************************************************)
(* Environment.                                                            *)
(***************************************************************************)
\* An operator suspends or reinstates an account.
SetStanding(o) ==
  /\ Serialized => \A q \in Req : pc[q] \notin InTx
  /\ standing' = IF o \in standing THEN standing \ {o} ELSE standing \cup {o}
  /\ UNCHANGED <<now, tables, denied, pc, local, ghost>>

Tick ==
  /\ now < MaxTime
  /\ now' = now + 1
  /\ UNCHANGED <<standing, tables, denied, pc, local, ghost>>

Step(r) ==
  \/ Lookup(r) \/ CheckOwner(r) \/ MarkRotated(r) \/ CommitExchange(r)
  \/ FindLineage(r) \/ RevokeRow(r) \/ ListByLineage(r) \/ CommitRevocation(r)
  \/ DenylistNext(r) \/ DenylistEnd(r)

Next ==
  /\ \/ \E o \in Owner, c \in Cred : Issue(o, c)
     \/ \E r \in Req, c \in Cred : Begin(r, c)
     \/ \E r \in Req : Step(r) \/ Rollback(r) \/ DeadlockVictim(r)
     \/ \E o \in Owner : SetStanding(o)
     \/ Tick
  /\ UNCHANGED engine

Spec == Init /\ [][Next]_vars

(***************************************************************************)
(* Verify: a stateless check by an instance whose clock is skew behind,    *)
(* then the denylist.                                                      *)
(***************************************************************************)
AccessTokenAccepted(c, skew) ==
  /\ status[c] # "none"
  /\ issuedAt[c] + skew <= now
  /\ now < issuedAt[c] + AccessTokenLifetime + skew
  /\ ~(now < denied[c])

(***************************************************************************)
(* Properties.                                                             *)
(***************************************************************************)
\* Two live tokens never coexist in one lineage, whatever exchanges and
\* revocations overlap (the outcome Exchange's transaction is there to avoid,
\* tokenservice.go:218-223).
OneActivePerLineage ==
  \A c, d \in Cred :
    status[c] = "active" /\ status[d] = "active" /\ lineage[c] = lineage[d] => c = d

\* A credential is consumed at most once: no two exchanges of the same token
\* both produce a successor (MarkRotated, "exactly one wins").
SingleSuccessor ==
  \A c, d \in Cred : from[c] # NoCred /\ from[c] = from[d] => c = d

\* Rotation never moves the lineage deadline: every member expires with its
\* root, however late it was minted (Exchange, "inherited verbatim").
DeadlineInherited ==
  \A c \in Cred :
    status[c] # "none" =>
      /\ status[lineage[c]] # "none"
      /\ lineage[lineage[c]] = lineage[c]
      /\ expiresAt[c] = expiresAt[lineage[c]]

\* Once a reuse has been answered, nothing in the lineage is usable, if write
\* transactions are serialized: "there is no window in which an attacker's
\* freshly minted successor survives" (RevokeLineage of storage/sqlite).
RevokedIsDeadOnSqlite ==
  Serialized => \A c \in Cred : status[c] = "active" => lineage[c] \notin killed

\* A credential the denylist pass has listed, or has skipped as too old, has
\* no access token that any instance accepts again, even one whose clock is
\* up to DenylistSkew behind (Denylist.RevokeLineage, "Why the filter is safe").
DenylistOutlivesTokens ==
  \A c \in dealtWith, s \in 0..DenylistSkew : ~AccessTokenAccepted(c, s)

\* Two answers to a replayed token may wait for each other's rows, and Postgres
\* then rolls one of them back (RevokeLineage, refreshcred.go:198-207).  Never a
\* rotation; and the answer is not lost: the lineage has been revoked, or another
\* request is at revoking it, unless that one fails for a reason of its own.
DeadlockLosesNoRevocation ==
  /\ \A r \in Req : Deadlocked(r) => Answering(r)
  /\ \A l \in aborted :
       l \in killed \/ \E r \in Req : Answering(r) /\ lineage[tok[r]] = l

\* The lineages implement the abstract specification: the current credential
\* of a lineage is its active row.
ActiveOf(l) == {c \in Cred : status[c] = "active" /\ lineage[c] = l}
CurrentOf == [l \in Cred |-> IF ActiveOf(l) = {} THEN NoCred ELSE CHOOSE c \in ActiveOf(l) : TRUE]

L == INSTANCE Lineage WITH current <- CurrentOf, minted <- {c \in Cred : status[c] # "none"}

\* Committed exchanges and revocations are rotations and kills of the abstract
\* lineage: no step revives a lineage that has lost its current credential.
ImplementsLineage == L!Spec

================================================================================
