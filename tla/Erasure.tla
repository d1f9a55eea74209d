-------------------------------- MODULE Erasure --------------------------------
(***************************************************************************)
(* Crypto-erasure of one owner from the audit log (internal/erasure).      *)
(* An erasure collects the identifiers of the owner's rows table by table, *)
(* records itself, takes the owner's salt, scrubs the details of the       *)
(* records that name the owner, replaces each identifier by its tombstone  *)
(* and destroys the salt.  Every step is a statement or a transaction of   *)
(* its own: several erasures of one owner interleave, each can fail or     *)
(* crash at any step and be run again, and the services keep writing rows  *)
(* and records meanwhile.                                                  *)
(***************************************************************************)
EXTENDS Naturals, Sequences, FiniteSets

CONSTANTS
  Eraser,       \* callers of OwnerEraser.EraseOwner, all for the same owner
  OwnerId,      \* the identifier of the owner being erased
  Tables,       \* a sequence: the identifier a row of each table would have
  Admin,        \* another principal, the actor of some records
  Label,        \* an identifying detail: a handle or device name
  None,         \* the empty identifier: the system actor, no detail
  Deletable,    \* rows whose table has a delete (handles, key sets)
  MaxRuns, MaxFails, MaxAppends

RowId == {Tables[i] : i \in DOMAIN Tables}
GraphId == {OwnerId} \cup RowId
Identifier == GraphId \cup {Admin, Label, None}

ASSUME ErasureAssumptions ==
  /\ Tables \in Seq(RowId) /\ Tables # <<>>
  /\ {OwnerId, Admin, Label, None} \cap RowId = {}
  /\ Cardinality({OwnerId, Admin, Label, None}) = 4
  /\ Deletable \subseteq RowId
  /\ {MaxRuns, MaxFails, MaxAppends} \subseteq Nat

VARIABLES
  engine,      \* the storage engine of the deployment
  rows,        \* the owner's rows
  log,         \* audit_records, oldest first
  salt,        \* the owner's row in owner_erasure_salts: a salt, or 0
  minted,      \* the number of salts ever generated
  pc,          \* where each erasure is
  ids,         \* what it collected
  next,        \* the next table to read, or identifier to rewrite
  key,         \* its copy of the salt
  found,       \* the records whose details it is about to scrub
  since,       \* history: the length of the log when it started
  own,         \* history: the position of its own record
  released,    \* history: the rows deleted
  late,        \* history: records of the services written while an erasure was
               \* past its reading of the records and not through with them
  runs, fails, appends

store == <<rows, log, salt, minted>>
locals == <<ids, next, key, found, since, own>>
ghost == <<released, late>>
budget == <<runs, fails, appends>>
vars == <<engine, store, pc, locals, ghost, budget>>

Serialized == engine = "sqlite"

(***************************************************************************)
(* A value of a record is an identifier in the clear (salt 0) or its       *)
(* tombstone under a salt.  HMAC is injective for our purposes.            *)
(***************************************************************************)
Plain(id) == [id |-> id, salt |-> 0]
Tombstone(s, id) == [id |-> id, salt |-> s]
IsTombstone(v) == v.salt # 0

Record(actor, target, detail) ==
  [actor |-> Plain(actor), target |-> Plain(target), detail |-> Plain(detail)]

Value == [id : Identifier, salt : Nat]

Idle(p) == pc[p] \in {"idle", "done", "failed"}

Go(p, from, to) ==
  /\ pc[p] = from
  /\ pc' = [pc EXCEPT ![p] = to]

--------------------------------------------------------------------------------
(* The services: rows and records of the owner while nobody is watching. *)

\* A record of a service, with the row's name.
Audit(r) ==
  /\ appends < MaxAppends
  /\ log' = Append(log, Record(OwnerId, r, Label))
  /\ late' = IF \E p \in Eraser : pc[p] \in {"scrub", "pseudonymize"}
             THEN late \cup {Len(log) + 1} ELSE late
  /\ appends' = appends + 1

\* A service inserts a row under a fresh identifier; its record comes later.
CreateRow(r) ==
  /\ r \notin rows
  /\ \A i \in DOMAIN log : log[i].target.id # r
  /\ rows' = rows \cup {r}
  /\ UNCHANGED <<log, salt, minted, pc, locals, ghost, budget>>

\* A service records a change it made to a row of the owner.
Emit(r) ==
  /\ r \in rows
  /\ Audit(r)
  /\ UNCHANGED <<rows, salt, minted, pc, locals, released, runs, fails>>

\* The release of a handle deletes its row and records it in one transaction.
DeleteRow(r) ==
  /\ r \in rows \cap Deletable
  /\ rows' = rows \ {r}
  /\ released' = released \cup {r}
  /\ Audit(r)
  /\ UNCHANGED <<salt, minted, pc, locals, runs, fails>>

--------------------------------------------------------------------------------
(* OwnerEraser.EraseOwner. *)

Begin(p) ==
  /\ Idle(p)
  /\ pc[p] # "failed" => runs < MaxRuns
  /\ runs' = IF pc[p] = "failed" THEN runs ELSE runs + 1
  /\ pc' = [pc EXCEPT ![p] = "collect"]
  /\ ids' = [ids EXCEPT ![p] = <<OwnerId>>]
  /\ next' = [next EXCEPT ![p] = 1]
  /\ key' = [key EXCEPT ![p] = 0]
  /\ found' = [found EXCEPT ![p] = {}]
  /\ since' = [since EXCEPT ![p] = Len(log)]
  /\ own' = [own EXCEPT ![p] = 0]
  /\ UNCHANGED <<store, ghost, fails, appends>>

Collect_SkipsLast(p) ==
  /\ pc[p] = "collect"
  /\ ids' = [ids EXCEPT ![p] = IF Tables[next[p]] \in rows /\ next[p] < Len(Tables) THEN Append(@, Tables[next[p]]) ELSE @]
  /\ next' = [next EXCEPT ![p] = IF @ = Len(Tables) THEN 1 ELSE @ + 1]
  /\ pc' = IF next[p] = Len(Tables) THEN [pc EXCEPT ![p] = "record"] ELSE pc
  /\ UNCHANGED <<store, key, found, since, own, ghost, budget>>

\* Graph.Collect reads one table after the other.
Collect(p) ==
  /\ pc[p] = "collect"
  /\ ids' = [ids EXCEPT ![p] = IF Tables[next[p]] \in rows THEN Append(@, Tables[next[p]]) ELSE @]
  /\ next' = [next EXCEPT ![p] = IF @ = Len(Tables) THEN 1 ELSE @ + 1]
  /\ pc' = IF next[p] = Len(Tables) THEN [pc EXCEPT ![p] = "record"] ELSE pc
  /\ UNCHANGED <<store, key, found, since, own, ghost, budget>>

\* The record of the erasure names the owner; the pass below rewrites it.
RecordErasure(p) ==
  /\ Go(p, "record", "ensure")
  /\ log' = Append(log, Record(None, OwnerId, None))
  /\ own' = [own EXCEPT ![p] = Len(log')]
  /\ UNCHANGED <<rows, salt, minted, ids, next, key, found, since, ghost, budget>>

\* ensureOwnerSalt: the salt that is there, or else a fresh one.
EnsureRead(p) ==
  /\ pc[p] = "ensure"
  /\ IF salt # 0
     THEN /\ pc' = [pc EXCEPT ![p] = "read"]
          /\ key' = [key EXCEPT ![p] = salt]
          /\ UNCHANGED <<salt, minted>>
     ELSE IF Serialized
     THEN /\ pc' = [pc EXCEPT ![p] = "read"]
          /\ minted' = minted + 1
          /\ salt' = minted'
          /\ key' = [key EXCEPT ![p] = minted']
     ELSE /\ pc' = [pc EXCEPT ![p] = "insert"]
          /\ UNCHANGED <<salt, minted, key>>
  /\ UNCHANGED <<rows, log, ids, next, found, since, own, ghost, budget>>

\* INSERT ... ON CONFLICT DO NOTHING; on a conflict the winner's is re-read.
EnsureInsert(p) ==
  /\ pc[p] = "insert"
  /\ minted' = minted + 1
  /\ IF salt = 0
     THEN /\ pc' = [pc EXCEPT ![p] = "read"]
          /\ salt' = minted'
          /\ key' = [key EXCEPT ![p] = minted']
     ELSE /\ pc' = [pc EXCEPT ![p] = "reread"]
          /\ UNCHANGED <<salt, key>>
  /\ UNCHANGED <<rows, log, ids, next, found, since, own, ghost, budget>>

\* The re-read finds nothing when the winner has finished and destroyed it.
EnsureReread(p) ==
  /\ pc[p] = "reread"
  /\ pc' = [pc EXCEPT ![p] = IF salt # 0 THEN "read" ELSE "failed"]
  /\ key' = [key EXCEPT ![p] = salt]
  /\ UNCHANGED <<store, ids, next, found, since, own, ghost, budget>>

Collected(p) == {ids[p][i] : i \in DOMAIN ids[p]}

Names(rec, S) ==
  \E v \in {rec.actor, rec.target} : ~IsTombstone(v) /\ v.id \in S

RecordsForErasure_ActorOnly(p) ==
  /\ Go(p, "read", "scrub")
  /\ found' = [found EXCEPT ![p] =
       {i \in DOMAIN log : /\ log[i].actor \in {Plain(id) : id \in Collected(p)}
                           /\ log[i].detail.id # None
                           /\ ~IsTombstone(log[i].detail)}]
  /\ UNCHANGED <<store, ids, next, key, since, own, ghost, budget>>

\* scrubMetadata: RecordsForErasure, and which of them scrubDetails changes.
RecordsForErasure(p) ==
  /\ Go(p, "read", "scrub")
  /\ found' = [found EXCEPT ![p] =
       {i \in DOMAIN log : /\ Names(log[i], Collected(p))
                           /\ log[i].detail.id # None
                           /\ ~IsTombstone(log[i].detail)}]
  /\ UNCHANGED <<store, ids, next, key, since, own, ghost, budget>>

\* ScrubMetadata sets the metadata column of those records and nothing else.
ScrubMetadata(p) ==
  /\ Go(p, "scrub", "pseudonymize")
  /\ log' = [i \in DOMAIN log |->
       IF i \in found[p]
       THEN [log[i] EXCEPT !.detail = Tombstone(key[p], @.id)]
       ELSE log[i]]
  /\ UNCHANGED <<rows, salt, minted, locals, ghost, budget>>

\* pseudonymizeBatch: one CASE for each of the two columns.
Pseudonymized(v, id, s) == IF v = Plain(id) THEN Tombstone(s, id) ELSE v

Pseudonymize(p) ==
  /\ pc[p] = "pseudonymize"
  /\ LET id == ids[p][next[p]]
     IN  log' = [i \in DOMAIN log |->
           [log[i] EXCEPT !.actor = Pseudonymized(@, id, key[p]),
                          !.target = Pseudonymized(@, id, key[p])]]
  /\ next' = [next EXCEPT ![p] = @ + 1]
  /\ pc' = IF next[p] = Len(ids[p]) THEN [pc EXCEPT ![p] = "destroy"] ELSE pc
  /\ UNCHANGED <<rows, salt, minted, ids, key, found, since, own, ghost, budget>>

\* Destroy deletes the salt whoever minted it; there may be none.
Destroy(p) ==
  /\ Go(p, "destroy", "done")
  /\ salt' = 0
  /\ UNCHANGED <<rows, log, minted, locals, ghost, budget>>

\* Any step can return an error, and the process can stop at any of them.
Fail(p) ==
  /\ ~Idle(p)
  /\ fails < MaxFails
  /\ pc' = [pc EXCEPT ![p] = "failed"]
  /\ fails' = fails + 1
  /\ UNCHANGED <<store, locals, ghost, runs, appends>>

--------------------------------------------------------------------------------
\* ProvisionOwner created the owner and the rows; an administrator did it.
Init ==
  /\ engine \in {"sqlite", "postgres"}
  /\ rows \in {RowId, RowId \ {Tables[Len(Tables)]}}
  /\ log = <<Record(Admin, OwnerId, Label)>>
  /\ salt = 0
  /\ minted = 0
  /\ pc = [p \in Eraser |-> "idle"]
  /\ ids = [p \in Eraser |-> <<>>]
  /\ next = [p \in Eraser |-> 1]
  /\ key = [p \in Eraser |-> 0]
  /\ found = [p \in Eraser |-> {}]
  /\ since = [p \in Eraser |-> 0]
  /\ own = [p \in Eraser |-> 0]
  /\ released = {}
  /\ late = {}
  /\ runs = 0
  /\ fails = 0
  /\ appends = 0

EraseOwner(p) ==
  \/ Collect(p)
  \/ RecordErasure(p)
  \/ EnsureRead(p)
  \/ EnsureInsert(p)
  \/ EnsureReread(p)
  \/ RecordsForErasure(p)
  \/ ScrubMetadata(p)
  \/ Pseudonymize(p)
  \/ Destroy(p)

Services == \E r \in RowId : CreateRow(r) \/ Emit(r) \/ DeleteRow(r)

Next ==
  /\ \/ Services
     \/ \E p \in Eraser : Begin(p) \/ EraseOwner(p) \/ Fail(p)
  /\ UNCHANGED engine

Spec == Init /\ [][Next]_vars

--------------------------------------------------------------------------------
\* Every record is made of values, and every erasure works on positions and
\* identifiers that exist, with a salt in hand from the scrub on.
TypeOK ==
  /\ rows \subseteq RowId
  /\ \A i \in DOMAIN log : log[i] \in [actor : Value, target : Value, detail : Value]
  /\ salt \in 0 .. minted
  /\ \A p \in Eraser :
       /\ pc[p] \in {"idle", "collect", "record", "ensure", "insert", "reread", "read",
                     "scrub", "pseudonymize", "destroy", "done", "failed"}
       /\ Collected(p) \subseteq GraphId
       /\ found[p] \subseteq DOMAIN log
       /\ since[p] <= Len(log)
       /\ own[p] <= Len(log)
       /\ pc[p] = "collect" => next[p] \in DOMAIN Tables
       /\ pc[p] = "pseudonymize" => next[p] \in DOMAIN ids[p]
       /\ pc[p] \in {"read", "scrub", "pseudonymize", "destroy"} => key[p] \in 1 .. minted

\* The records an erasure that returned without error answers for: those there
\* when it was called, and its own.
Answered(p) == (1 .. since[p]) \cup ({own[p]} \ {0})

\* EraseOwner: when it has returned, no record of its time names the owner or
\* one of the owner's rows, whoever else was erasing, failing or writing
\* meanwhile.  A row that was deleted is no longer there to be collected.
ColumnsErased ==
  \A p \in Eraser : pc[p] = "done" =>
    \A i \in Answered(p) : ~Names(log[i], GraphId \ released)

\* scrubMetadata runs before the column pass: a record with a tombstone for one
\* of the owner's identifiers has no detail left in the clear, unless a service
\* wrote it between the two.  Nothing would find such a record again.  The code
\* does more here than OwnerEraser's comment says, to which erasure "rewrites
\* identifier columns only" (owner.go:89-95).
NoHalfErasedRecord ==
  \A i \in DOMAIN log \ late :
    (\E v \in {log[i].actor, log[i].target} : IsTombstone(v)) =>
      (log[i].detail.id # None => IsTombstone(log[i].detail))

================================================================================
