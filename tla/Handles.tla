-------------------------------- MODULE Handles --------------------------------
(***************************************************************************)
(* Public names: the rows of the handles table, the rename and the release *)
(* sweep of internal/service/handle/handle.go, the provisioning of a first *)
(* handle, and the look-alike recompute a replica runs when it boots       *)
(* (recompute.go), over internal/storage/postgres/handle.go.               *)
(*                                                                         *)
(* A name has at most one row (ux_handles_name), so rows are kept by name. *)
(* A transaction keeps its writes in pend until it commits; writing a row, *)
(* or an index entry, that another transaction has written waits for it.   *)
(* Serialized is SQLite (BEGIN IMMEDIATE); otherwise Postgres at READ      *)
(* COMMITTED: every statement reads the rows committed when it runs.       *)
(***************************************************************************)
EXTENDS Integers, Sequences, FiniteSets

CONSTANTS
  Owner,
  Name,              \* a set of positive integers, to serve as folds as well
  Skeleton,          \* Skeleton[n]: what blocklist.Skeleton makes of n, a name again
  Req, Sweeper, Replica,
  Serialized,
  Legacies,          \* tables a boot may find: sequences of rows, oldest first
  MaxNames,          \* DefaultMaxHeldNames
  QuarantineWindow,
  MaxId, MaxTime,    \* bounds
  None

ASSUME HandlesAssumption ==
  /\ Name \subseteq Nat \ {0}
  /\ Skeleton \in [Name -> Name]
  /\ \A n \in Name : Skeleton[Skeleton[n]] = Skeleton[n]
  /\ Serialized \in BOOLEAN
  /\ MaxNames \in Nat \ {0} /\ QuarantineWindow \in Nat \ {0}
  /\ MaxId \in Nat /\ MaxTime \in Nat
  /\ \A legacy \in Legacies :
       legacy \in Seq([name : Name, owner : Owner, state : {"active", "quarantined"}])
  /\ None \notin Owner /\ None \notin Req \cup Replica
  /\ Req \cap Replica = {} /\ Sweeper \cap (Req \cup Replica) = {}

VARIABLES
  now,
  handle,       \* the committed rows
  pend,         \* the uncommitted rows of each transaction
  nextId,       \* identifiers are handed out in order, so they order by age
  pc,
  owner, name,  \* a rename's arguments
  start,        \* when a rename or a sweep began
  old, found,   \* a rename's copies of its active claim and of the row of name
  stale,        \* the rows a recompute has listed
  listed,       \* the rows a sweep has listed
  vacated,      \* history: who last vacated a name, by a rename begun when
  inherited     \* history: the owners of the table that was found

reqVars == <<owner, name, start, old, found>>
vars == <<now, handle, pend, nextId, pc, owner, name, start, old, found, stale, listed, vacated,
          inherited>>

Tx == Req \cup Replica
Id == 1 .. MaxId

NoRow == [id |-> 0, owner |-> None, state |-> "none", until |-> 0, fold |-> 0,
          current |-> TRUE, flagged |-> FALSE]

Row == [id : 0 .. MaxId, owner : Owner \cup {None}, state : {"none", "active", "quarantined"},
        until : Nat, fold : Int, current : BOOLEAN, flagged : BOOLEAN]

Copy(n, row) == [name |-> n, id |-> row.id, flagged |-> row.flagged]
NoCopy == [name |-> 0, id |-> 0, flagged |-> FALSE]

TypeOK ==
  /\ now \in 0 .. MaxTime
  /\ handle \in [Name -> Row]
  /\ \A p \in Tx : DOMAIN pend[p] \subseteq Name /\ \A n \in DOMAIN pend[p] : pend[p][n] \in Row
  /\ nextId \in 1 .. MaxId + 1
  /\ pc \in [Tx \cup Sweeper -> {"idle", "held", "quarantine", "lookup", "reclaim", "register",
                                 "commit", "reread", "write", "ready", "sweep"}]
  /\ \A r \in Req : owner[r] \in Owner \cup {None} /\ name[r] \in Name \cup {0}
  /\ start \in [Req \cup Sweeper -> 0 .. MaxTime]
  /\ listed \in [Sweeper -> SUBSET Id]
  \* the index entries: one row per fold, one active row per owner
  /\ \A m, n \in Name : m # n /\ handle[m].id # 0 /\ handle[n].id # 0 =>
       /\ handle[m].id # handle[n].id
       /\ handle[m].fold # handle[n].fold
       /\ handle[m].state = "active" /\ handle[n].state = "active" => handle[m].owner # handle[n].owner

\* A table from before the folds: each row carries its raw name as its fold.
\* A hold of that table lasts until its window is over.
Table(legacy) ==
  [n \in Name |->
     IF \E i \in DOMAIN legacy : legacy[i].name = n
     THEN LET i == CHOOSE i \in DOMAIN legacy : legacy[i].name = n
          IN [id |-> i, owner |-> legacy[i].owner, state |-> legacy[i].state,
              until |-> IF legacy[i].state = "active" THEN 0 ELSE QuarantineWindow,
              fold |-> n, current |-> FALSE, flagged |-> FALSE]
     ELSE NoRow]

Init ==
  /\ now = 0
  /\ \E legacy \in Legacies :
       /\ handle = Table(legacy)
       /\ nextId = Len(legacy) + 1
       /\ inherited = {legacy[i].owner : i \in DOMAIN legacy}
  /\ pend = [p \in Tx |-> <<>>]
  /\ pc = [p \in Tx \cup Sweeper |-> "idle"]
  /\ owner = [r \in Req |-> None]
  /\ name = [r \in Req |-> 0]
  /\ start = [r \in Req \cup Sweeper |-> 0]
  /\ old = [r \in Req |-> NoCopy]
  /\ found = [r \in Req |-> NoCopy]
  /\ stale = [p \in Replica |-> {}]
  /\ listed = [w \in Sweeper |-> {}]
  /\ vacated = [n \in Name |-> [owner |-> None, at |-> 0]]

(***************************************************************************)
(* Transactions.                                                           *)
(***************************************************************************)
Overlay(base, writes) == [n \in Name |-> IF n \in DOMAIN writes THEN writes[n] ELSE base[n]]

\* What transaction p reads; any other reader sees the committed rows.
Rows(p) == IF p \in Tx THEN Overlay(handle, pend[p]) ELSE handle

WrittenByOther(n, p) == \E q \in Tx \ {p} : n \in DOMAIN pend[q]

\* Some row but n's that satisfies P, of a transaction in flight: wait for it.
InFlight(p, n, P(_)) ==
  \E q \in Tx \ {p} : \E m \in DOMAIN pend[q] \ {n} : P(pend[q][m]) \/ P(handle[m])

Taken(p, n, P(_)) == \E m \in Name \ {n} : P(Rows(p)[m])

MayBegin == Serialized => \A q \in Tx : pc[q] \in {"idle", "reread", "ready"}

Write(p, n, row) ==
  pend' = [pend EXCEPT ![p] = [m \in DOMAIN @ \cup {n} |-> IF m = n THEN row ELSE @[m]]]

Goto(p, l) == pc' = [pc EXCEPT ![p] = l]

\* The rename is over; its transaction, if it wrote anything, is rolled back.
Abort(r) ==
  /\ pc' = [pc EXCEPT ![r] = "idle"]
  /\ pend' = [pend EXCEPT ![r] = <<>>]
  /\ owner' = [owner EXCEPT ![r] = None]
  /\ name' = [name EXCEPT ![r] = 0]
  /\ start' = [start EXCEPT ![r] = 0]
  /\ old' = [old EXCEPT ![r] = NoCopy]
  /\ found' = [found EXCEPT ![r] = NoCopy]

HeldBy(rows, o) == {n \in Name : rows[n].id # 0 /\ rows[n].owner = o}

ActiveOf(rows, o) == {n \in HeldBy(rows, o) : rows[n].state = "active"}

(***************************************************************************)
(* Provisioning (bootstrap.Seed, onboarding.ProvisionOwner): a new owner   *)
(* and their first handle, in one transaction.                             *)
(***************************************************************************)
FreshRow(o, n) ==
  [id |-> nextId, owner |-> o, state |-> "active", until |-> 0, fold |-> Skeleton[n],
   current |-> TRUE, flagged |-> FALSE]

SameFold(n, row) == row.id # 0 /\ row.fold = Skeleton[n]

ActiveRow(o, row) == row.id # 0 /\ row.owner = o /\ row.state = "active"

NoStaleFold(p) == \A n \in Name : Rows(p)[n].current

\* Register would not wait for another transaction, and would succeed.
RegisterRuns(p, o, n) ==
  /\ ~WrittenByOther(n, p)
  /\ ~InFlight(p, n, LAMBDA row : SameFold(n, row) \/ ActiveRow(o, row))

\* Mutant: no index on active rows.
RegisterSucceeds_NoActive(p, o, n) ==
  /\ NoStaleFold(p)
  /\ Rows(p)[n].id = 0
  /\ ~Taken(p, n, LAMBDA row : SameFold(n, row))

RegisterSucceeds(p, o, n) ==
  /\ NoStaleFold(p)
  /\ Rows(p)[n].id = 0
  /\ ~Taken(p, n, LAMBDA row : SameFold(n, row))
  /\ ~Taken(p, n, LAMBDA row : ActiveRow(o, row))

Provision(o, n) ==
  /\ HeldBy(handle, o) = {}
  /\ MayBegin
  /\ nextId \in Id   \* bound
  /\ RegisterRuns(None, o, n)
  /\ RegisterSucceeds(None, o, n)
  /\ handle' = [handle EXCEPT ![n] = FreshRow(o, n)]
  /\ nextId' = nextId + 1
  /\ UNCHANGED <<now, pend, pc, reqVars, stale, listed, vacated>>

(***************************************************************************)
(* Rename, one action per statement of its transaction.  The guard has     *)
(* accepted the name.                                                      *)
(***************************************************************************)
\* GetActiveByOwner.
Rename(r, o, n) ==
  /\ pc[r] = "idle"
  /\ MayBegin
  /\ now + QuarantineWindow <= MaxTime   \* bound
  /\ \E m \in ActiveOf(handle, o) \ {n} :
       old' = [old EXCEPT ![r] = Copy(m, handle[m])]
  /\ owner' = [owner EXCEPT ![r] = o]
  /\ name' = [name EXCEPT ![r] = n]
  /\ start' = [start EXCEPT ![r] = now]
  /\ Goto(r, "held")
  /\ UNCHANGED <<now, handle, pend, nextId, found, stale, listed, vacated>>

reclaims(held, n) == n \in held /\ handle[n].state = "quarantined"

\* ListByOwner and the limit on held names.
ListHeld(r) ==
  /\ pc[r] = "held"
  /\ LET held == HeldBy(handle, owner[r])
     IN \/ /\ ~reclaims(held, name[r]) /\ Cardinality(held) >= MaxNames
           /\ Abort(r)
        \/ /\ reclaims(held, name[r]) \/ Cardinality(held) < MaxNames
           /\ Goto(r, "quarantine")
           /\ UNCHANGED <<pend, reqVars>>
  /\ UNCHANGED <<now, handle, nextId, stale, listed, vacated>>

\* handleRepo.Update by id: state, deadline and flag come from the caller's copy.
Updated(copy, state, until) ==
  [handle[copy.name] EXCEPT !.state = state, !.until = until, !.flagged = copy.flagged]

Present(r, copy) == Rows(r)[copy.name].id = copy.id

\* Mutant: the hold begins with no time left to run.
QuarantineOld_NoWindow(r) ==
  /\ pc[r] = "quarantine"
  /\ ~WrittenByOther(old[r].name, r)
  /\ \/ /\ Present(r, old[r])
        /\ Write(r, old[r].name, Updated(old[r], "quarantined", start[r]))
        /\ Goto(r, "lookup")
        /\ UNCHANGED reqVars
     \/ ~Present(r, old[r]) /\ Abort(r)
  /\ UNCHANGED <<now, handle, nextId, stale, listed, vacated>>

\* Update of the old claim.
QuarantineOld(r) ==
  /\ pc[r] = "quarantine"
  /\ ~WrittenByOther(old[r].name, r)
  /\ \/ /\ Present(r, old[r])
        /\ Write(r, old[r].name, Updated(old[r], "quarantined", start[r] + QuarantineWindow))
        /\ Goto(r, "lookup")
        /\ UNCHANGED reqVars
     \/ ~Present(r, old[r]) /\ Abort(r)
  /\ UNCHANGED <<now, handle, nextId, stale, listed, vacated>>

\* claim: GetByName, and the caller's own hold is the only row to take over.
LookupName(r) ==
  /\ pc[r] = "lookup"
  /\ LET row == Rows(r)[name[r]]
         own == row.owner = owner[r] /\ row.state = "quarantined"
     IN \/ /\ row.id = 0
           /\ Goto(r, "register")
           /\ UNCHANGED <<pend, reqVars>>
        \/ /\ row.id # 0 /\ own
           /\ found' = [found EXCEPT ![r] = Copy(name[r], row)]
           /\ Goto(r, "reclaim")
           /\ UNCHANGED <<pend, owner, name, start, old>>
        \/ /\ row.id # 0 /\ ~own
           /\ Abort(r)
  /\ UNCHANGED <<now, handle, nextId, stale, listed, vacated>>

\* claim: Update of the hold.  It is an entry of the index on active rows.
Reclaim(r) ==
  /\ pc[r] = "reclaim"
  /\ ~WrittenByOther(name[r], r)
  /\ ~InFlight(r, name[r], LAMBDA row : ActiveRow(owner[r], row))
  /\ LET fits == Present(r, found[r]) /\ ~Taken(r, name[r], LAMBDA row : ActiveRow(owner[r], row))
     IN \/ /\ fits
           /\ Write(r, name[r], Updated(found[r], "active", 0))
           /\ Goto(r, "commit")
           /\ UNCHANGED reqVars
        \/ ~fits /\ Abort(r)
  /\ UNCHANGED <<now, handle, nextId, stale, listed, vacated>>

\* claim: Register of a fresh row.
Register(r) ==
  /\ pc[r] = "register"
  /\ nextId \in Id   \* bound
  /\ RegisterRuns(r, owner[r], name[r])
  /\ \/ /\ RegisterSucceeds(r, owner[r], name[r])
        /\ Write(r, name[r], FreshRow(owner[r], name[r]))
        /\ nextId' = nextId + 1
        /\ Goto(r, "commit")
        /\ UNCHANGED reqVars
     \/ /\ ~RegisterSucceeds(r, owner[r], name[r])
        /\ Abort(r)
        /\ UNCHANGED nextId
  /\ UNCHANGED <<now, handle, stale, listed, vacated>>

\* emitTx and Commit.
CommitRename(r) ==
  /\ pc[r] = "commit"
  /\ handle' = Rows(r)
  /\ vacated' = [vacated EXCEPT ![old[r].name] = [owner |-> owner[r], at |-> start[r]]]
  /\ Abort(r)
  /\ UNCHANGED <<now, nextId, stale, listed>>

\* A statement fails, the client goes away or the process dies.
FailRename(r) ==
  /\ pc[r] \notin {"idle", "held"}
  /\ Abort(r)
  /\ UNCHANGED <<now, handle, nextId, stale, listed, vacated>>

(***************************************************************************)
(* The release sweep: a list, then one transaction for each row listed.    *)
(***************************************************************************)
Expired(row, t) == row.id # 0 /\ row.state = "quarantined" /\ row.until # 0 /\ row.until <= t

ReleaseExpired(w) ==
  /\ pc[w] = "idle"
  /\ \E n \in Name : Expired(handle[n], now)
  /\ listed' = [listed EXCEPT ![w] = {handle[n].id : n \in {m \in Name : Expired(handle[m], now)}}]
  /\ start' = [start EXCEPT ![w] = now]
  /\ Goto(w, "sweep")
  /\ UNCHANGED <<now, handle, pend, nextId, owner, name, old, found, stale, vacated>>

Swept(w, i) ==
  /\ listed' = [listed EXCEPT ![w] = @ \ {i}]
  /\ IF listed[w] = {i} THEN Goto(w, "idle") ELSE UNCHANGED pc

\* Release of row i, whose DELETE looks at state and deadline again.  A row no
\* longer there, or no longer due, is passed over.
Release(w, i) ==
  /\ pc[w] = "sweep" /\ i \in listed[w]
  /\ MayBegin
  /\ \A n \in Name : handle[n].id = i => ~WrittenByOther(n, w)
  /\ handle' = [n \in Name |-> IF handle[n].id = i /\ Expired(handle[n], start[w]) THEN NoRow
                               ELSE handle[n]]
  /\ Swept(w, i)
  /\ UNCHANGED <<now, pend, nextId, reqVars, stale, vacated>>

\* Any other error ends the sweep.
StopSweep(w) ==
  /\ pc[w] = "sweep"
  /\ listed' = [listed EXCEPT ![w] = {}]
  /\ Goto(w, "idle")
  /\ UNCHANGED <<now, handle, pend, nextId, reqVars, stale, vacated>>

(***************************************************************************)
(* Recomputer.Run, at the boot of a replica.                               *)
(***************************************************************************)
StaleRows == {n \in Name : handle[n].id # 0 /\ ~handle[n].current}

\* The check outside the transaction.
Precheck(p) ==
  /\ pc[p] = "idle"
  /\ Goto(p, IF StaleRows = {} THEN "ready" ELSE "reread")
  /\ UNCHANGED <<now, handle, pend, nextId, reqVars, stale, listed, vacated>>

\* ListStaleFolds again, first statement of the transaction.
Reread(p) ==
  /\ pc[p] = "reread"
  /\ MayBegin
  /\ stale' = [stale EXCEPT ![p] = {Copy(n, handle[n]) : n \in StaleRows}]
  /\ Goto(p, IF StaleRows = {} THEN "ready" ELSE "write")
  /\ UNCHANGED <<now, handle, pend, nextId, reqVars, listed, vacated>>

\* Mutant: the newest keeps it.
Survives_Newest(p, c) == \A d \in stale[p] : Skeleton[d.name] = Skeleton[c.name] => c.id >= d.id

\* The oldest of the rows listed that share c's skeleton keeps the name.
Survives(p, c) == \A d \in stale[p] : Skeleton[d.name] = Skeleton[c.name] => c.id <= d.id

Recomputed(p, c) ==
  IF Survives(p, c)
  THEN [handle[c.name] EXCEPT !.fold = Skeleton[c.name], !.current = TRUE]
  ELSE [handle[c.name] EXCEPT !.fold = 0 - c.id, !.current = TRUE,
                              !.state = "quarantined", !.until = 0, !.flagged = TRUE]

ListedNames(p) == {c.name : c \in stale[p]}

\* Phases 0 and 1: SetFold and QuarantineLookalike, row after row.
WriteFolds(p) ==
  /\ pc[p] = "write"
  /\ \A c \in stale[p] : ~WrittenByOther(c.name, p)
  /\ \A c \in stale[p] : ~InFlight(p, c.name, LAMBDA row : SameFold(c.name, row))
  /\ LET fits == /\ \A c \in stale[p] : Present(p, c)
                 /\ \A c \in stale[p], m \in Name \ ListedNames(p) : ~SameFold(c.name, handle[m])
     IN \/ /\ fits
           /\ pend' = [pend EXCEPT ![p] = [n \in ListedNames(p) |->
                        Recomputed(p, CHOOSE c \in stale[p] : c.name = n)]]
           /\ Goto(p, "commit")
           /\ UNCHANGED stale
        \/ /\ ~fits
           /\ Goto(p, "idle")
           /\ stale' = [stale EXCEPT ![p] = {}]
           /\ UNCHANGED pend
  /\ UNCHANGED <<now, handle, nextId, reqVars, listed, vacated>>

\* Commit; the records of the rows quarantined are emitted with it.
CommitFolds(p) ==
  /\ pc[p] = "commit"
  /\ handle' = Rows(p)
  /\ pend' = [pend EXCEPT ![p] = <<>>]
  /\ stale' = [stale EXCEPT ![p] = {}]
  /\ Goto(p, "ready")
  /\ UNCHANGED <<now, nextId, reqVars, listed, vacated>>

\* The pass fails or the process dies: the replica boots again.
FailBoot(p) ==
  /\ pc[p] \in {"reread", "write", "commit"}
  /\ pend' = [pend EXCEPT ![p] = <<>>]
  /\ stale' = [stale EXCEPT ![p] = {}]
  /\ Goto(p, "idle")
  /\ UNCHANGED <<now, handle, nextId, reqVars, listed, vacated>>

Tick ==
  /\ now < MaxTime
  /\ now' = now + 1
  /\ UNCHANGED <<handle, pend, nextId, pc, reqVars, stale, listed, vacated>>

RenameStep(r) ==
  \/ ListHeld(r) \/ QuarantineOld(r) \/ LookupName(r)
  \/ Reclaim(r) \/ Register(r) \/ CommitRename(r)

SweepStep(w) == ReleaseExpired(w) \/ \E i \in Id : Release(w, i)

BootStep(p) == Precheck(p) \/ Reread(p) \/ WriteFolds(p) \/ CommitFolds(p)

Next ==
  /\ \/ \E o \in Owner, n \in Name : Provision(o, n)
     \/ \E r \in Req, o \in Owner, n \in Name : Rename(r, o, n)
     \/ \E r \in Req : RenameStep(r) \/ FailRename(r)
     \/ \E w \in Sweeper : SweepStep(w) \/ StopSweep(w)
     \/ \E p \in Replica : BootStep(p) \/ FailBoot(p)
     \/ Tick
  /\ UNCHANGED inherited

Spec == Init /\ [][Next]_vars

(***************************************************************************)
(* Properties.                                                             *)
(***************************************************************************)
\* ProvisionOwner, Rename: an owner is never without an active handle and never
\* has two, whatever renames of theirs run together or fail half-way.  The table
\* a first boot finds may hold an owner's names without an active one, or have
\* it quarantined as a look-alike.
ExactlyOneActive ==
  \A o \in Owner \ inherited : HeldBy(handle, o) # {} => \E n \in Name : ActiveOf(handle, o) = {n}

\* Rename, Release, Register: a name reaches a different owner only when the
\* window since the rename that vacated it is over.
HoldProtectsName ==
  [][\A n \in Name :
       handle'[n].id # 0 /\ vacated[n].owner \notin {None, handle'[n].owner}
         /\ handle'[n].owner # handle[n].owner
       => now >= vacated[n].at + QuarantineWindow]_vars

\* Recomputer.Run: once a replica is up, every row has its true skeleton, or is
\* held, flagged, for an older row that has it.
RecomputeSettles ==
  (\E p \in Replica : pc[p] = "ready") =>
    \A n \in Name : handle[n].id # 0 =>
      /\ handle[n].current
      /\ \/ handle[n].fold = Skeleton[n] /\ ~handle[n].flagged
         \/ /\ handle[n].state = "quarantined" /\ handle[n].until = 0 /\ handle[n].flagged
            /\ \E m \in Name : /\ SameFold(n, handle[m])
                               /\ Skeleton[m] = Skeleton[n]
                               /\ handle[m].id < handle[n].id

================================================================================
