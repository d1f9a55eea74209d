-------------------------------- MODULE KeySets --------------------------------
(***************************************************************************)
(* The key sets of one owner: keyset.Service over the key_sets table.      *)
(* Each operation is a transaction of several statements followed by an    *)
(* audit record.  On SQLite a transaction holds the database; on Postgres  *)
(* (READ COMMITTED) its statements read what is committed at that moment,  *)
(* its own writes are invisible to others until it commits, and a row or   *)
(* index entry that another transaction has written makes it wait.         *)
(***************************************************************************)
EXTENDS Integers, FiniteSets

CONSTANTS
  Req,           \* requests of the owner
  Name,          \* names a set may have, positive numbers
  None,
  Serialized,    \* TRUE: SQLite, one write transaction at a time
  MaxSets,       \* the limit on sets of an owner
  QuarantineWindow,
  MaxOps, MaxId, MaxTime,
  Ops            \* the operations requests ask for

ASSUME KeySetsAssumptions ==
  /\ Serialized \in BOOLEAN
  /\ {MaxSets, QuarantineWindow} \subseteq Nat \ {0}
  /\ {MaxOps, MaxId, MaxTime} \subseteq Nat /\ MaxId >= 2
  /\ {1, 2} \subseteq Name
  /\ None \notin Req
  /\ Ops \subseteq {"create", "rename", "delete", "default", "visibility", "mint"}

VARIABLES
  sets,        \* committed rows of key_sets: a function from ids
  keyed,       \* ids of sets that an access key has been minted for
  owner,       \* the holder of the lock on the owner's row
  now,
  nextId, ops,
  pc,          \* the statement each request is at
  op,          \* what it asks for
  old,         \* its copy of the row it read
  new,         \* the id it generated
  pend,        \* its uncommitted writes: a function from ids
  snap,        \* rows the UPDATE it is in has selected
  wanted       \* history: the visibility the owner last chose, for each set

txs == <<pc, op, old, new, pend, snap>>
vars == <<sets, keyed, owner, now, nextId, ops, txs, wanted>>

Visibility == {"public", "protected"}
Gone == [state |-> "gone"]
Empty == [i \in {} |-> Gone]

\* A new row.  root is the first row of the set it continues, keys tells
\* whether the set has members.
Row(n, v, d, r, k) ==
  [name |-> n, vis |-> v, def |-> d, state |-> "active", until |-> 0, root |-> r, keys |-> k]

\* The row with its is_default column set to d.
Flagged(row, d) == [row EXCEPT !.def = d]

\* The rows of f, and those of g where f has none.
Overlay(f, g) == [i \in DOMAIN f \cup DOMAIN g |-> IF i \in DOMAIN f THEN f[i] ELSE g[i]]

\* What request p sees: the committed rows, and what it wrote itself.
Seen(p) ==
  LET all == Overlay(pend[p], sets)
  IN  [i \in {j \in DOMAIN all : all[j].state # "gone"} |-> all[i]]

Locked(p, i) == \E q \in Req \ {p} : i \in DOMAIN pend[q]

Idle(p) == pc[p] = "idle"

At(p, here) == pc[p] = here /\ UNCHANGED <<keyed, now, nextId, ops, wanted>>

Goto(p, there) == pc' = [pc EXCEPT ![p] = there]

Write(p, i, row) == pend' = [pend EXCEPT ![p] = Overlay([j \in {i} |-> row], @)]

\* The operation returns to its caller; its local variables are dead.
Return(p) ==
  /\ Goto(p, "idle")
  /\ op' = [op EXCEPT ![p] = None]
  /\ old' = [old EXCEPT ![p] = Gone]
  /\ new' = [new EXCEPT ![p] = 0]
  /\ snap' = [snap EXCEPT ![p] = {}]

\* The transaction ends without effect and the caller gets an error.
Refused(p) ==
  /\ Return(p)
  /\ pend' = [pend EXCEPT ![p] = Empty]
  /\ owner' = IF owner = p THEN None ELSE owner
  /\ UNCHANGED sets

--------------------------------------------------------------------------------
\* A request arrives.  Transactions of SQLite begin when no other is open.
Ask(p, kind, id, arg) ==
  /\ Idle(p)
  /\ ops < MaxOps
  /\ Serialized => \A q \in Req : Idle(q) \/ pc[q] = "emit"
  /\ ops' = ops + 1
  /\ op' = [op EXCEPT ![p] = [kind |-> kind, id |-> id, arg |-> arg, at |-> now]]
  /\ Goto(p, IF kind = "create" THEN "lock" ELSE "get")
  /\ UNCHANGED <<sets, keyed, owner, now, nextId, old, new, pend, snap, wanted>>

Create(p) == "create" \in Ops /\ \E n \in Name : Ask(p, "create", 0, n)
Rename(p) == "rename" \in Ops /\ \E i \in 1 .. nextId - 1, n \in Name : Ask(p, "rename", i, n)
Delete(p) == "delete" \in Ops /\ \E i \in 1 .. nextId - 1, confirm \in BOOLEAN : Ask(p, "delete", i, confirm)
SetDefault(p) == "default" \in Ops /\ \E i \in 1 .. nextId - 1 : Ask(p, "default", i, None)
SetVisibility(p) == "visibility" \in Ops /\ \E i \in 1 .. nextId - 1, v \in Visibility : Ask(p, "visibility", i, v)

AfterGet == [rename |-> "lock", delete |-> "members", default |-> "select", visibility |-> "update"]

Get_AnyState(p) ==
  /\ At(p, "get")
  /\ IF op[p].id \in DOMAIN Seen(p)
     THEN /\ old' = [old EXCEPT ![p] = Seen(p)[op[p].id]]
          /\ Goto(p, AfterGet[op[p].kind])
          /\ UNCHANGED <<sets, owner, op, new, pend, snap>>
     ELSE Refused(p)

\* live(KeySets.Get(...)): the row as committed, if it is active.
Get(p) ==
  /\ At(p, "get")
  /\ IF op[p].id \in DOMAIN Seen(p) /\ Seen(p)[op[p].id].state = "active"
     THEN /\ old' = [old EXCEPT ![p] = Seen(p)[op[p].id]]
          /\ Goto(p, AfterGet[op[p].kind])
          /\ UNCHANGED <<sets, owner, op, new, pend, snap>>
     ELSE Refused(p)

\* LockOwnerForCreate: a row lock on the owner, held until the transaction ends.
LockOwner(p) ==
  /\ At(p, "lock")
  /\ owner \in {p, None}
  /\ owner' = p
  /\ Goto(p, "count")
  /\ UNCHANGED <<sets, op, old, new, pend, snap>>

\* CountByOwner counts every row, quarantined ones too.
Count(p) ==
  /\ At(p, "count")
  /\ IF Cardinality(DOMAIN Seen(p)) >= MaxSets
     THEN Refused(p)
     ELSE /\ Goto(p, "insert")
          /\ UNCHANGED <<sets, owner, op, old, new, pend, snap>>

\* Rename carries the visibility of the row it read.
CarriedVisibility(p) == old[p].vis

\* KeySets.Create under a new id; the name index refuses a name in the table.
Insert(p) ==
  /\ pc[p] = "insert"
  /\ nextId <= MaxId
  /\ IF \E i \in DOMAIN Seen(p) : Seen(p)[i].name = op[p].arg
     THEN /\ Refused(p)
          /\ UNCHANGED nextId
     ELSE /\ ~\E q \in Req \ {p} : \E i \in DOMAIN pend[q] :
               pend[q][i].state # "gone" /\ pend[q][i].name = op[p].arg
          /\ new' = [new EXCEPT ![p] = nextId]
          /\ nextId' = nextId + 1
          /\ IF op[p].kind = "create"
             THEN Write(p, nextId, Row(op[p].arg, "protected", FALSE, nextId, FALSE)) /\ Goto(p, "commit")
             ELSE Write(p, nextId, Row(op[p].arg, CarriedVisibility(p), FALSE, old[p].root, FALSE)) /\ Goto(p, "copy")
          /\ UNCHANGED <<sets, owner, op, old, snap>>
  /\ UNCHANGED <<keyed, now, ops, wanted>>

\* ListMembers of the old row, AddMember of each to the new one.
CopyMembers(p) ==
  /\ At(p, "copy")
  /\ Write(p, new[p], [pend[p][new[p]] EXCEPT !.keys = op[p].id \in DOMAIN Seen(p) /\ Seen(p)[op[p].id].keys])
  /\ Goto(p, "update")
  /\ UNCHANGED <<sets, owner, op, old, new, snap>>

\* KeySets.Update writes the visibility, the state and the deadline of the copy
\* the request holds; the row may have changed since, or be gone.
Updated(p) ==
  IF op[p].kind = "rename"
  THEN [old[p] EXCEPT !.state = "quarantined", !.until = op[p].at + QuarantineWindow]
  ELSE [old[p] EXCEPT !.vis = op[p].arg]

Update(p) ==
  /\ At(p, "update")
  /\ ~Locked(p, op[p].id)
  /\ IF op[p].id \in DOMAIN Seen(p)
     THEN /\ Write(p, op[p].id, Flagged(Updated(p), Seen(p)[op[p].id].def))
          /\ Goto(p, IF op[p].kind = "rename" /\ old[p].def THEN "select" ELSE "commit")
          /\ UNCHANGED <<sets, owner, op, old, new, snap>>
     ELSE Refused(p)

\* SetDefault, first statement: the defaults the UPDATE selects, and then, once
\* no other transaction has them, those that still are.
Select(p) ==
  /\ At(p, "select")
  /\ snap' = [snap EXCEPT ![p] = {i \in DOMAIN Seen(p) : Seen(p)[i].def}]
  /\ Goto(p, "clear")
  /\ UNCHANGED <<sets, owner, op, old, new, pend>>

Clear(p) ==
  /\ At(p, "clear")
  /\ \A i \in snap[p] : ~Locked(p, i)
  /\ LET still == {i \in snap[p] \cap DOMAIN Seen(p) : Seen(p)[i].def}
     IN  pend' = [pend EXCEPT ![p] = Overlay([i \in still |-> Flagged(Seen(p)[i], FALSE)], @)]
  /\ Goto(p, "mark")
  /\ UNCHANGED <<sets, owner, op, old, new, snap>>

\* SetDefault, second statement.  The index on defaults refuses a second one
\* and makes it wait for one that is not committed.
Mark(p) ==
  LET i == IF op[p].kind = "rename" THEN new[p] ELSE op[p].id
  IN  /\ At(p, "mark")
      /\ ~Locked(p, i)
      /\ IF i \notin DOMAIN Seen(p)
         THEN Refused(p)
         ELSE IF \E j \in DOMAIN Seen(p) \ {i} : Seen(p)[j].def
         THEN Refused(p)
         ELSE /\ ~\E q \in Req \ {p} : \E j \in DOMAIN pend[q] : pend[q][j].state # "gone" /\ pend[q][j].def
              /\ Write(p, i, Flagged(Seen(p)[i], TRUE))
              /\ Goto(p, "commit")
              /\ UNCHANGED <<sets, owner, op, old, new, snap>>

\* Delete: a set with members needs the caller's confirmation.
Confirm(p) ==
  /\ At(p, "members")
  /\ IF op[p].id \in DOMAIN Seen(p) /\ Seen(p)[op[p].id].keys /\ ~op[p].arg
     THEN Refused(p)
     ELSE /\ Goto(p, "check")
          /\ UNCHANGED <<sets, owner, op, old, new, pend, snap>>

\* KeySets.Delete reads the flag, then deletes the members and the row.  A set
\* with access keys is refused by their foreign key.
CheckDefault(p) ==
  /\ At(p, "check")
  /\ IF op[p].id \notin DOMAIN Seen(p) THEN Refused(p)
     ELSE IF Seen(p)[op[p].id].def THEN Refused(p)
     ELSE /\ Goto(p, "remove")
          /\ UNCHANGED <<sets, owner, op, old, new, pend, snap>>

Remove(p) ==
  /\ At(p, "remove")
  /\ ~Locked(p, op[p].id)
  /\ IF op[p].id \notin DOMAIN Seen(p) THEN Refused(p)
     ELSE IF op[p].id \in keyed THEN Refused(p)
     ELSE /\ Write(p, op[p].id, Gone)
          /\ Goto(p, "commit")
          /\ UNCHANGED <<sets, owner, op, old, new, snap>>

Commit(p) ==
  /\ pc[p] = "commit"
  /\ sets' = Seen(p)
  /\ pend' = [pend EXCEPT ![p] = Empty]
  /\ owner' = IF owner = p THEN None ELSE owner
  /\ Goto(p, "emit")
  /\ wanted' = CASE op[p].kind = "visibility" -> [wanted EXCEPT ![old[p].root] = op[p].arg]
                 [] op[p].kind = "create" -> [wanted EXCEPT ![new[p]] = "protected"]
                 [] OTHER -> wanted
  /\ UNCHANGED <<keyed, now, nextId, ops, op, old, new, snap>>

\* The audit record is written after the transaction, and may fail.
Emit(p) ==
  /\ At(p, "emit")
  /\ Return(p)
  /\ UNCHANGED <<sets, owner, pend>>

\* The connection or the process is lost before the commit.
Abort(p) ==
  /\ At(p, pc[p])
  /\ pc[p] \notin {"idle", "emit"}
  /\ Refused(p)

\* accesskey.Mint, for an active set.
MintAccessKey(i) ==
  /\ "mint" \in Ops
  /\ i \in DOMAIN sets \ keyed
  /\ sets[i].state = "active"
  /\ \A p \in Req : i \notin DOMAIN pend[p]
  /\ keyed' = keyed \cup {i}
  /\ UNCHANGED <<sets, owner, now, nextId, ops, txs, wanted>>

Tick ==
  /\ now < MaxTime
  /\ now' = now + 1
  /\ UNCHANGED <<sets, keyed, owner, nextId, ops, txs, wanted>>

--------------------------------------------------------------------------------
\* An owner with the default set that ProvisionOwner made and another.
Init ==
  /\ sets \in {[i \in {1, 2} |-> Row(i, v[i], i = 1, i, TRUE)] : v \in [{1, 2} -> Visibility]}
  /\ keyed = {}
  /\ owner = None
  /\ now = 0
  /\ nextId = 3
  /\ ops = 0
  /\ pc = [p \in Req |-> "idle"]
  /\ op = [p \in Req |-> None]
  /\ old = [p \in Req |-> Gone]
  /\ new = [p \in Req |-> 0]
  /\ pend = [p \in Req |-> Empty]
  /\ snap = [p \in Req |-> {}]
  /\ wanted = [i \in 1 .. MaxId |-> IF i \in DOMAIN sets THEN sets[i].vis ELSE "protected"]

Request(p) == Create(p) \/ Rename(p) \/ Delete(p) \/ SetDefault(p) \/ SetVisibility(p)

Step(p) ==
  \/ Get(p) \/ LockOwner(p) \/ Count(p) \/ Insert(p) \/ CopyMembers(p) \/ Update(p)
  \/ Select(p) \/ Clear(p) \/ Mark(p) \/ Confirm(p) \/ CheckDefault(p) \/ Remove(p)
  \/ Commit(p) \/ Emit(p)

Next ==
  \/ \E p \in Req : Request(p) \/ Step(p) \/ Abort(p)
  \/ \E i \in DOMAIN sets : MintAccessKey(i)
  \/ Tick

Spec == Init /\ [][Next]_vars

--------------------------------------------------------------------------------
\* Rows are well formed, the unique index on names holds, and a request knows
\* what it is doing.
TypeOK ==
  /\ DOMAIN sets \subseteq 1 .. MaxId
  /\ \A i \in DOMAIN sets :
       /\ sets[i] \in [name : Name, vis : Visibility, def : BOOLEAN,
                       state : {"active", "quarantined"}, until : Nat, root : 1 .. MaxId, keys : BOOLEAN]
       /\ \A j \in DOMAIN sets : sets[i].name = sets[j].name => i = j
  /\ owner \in Req \cup {None}
  /\ \A p \in Req :
       /\ pc[p] \in {"idle", "get", "lock", "count", "insert", "copy", "update", "select", "clear",
                     "mark", "members", "check", "remove", "commit", "emit"}
       /\ pc[p] \in {"idle", "emit"} => DOMAIN pend[p] = {} /\ owner # p

\* What a reader of the owner's handle relies on after any sequence of operations
\* that fail or abort at any statement: on SQLite, where they run one after the
\* other; on Postgres, whatever Create, Rename, Delete and Mint do at the same
\* time, but without SetDefault and SetVisibility, which break it there (see
\* TombstonesStayDown):
\*   - a bare handle resolves: there is one default set, and it is active;
\*   - the keys of a set go with it when it is renamed: the sets the owner
\*     started with had members, and no active row of them is empty;
\*   - a rename carries the owner's decision on who may read the set over: no
\*     active row is more widely visible than the owner last asked.
SetsAreIntact ==
  /\ \E i \in DOMAIN sets : sets[i].def /\ sets[i].state = "active"
  /\ \A i, j \in DOMAIN sets : sets[i].def /\ sets[j].def => i = j
  /\ \A i \in DOMAIN sets :
       sets[i].state = "active" =>
         /\ sets[i].root \in {1, 2} => sets[i].keys
         /\ sets[i].vis = "public" => wanted[sets[i].root] = "public"

\* A name that a rename has given up is only reserved (live): it is not the
\* default, and it publishes no more beside the set's new name, because SetDefault
\* and SetVisibility read the row in the transaction that writes it.
TombstonesStayDown ==
  \A i \in DOMAIN sets :
    /\ sets[i].def => sets[i].state = "active"
    /\ \A j \in DOMAIN sets :
         sets[i].root = sets[j].root /\ sets[i].state = "active" /\ sets[j].state = "active" => i = j
================================================================================
