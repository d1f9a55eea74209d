----------------------------- MODULE Handles_proofs -----------------------------
(***************************************************************************)
(* An owner has exactly one active handle, and the hold on a vacated name  *)
(* stands, for every number of owners, names, renames, sweeps and booting  *)
(* replicas, on either engine.                                             *)
(*                                                                         *)
(* The properties speak of committed rows; the invariant adds what the     *)
(* transactions in flight have written (Writes, Locks), that an id never   *)
(* changes its name or its owner (CopiesKnown, so a copy read before a     *)
(* wait is safe to write back after it), and that no two renames of an     *)
(* owner are both about to commit (OneCommit).  A step moves the rows in   *)
(* one of four ways (RowStep) and the uncommitted rows in one of two       *)
(* (PendStep); each conjunct is kept by these.                             *)
(***************************************************************************)
EXTENDS Handles, TLAPS

\* The prover of every leaf that does not name one.
USE Zenon

\* Where a rename has written its old claim, and where it is under way.
Vacating == {"lookup", "reclaim", "register", "commit"}
Renaming == {"held", "quarantine"} \cup Vacating
Booting == {"reread", "write", "commit", "ready"}

\* The types; ids are not bounded here.
HandleRow ==
  [id : Nat, owner : Owner \cup {None}, state : {"none", "active", "quarantined"},
   until : Nat, fold : Int, current : BOOLEAN, flagged : BOOLEAN]

RowCopy == [name : Name \cup {0}, id : Nat, flagged : BOOLEAN]

\* Each variable is of its type.
Shape ==
  /\ now \in Nat
  /\ handle \in [Name -> HandleRow]
  /\ DOMAIN pend = Tx
  /\ \A p \in Tx : DOMAIN pend[p] \subseteq Name /\ \A n \in DOMAIN pend[p] : pend[p][n] \in HandleRow
  /\ nextId \in Nat \ {0}
  /\ DOMAIN pc = Tx \cup Sweeper
  /\ \A r \in Req : pc[r] \in Renaming \cup {"idle"}
  /\ \A p \in Replica : pc[p] \in Booting \cup {"idle"}
  /\ start \in [Req \cup Sweeper -> Nat]
  /\ DOMAIN owner = Req /\ DOMAIN name = Req
  /\ old \in [Req -> RowCopy] /\ found \in [Req -> RowCopy]
  /\ DOMAIN stale = Replica /\ DOMAIN listed = Sweeper
  /\ vacated \in [Name -> [owner : Owner \cup {None}, at : Nat]]

\* A row has an id that was handed out and an owner; a free name has neither.  A row
\* without its skeleton comes from the table found.
RowsKnown ==
  \A n \in Name :
    /\ handle[n].id < nextId
    /\ handle[n].id # 0 => handle[n].owner \in Owner
    /\ handle[n].id = 0 => handle[n].owner = None
    /\ handle[n].id # 0 /\ ~handle[n].current => handle[n].owner \in inherited

\* Identifier i was handed out to a row of name n, and any row of n that has it
\* belongs to one of S.
Named(n, i, S) ==
  /\ n \in Name /\ i \in 1 .. nextId - 1
  /\ handle[n].id = i => handle[n].owner \in S
  /\ \A p \in Tx : n \in DOMAIN pend[p] /\ pend[p][n].id = i => pend[p][n].owner \in S

\* What transactions remember of rows they have read is still true of those rows.
CopiesKnown ==
  /\ \A r \in Req : pc[r] # "idle" =>
       /\ owner[r] \in Owner
       /\ Named(old[r].name, old[r].id, {owner[r]})
       /\ name[r] \in Name \ {old[r].name}
  /\ \A r \in Req : pc[r] = "reclaim" =>
       found[r].name = name[r] /\ Named(name[r], found[r].id, {owner[r]})
  /\ \A p \in Replica : \A c \in stale[p] : Named(c.name, c.id, inherited)

\* A row is written by one transaction at a time and keeps its id and its owner.
Locks ==
  /\ \A p, q \in Tx : p # q => DOMAIN pend[p] \cap DOMAIN pend[q] = {}
  /\ \A p \in Tx : \A n \in DOMAIN pend[p] :
       /\ pend[p][n].id \in 1 .. nextId - 1
       /\ pend[p][n].owner \in Owner
       /\ pend[p][n].current \/ pend[p][n].owner \in inherited
       /\ handle[n].id # 0 => pend[p][n].id = handle[n].id /\ pend[p][n].owner = handle[n].owner

\* What a rename has written, by the place it has reached.
WrittenSoFar(r) ==
  /\ pc[r] \notin Vacating => DOMAIN pend[r] = {}
  /\ pc[r] \in Vacating =>
       /\ DOMAIN pend[r] = {old[r].name} \cup (IF pc[r] = "commit" THEN {name[r]} ELSE {})
       /\ pend[r][old[r].name].state = "quarantined"
       /\ pend[r][old[r].name].until = start[r] + QuarantineWindow
       /\ pend[r][old[r].name].owner = owner[r]
  /\ pc[r] = "commit" =>
       pend[r][name[r]].state = "active" /\ pend[r][name[r]].owner = owner[r]

\* What the transactions in flight have written.
Writes ==
  /\ \A r \in Req : WrittenSoFar(r)
  /\ \A r \in Req : pc[r] = "commit" =>
       \A m \in Name \ {old[r].name, name[r]} : ~ActiveRow(owner[r], handle[m])
  /\ \A p \in Replica : pc[p] # "commit" => DOMAIN pend[p] = {}
  /\ \A p \in Replica, n \in Name : n \in DOMAIN pend[p] =>
       /\ pend[p][n].id = handle[n].id
       /\ pend[p][n].owner \in inherited
       /\ pend[p][n].state = "active" => handle[n].state = "active"
       /\ pend[p][n].state = "quarantined" /\ pend[p][n].until # 0 =>
            handle[n].state = "quarantined" /\ handle[n].until = pend[p][n].until

\* The index on active rows lets one rename of an owner reach its commit.
OneCommit ==
  \A q, r \in Req : q # r /\ pc[q] = "commit" /\ pc[r] = "commit" => owner[q] # owner[r]

\* A vacated name is its owner's, held for as long as the window lasts, or the
\* window is over.
HoldStands ==
  /\ \A w \in Sweeper : start[w] <= now
  /\ \A n \in Name : vacated[n].owner # None =>
       /\ handle[n].owner # vacated[n].owner => now >= vacated[n].at + QuarantineWindow
       /\ handle[n].owner = vacated[n].owner /\ handle[n].state = "quarantined" /\ handle[n].until # 0
            => handle[n].until >= vacated[n].at + QuarantineWindow

\* The property, of rows.
OneActive ==
  \A o \in Owner \ inherited :
    /\ \A m, n \in Name : ActiveRow(o, handle[m]) /\ ActiveRow(o, handle[n]) => m = n
    /\ \A n \in Name : handle[n].id # 0 /\ handle[n].owner = o => \E m \in Name : ActiveRow(o, handle[m])

\* The inductive invariant.
Inv == Shape /\ RowsKnown /\ CopiesKnown /\ Locks /\ Writes /\ OneCommit /\ HoldStands /\ OneActive

\* What the assumptions say, but for the table found.
LEMMA Assumed ==
  /\ QuarantineWindow \in Nat \ {0} /\ None \notin Owner /\ None \notin Tx
  /\ Req \cap Replica = {} /\ Sweeper \cap Tx = {} /\ 0 \notin Name
<1>1. /\ Name \subseteq Nat \ {0}
      /\ QuarantineWindow \in Nat \ {0} /\ None \notin Owner /\ None \notin Req \cup Replica
      /\ Req \cap Replica = {} /\ Sweeper \cap (Req \cup Replica) = {}
  BY HandlesAssumption, Zenon
<1> QED
  BY <1>1, Zenon DEF Tx

\* A skeleton is a fold, a number.
LEMMA SkeletonNumber == \A n \in Name : Skeleton[n] \in Int
<1> SUFFICES ASSUME NEW n \in Name PROVE Skeleton[n] \in Int
  BY Zenon
<1>1. Skeleton[n] \in Nat \ {0}
  BY HandlesAssumption, Zenon
<1> QED
  BY <1>1, SMTT(30)

\* The fields an UPDATE leaves alone.
LEMMA RowUpdated ==
  ASSUME Shape, NEW copy \in RowCopy, copy.name \in Name,
         NEW s \in {"active", "quarantined"}, NEW u \in Nat
  PROVE  LET row == Updated(copy, s, u)
         IN  /\ row \in HandleRow
             /\ row.id = handle[copy.name].id /\ row.owner = handle[copy.name].owner
             /\ row.current = handle[copy.name].current
             /\ row.state = s /\ row.until = u
<1>1. handle[copy.name] \in HandleRow /\ copy.flagged \in BOOLEAN
  BY Zenon DEF Shape, RowCopy
<1> QED
  BY <1>1, Zenon DEF Updated, HandleRow

\* What a recompute leaves of a row: it may take the name away, never give it.
LEMMA RowRecomputed ==
  ASSUME Shape, NEW p \in Replica, NEW c, c.name \in Name, c.id \in Nat
  PROVE  LET row == Recomputed(p, c)
         IN  /\ row \in HandleRow
             /\ row.id = handle[c.name].id /\ row.owner = handle[c.name].owner
             /\ row.state = "active" => handle[c.name].state = "active"
             /\ row.state = "quarantined" /\ row.until # 0 =>
                  handle[c.name].state = "quarantined" /\ handle[c.name].until = row.until
<1>1. handle[c.name] \in HandleRow /\ Skeleton[c.name] \in Int /\ 0 - c.id \in Int
  BY SkeletonNumber, SMTT(30) DEF Shape
<1>2. CASE Survives(p, c)
  BY <1>1, <1>2, Zenon DEF Recomputed, HandleRow
<1>3. CASE ~Survives(p, c)
  BY <1>1, <1>3, Zenon DEF Recomputed, HandleRow
<1> QED
  BY <1>2, <1>3, Zenon

\* The row Register inserts.
LEMMA RowFresh ==
  ASSUME Shape, NEW o \in Owner, NEW n \in Name
  PROVE  /\ FreshRow(o, n) \in HandleRow /\ FreshRow(o, n).id = nextId /\ FreshRow(o, n).owner = o
         /\ FreshRow(o, n).state = "active" /\ FreshRow(o, n).current
BY SkeletonNumber, Zenon DEF FreshRow, HandleRow, Shape

\* The row of a free name.
LEMMA RowNone == NoRow \in HandleRow /\ NoRow.id = 0 /\ NoRow.owner = None /\ NoRow.state = "none"
BY SMTT(30) DEF NoRow, HandleRow

(***************************************************************************)
(* What a step does to the rows.                                           *)
(***************************************************************************)
\* What a transaction reads.
LEMMA Reads ==
  ASSUME Shape, NEW p \in Tx, NEW n \in Name
  PROVE  Rows(p)[n] = IF n \in DOMAIN pend[p] THEN pend[p][n] ELSE handle[n]
BY Zenon DEF Rows, Overlay

\* What a write leaves of the uncommitted rows.
LEMMA Written ==
  ASSUME Shape, NEW p \in Tx, NEW n \in Name, NEW row, Write(p, n, row)
  PROVE  /\ \A q \in Tx \ {p} : pend'[q] = pend[q]
         /\ DOMAIN pend'[p] = DOMAIN pend[p] \cup {n} /\ pend'[p][n] = row
         /\ \A m \in DOMAIN pend[p] \ {n} : pend'[p][m] = pend[p][m]
BY Zenon DEF Write, Shape

\* What a rollback, or a commit, leaves of the uncommitted rows.
LEMMA Dropped ==
  ASSUME Shape, NEW p \in Tx, pend' = [pend EXCEPT ![p] = <<>>]
  PROVE  DOMAIN pend'[p] = {} /\ \A q \in Tx \ {p} : pend'[q] = pend[q]
<1>1. DOMAIN <<>> = {}
  BY SMTT(30)
<1> QED
  BY <1>1, Zenon DEF Shape

\* A transaction, and what it is doing, is left as it was.
Kept(p) ==
  /\ pc'[p] = pc[p] /\ pend'[p] = pend[p]
  /\ p \in Req => /\ owner'[p] = owner[p] /\ name'[p] = name[p] /\ start'[p] = start[p]
                  /\ old'[p] = old[p] /\ found'[p] = found[p]
  /\ p \in Replica => stale'[p] = stale[p]

\* A step of transaction p.
OwnStep(p) ==
  \/ p \in Req /\ ((\E o \in Owner, n \in Name : Rename(p, o, n)) \/ RenameStep(p) \/ FailRename(p))
  \/ p \in Replica /\ (BootStep(p) \/ FailBoot(p))

\* The end of a rename leaves the other transactions alone.
LEMMA AbortKeeps ==
  ASSUME Shape, NEW r \in Req, Abort(r), NEW p \in Tx \ {r}, UNCHANGED stale
  PROVE  Kept(p)
BY Assumed, Zenon DEF Abort, Kept, Shape, Tx

\* No transaction but those of S has written the row of n.
Free(n, S) == \A q \in Tx \ S : n \notin DOMAIN pend[q]

\* No transaction but r is about to give o an active row.
Alone(o, r) == \A q \in Tx \ {r} : \A m \in DOMAIN pend[q] : ~ActiveRow(o, pend[q][m])

\* What a statement that only writes an uncommitted row leaves alone.
Rest == <<now, handle, reqVars, stale, listed, vacated>>

\* A rename gives up and changes nothing.
Aborts(r) == Abort(r) /\ UNCHANGED <<now, handle, nextId, stale, listed, vacated>>

\* Provision inserts the first row of an owner who has none.
LEMMA Provisioned ==
  ASSUME Inv, NEW o \in Owner, NEW n \in Name, Provision(o, n)
  PROVE  /\ Free(n, {}) /\ Alone(o, None) /\ handle[n].id = 0
         /\ \A m \in Name : ~ActiveRow(o, handle[m])
         /\ handle' = [handle EXCEPT ![n] = FreshRow(o, n)] /\ nextId' = nextId + 1
         /\ UNCHANGED <<now, pend, pc, reqVars, stale, listed, vacated>>
<1>1. Tx \ {None} = Tx /\ Rows(None) = handle
  BY Assumed, Zenon DEF Rows
<1>2. Free(n, {}) /\ handle[n].id = 0
  BY <1>1, Zenon DEF Provision, RegisterRuns, RegisterSucceeds, WrittenByOther, Free
<1>3. Alone(o, None)
  BY <1>1, <1>2, Zenon DEF Provision, RegisterRuns, InFlight, Alone, Free
<1>4. \A m \in Name : ~ActiveRow(o, handle[m])
  BY <1>1, <1>2, Zenon DEF Provision, RegisterSucceeds, Taken, ActiveRow
<1> QED
  BY <1>2, <1>3, <1>4, Zenon DEF Provision

\* The identifiers given out so far start at one; zero means no row.
LEMMA CountedFromOne ==
  ASSUME NEW n \in Nat, NEW i \in 1 .. n - 1
  PROVE  i # 0
BY SMT

\* A rename that is through with its statements writes and reads two rows.
LEMMA OldWritten ==
  ASSUME Inv, NEW r \in Req, pc[r] \in Vacating \ {"commit"}
  PROVE  /\ DOMAIN pend[r] = {old[r].name} /\ name[r] \in Name /\ name[r] # old[r].name
         /\ owner[r] \in Owner /\ old[r].name \in Name
         /\ Rows(r)[name[r]] = handle[name[r]]
         /\ Rows(r)[old[r].name] = pend[r][old[r].name]
         /\ \A m \in Name \ {old[r].name} : Rows(r)[m] = handle[m]
<1>1. r \in Tx /\ pc[r] # "idle"
  BY Zenon DEF Tx, Vacating
<1>2. /\ DOMAIN pend[r] = {old[r].name} /\ name[r] \in Name \ {old[r].name} /\ owner[r] \in Owner
      /\ old[r].name \in Name
  BY <1>1, ZenonT(60) DEF Inv, Writes, WrittenSoFar, CopiesKnown, Named
<1> QED
  BY <1>1, <1>2, Reads, Zenon DEF Inv

\* Update of the old claim: the hold is written, or the claim is gone.
LEMMA Quarantines ==
  ASSUME Inv, NEW r \in Req, QuarantineOld(r)
  PROVE  /\ pc[r] = "quarantine"
         /\ \/ Aborts(r)
            \/ \E row \in HandleRow :
                 /\ handle[old[r].name].id = old[r].id /\ handle[old[r].name].owner = owner[r]
                 /\ Free(old[r].name, {r}) /\ old[r].name \in Name
                 /\ row.id = handle[old[r].name].id /\ row.owner = handle[old[r].name].owner
                 /\ row.current = handle[old[r].name].current
                 /\ row.state = "quarantined" /\ row.until = start[r] + QuarantineWindow
                 /\ Write(r, old[r].name, row) /\ pc' = [pc EXCEPT ![r] = "lookup"]
                 /\ UNCHANGED <<nextId, Rest>>
<1>0. pc[r] = "quarantine"
  BY Zenon DEF QuarantineOld
<1>1. r \in Tx /\ pc[r] # "idle" /\ pc[r] \notin Vacating
  BY <1>0, Zenon DEF Tx, Vacating
<1>2. DOMAIN pend[r] = {} /\ old[r].name \in Name /\ Named(old[r].name, old[r].id, {owner[r]})
  BY <1>1, Zenon DEF Inv, Writes, WrittenSoFar, CopiesKnown, Named
<1>3. Rows(r)[old[r].name] = handle[old[r].name]
  BY <1>1, <1>2, Reads, Zenon DEF Inv
<1>4. CASE Present(r, old[r])
  <2> DEFINE row == Updated(old[r], "quarantined", start[r] + QuarantineWindow)
  <2>1. handle[old[r].name].id = old[r].id /\ handle[old[r].name].owner = owner[r]
    BY <1>2, <1>3, <1>4, Zenon DEF Present, Named
  <2>2. old[r] \in RowCopy /\ start[r] + QuarantineWindow \in Nat
    BY Assumed, SMTT(30) DEF Inv, Shape
  <2>3. /\ row \in HandleRow /\ row.id = handle[old[r].name].id /\ row.owner = handle[old[r].name].owner
        /\ row.current = handle[old[r].name].current
        /\ row.state = "quarantined" /\ row.until = start[r] + QuarantineWindow
    BY <1>2, <2>2, RowUpdated, SMTT(30) DEF Inv
  <2>4. CASE Abort(r)
    BY <1>0, <2>4, Zenon DEF QuarantineOld, Aborts
  <2>5. CASE ~Abort(r)
    <3>1. /\ Write(r, old[r].name, row) /\ pc' = [pc EXCEPT ![r] = "lookup"] /\ UNCHANGED <<nextId, Rest>>
          /\ Free(old[r].name, {r})
      BY <2>5, Zenon DEF QuarantineOld, Goto, Rest, WrittenByOther, Free
    <3> HIDE DEF row
    <3> QED
      BY <1>0, <1>2, <2>1, <2>3, <3>1, Zenon
  <2> QED
    BY <2>4, <2>5, Zenon
<1>5. CASE ~Present(r, old[r])
  BY <1>0, <1>5, Zenon DEF QuarantineOld, Aborts
<1> QED
  BY <1>4, <1>5, Zenon

\* claim: the hold of the caller becomes active, or the rename is over.
LEMMA Reclaims ==
  ASSUME Inv, NEW r \in Req, Reclaim(r)
  PROVE  /\ pc[r] = "reclaim"
         /\ \/ Aborts(r)
            \/ \E row \in HandleRow :
                 /\ handle[name[r]].id # 0 /\ handle[name[r]].owner = owner[r]
                 /\ Free(name[r], {r}) /\ Alone(owner[r], r)
                 /\ row.id = handle[name[r]].id /\ row.owner = handle[name[r]].owner
                 /\ row.current = handle[name[r]].current
                 /\ row.state = "active"
                 /\ \A m \in Name \ {old[r].name, name[r]} : ~ActiveRow(owner[r], handle[m])
                 /\ Write(r, name[r], row) /\ pc' = [pc EXCEPT ![r] = "commit"]
                 /\ UNCHANGED <<nextId, Rest>>
<1>0. pc[r] = "reclaim"
  BY Zenon DEF Reclaim
<1>1. r \in Tx /\ pc[r] \in Vacating \ {"commit"}
  BY <1>0, Zenon DEF Tx, Vacating
<1>2. name[r] \in Name /\ found[r].name = name[r] /\ Named(name[r], found[r].id, {owner[r]})
  BY <1>0, Zenon DEF Inv, CopiesKnown, Named
<1>3. CASE Aborts(r)
  BY <1>0, <1>3, Zenon
<1>4. CASE ~Aborts(r)
  <2> DEFINE row == Updated(found[r], "active", 0)
  <2>1. /\ Present(r, found[r]) /\ ~Taken(r, name[r], LAMBDA x : ActiveRow(owner[r], x))
        /\ Write(r, name[r], row) /\ pc' = [pc EXCEPT ![r] = "commit"] /\ UNCHANGED <<nextId, Rest>>
        /\ ~WrittenByOther(name[r], r) /\ ~InFlight(r, name[r], LAMBDA x : ActiveRow(owner[r], x))
    BY <1>4, Zenon DEF Reclaim, Aborts, Goto, Rest
  <2>2. handle[name[r]].id = found[r].id /\ handle[name[r]].owner = owner[r] /\ found[r].id # 0
    <3>1. handle[name[r]].id = found[r].id /\ handle[name[r]].owner = owner[r]
      BY <1>1, <1>2, <2>1, OldWritten, ZenonT(60) DEF Present, Named
    <3>2. found[r].id \in 1 .. nextId - 1 /\ nextId \in Nat
      BY <1>2, Zenon DEF Named, Inv, Shape
    <3> QED
      BY <3>1, <3>2, CountedFromOne, Zenon
  <2>3. Free(name[r], {r}) /\ Alone(owner[r], r)
    BY <2>1, Zenon DEF WrittenByOther, Free, InFlight, Alone
  <2>4. \A m \in Name \ {old[r].name, name[r]} : ~ActiveRow(owner[r], handle[m])
    <3>1. \A m \in Name \ {name[r]} : ~ActiveRow(owner[r], Rows(r)[m])
      BY <2>1, Zenon DEF Taken
    <3>2. \A m \in Name \ {old[r].name} : Rows(r)[m] = handle[m]
      BY <1>1, OldWritten, Zenon
    <3> QED
      BY <3>1, <3>2, Zenon
  <2>5. /\ row \in HandleRow /\ row.id = handle[name[r]].id /\ row.owner = handle[name[r]].owner
        /\ row.current = handle[name[r]].current
        /\ row.state = "active"
    <3>1. found[r] \in RowCopy /\ 0 \in Nat
      BY ZenonT(30) DEF Inv, Shape
    <3> QED
      BY <1>2, <3>1, RowUpdated, SMTT(30) DEF Inv
  <2> HIDE DEF row
  <2> QED
    BY <1>0, <2>1, <2>2, <2>3, <2>4, <2>5, Zenon
<1> QED
  BY <1>3, <1>4, Zenon

\* claim: a fresh row, or the rename is over.
LEMMA Registers ==
  ASSUME Inv, NEW r \in Req, Register(r)
  PROVE  /\ pc[r] = "register"
         /\ \/ Aborts(r)
            \/ /\ handle[name[r]].id = 0 /\ Free(name[r], {r}) /\ Alone(owner[r], r)
               /\ \A m \in Name \ {old[r].name, name[r]} : ~ActiveRow(owner[r], handle[m])
               /\ Write(r, name[r], FreshRow(owner[r], name[r])) /\ pc' = [pc EXCEPT ![r] = "commit"]
               /\ nextId' = nextId + 1 /\ UNCHANGED Rest
<1>0. pc[r] = "register"
  BY Zenon DEF Register
<1>1. r \in Tx /\ pc[r] \in Vacating \ {"commit"}
  BY <1>0, Zenon DEF Tx, Vacating
<1>3. CASE Aborts(r)
  BY <1>0, <1>3, Zenon
<1>4. CASE ~Aborts(r)
  <2>1. /\ RegisterSucceeds(r, owner[r], name[r]) /\ RegisterRuns(r, owner[r], name[r])
        /\ Write(r, name[r], FreshRow(owner[r], name[r])) /\ pc' = [pc EXCEPT ![r] = "commit"]
        /\ nextId' = nextId + 1 /\ UNCHANGED Rest
    BY <1>4, Zenon DEF Register, Aborts, Goto, Rest
  <2>2. handle[name[r]].id = 0
    BY <1>1, <2>1, OldWritten, Zenon DEF RegisterSucceeds
  <2>3. Free(name[r], {r}) /\ Alone(owner[r], r)
    BY <2>1, Zenon DEF RegisterRuns, WrittenByOther, Free, InFlight, Alone
  <2>4. \A m \in Name \ {old[r].name, name[r]} : ~ActiveRow(owner[r], handle[m])
    <3>1. \A m \in Name \ {name[r]} : ~ActiveRow(owner[r], Rows(r)[m])
      BY <2>1, Zenon DEF RegisterSucceeds, Taken
    <3>2. \A m \in Name \ {old[r].name} : Rows(r)[m] = handle[m]
      BY <1>1, OldWritten, Zenon
    <3> QED
      BY <3>1, <3>2, Zenon
  <2> QED
    BY <1>0, <2>1, <2>2, <2>3, <2>4, ZenonT(30)
<1> QED
  BY <1>3, <1>4, Zenon

\* SetFold and QuarantineLookalike of the rows listed, or the pass gives up.
LEMMA WritesFolds ==
  ASSUME Inv, NEW p \in Replica, WriteFolds(p)
  PROVE  /\ pc[p] = "write" /\ UNCHANGED <<now, handle, nextId, reqVars, listed, vacated>>
         /\ \A q \in Tx \ {p} : pend'[q] = pend[q]
         /\ \/ UNCHANGED pend /\ pc' = [pc EXCEPT ![p] = "idle"] /\ stale' = [stale EXCEPT ![p] = {}]
            \/ /\ UNCHANGED stale /\ pc' = [pc EXCEPT ![p] = "commit"]
               /\ \A n \in DOMAIN pend'[p] :
                    /\ n \in Name /\ Free(n, {p}) /\ pend'[p][n] \in HandleRow
                    /\ handle[n].id # 0 /\ handle[n].owner \in inherited
                    /\ pend'[p][n].id = handle[n].id /\ pend'[p][n].owner = handle[n].owner
                    /\ pend'[p][n].state = "active" => handle[n].state = "active"
                    /\ pend'[p][n].state = "quarantined" /\ pend'[p][n].until # 0 =>
                         handle[n].state = "quarantined" /\ handle[n].until = pend'[p][n].until
<1>0. /\ pc[p] = "write" /\ UNCHANGED <<now, handle, nextId, reqVars, listed, vacated>> /\ p \in Tx
      /\ DOMAIN pend = Tx
  BY Zenon DEF WriteFolds, Tx, Inv, Shape
<1>1. CASE UNCHANGED pend /\ pc' = [pc EXCEPT ![p] = "idle"] /\ stale' = [stale EXCEPT ![p] = {}]
  BY <1>0, <1>1, Zenon
<1>2. CASE ~(UNCHANGED pend /\ pc' = [pc EXCEPT ![p] = "idle"] /\ stale' = [stale EXCEPT ![p] = {}])
  <2>1. /\ \A c \in stale[p] : Present(p, c) /\ ~WrittenByOther(c.name, p)
        /\ pend' = [pend EXCEPT ![p] = [n \in ListedNames(p) |->
                       Recomputed(p, CHOOSE c \in stale[p] : c.name = n)]]
        /\ UNCHANGED stale /\ pc' = [pc EXCEPT ![p] = "commit"]
    BY <1>2, Zenon DEF WriteFolds, Goto
  <2>2. /\ \A q \in Tx \ {p} : pend'[q] = pend[q]
        /\ pend'[p] = [n \in ListedNames(p) |-> Recomputed(p, CHOOSE c \in stale[p] : c.name = n)]
    BY <1>0, <2>1, Zenon
  <2>3. ASSUME NEW n \in DOMAIN pend'[p]
        PROVE  /\ n \in Name /\ Free(n, {p}) /\ pend'[p][n] \in HandleRow
               /\ handle[n].id # 0 /\ handle[n].owner \in inherited
               /\ pend'[p][n].id = handle[n].id /\ pend'[p][n].owner = handle[n].owner
               /\ pend'[p][n].state = "active" => handle[n].state = "active"
               /\ pend'[p][n].state = "quarantined" /\ pend'[p][n].until # 0 =>
                    handle[n].state = "quarantined" /\ handle[n].until = pend'[p][n].until
    <3> DEFINE c == CHOOSE c \in stale[p] : c.name = n
    <3>1. n \in ListedNames(p) /\ pend'[p][n] = Recomputed(p, c)
      BY <2>2, Zenon
    <3>2. c \in stale[p] /\ c.name = n
      BY <3>1, Zenon DEF ListedNames
    <3> HIDE DEF c
    <3>3. Named(n, c.id, inherited) /\ n \in Name /\ c.id \in 1 .. nextId - 1
      BY <3>2, Zenon DEF Inv, CopiesKnown, Named
    <3>4. c.id \in Nat /\ c.id # 0
      BY <3>3, SMTT(30) DEF Inv, Shape
    <3>5. Rows(p)[n] = handle[n]
      <4>1. DOMAIN pend[p] = {}
        BY <1>0, Zenon DEF Inv, Writes
      <4> QED
        BY <1>0, <3>3, <4>1, Reads, Zenon DEF Inv
    <3>6. handle[n].id = c.id /\ handle[n].owner \in inherited /\ Free(n, {p})
      BY <2>1, <3>2, <3>3, <3>5, Zenon DEF Present, Named, WrittenByOther, Free
    <3> QED
      BY <3>1, <3>2, <3>3, <3>4, <3>6, RowRecomputed, SMTT(30) DEF Inv
  <2> QED
    BY <1>0, <2>1, <2>2, <2>3, Zenon
<1> QED
  BY <1>1, <1>2, Zenon

\* A commit makes the uncommitted rows the rows.
LEMMA Commits ==
  ASSUME Shape, NEW p \in Tx,
         \/ p \in Req /\ CommitRename(p)
         \/ p \in Replica /\ CommitFolds(p)
  PROVE  /\ \A n \in DOMAIN pend[p] : handle'[n] = pend[p][n]
         /\ \A n \in Name \ DOMAIN pend[p] : handle'[n] = handle[n]
         /\ DOMAIN handle' = Name /\ DOMAIN pend' = Tx
         /\ DOMAIN pend'[p] = {} /\ \A q \in Tx \ {p} : pend'[q] = pend[q]
         /\ UNCHANGED <<now, nextId, listed>>
<1>1. handle' = Rows(p) /\ pend' = [pend EXCEPT ![p] = <<>>] /\ UNCHANGED <<now, nextId, listed>>
  BY Zenon DEF CommitRename, CommitFolds, Abort
<1>2. DOMAIN Rows(p) = Name /\ DOMAIN pend[p] \subseteq Name /\ DOMAIN pend' = Tx
  BY <1>1, Zenon DEF Rows, Overlay, Shape
<1>3. \A n \in Name : handle'[n] = IF n \in DOMAIN pend[p] THEN pend[p][n] ELSE handle[n]
  BY <1>1, Reads, Zenon
<1> QED
  BY <1>1, <1>2, <1>3, Dropped, Zenon

\* A step that leaves the rows alone and writes none.
Quiet ==
  /\ UNCHANGED <<handle, nextId>>
  /\ \A p \in Tx : pend'[p] = pend[p] \/ DOMAIN pend'[p] = {}

\* The end of a rename is quiet.
LEMMA AbortQuiet ==
  ASSUME Shape, NEW r \in Req, Abort(r), UNCHANGED <<handle, nextId>>
  PROVE  Quiet
<1>1. r \in Tx /\ pend' = [pend EXCEPT ![r] = <<>>]
  BY Zenon DEF Tx, Abort
<1> QED
  BY <1>1, Dropped, Zenon DEF Quiet

\* What the steps are that do.
LEMMA Writers ==
  ASSUME Inv, [Next]_vars
  PROVE  \/ Quiet
         \/ \E o \in Owner, n \in Name : Provision(o, n)
         \/ \E w \in Sweeper, i \in Id : Release(w, i)
         \/ \E r \in Req : CommitRename(r)
         \/ \E p \in Replica : CommitFolds(p) \/ WriteFolds(p)
         \/ \E r \in Req : (QuarantineOld(r) \/ Reclaim(r) \/ Register(r)) /\ ~Aborts(r)
<1> USE DEF Quiet
<1>0. Shape
  BY Zenon DEF Inv
<1>1. CASE UNCHANGED vars
  BY <1>1, Zenon DEF vars
<1>2. ASSUME NEW r \in Req, NEW o \in Owner, NEW n \in Name, Rename(r, o, n) PROVE Quiet
  BY <1>2, Zenon DEF Rename
<1>3. ASSUME NEW r \in Req, ListHeld(r) \/ LookupName(r) \/ FailRename(r) \/ Aborts(r) PROVE Quiet
  <2>1. CASE Abort(r)
    BY <1>0, <1>3, <2>1, AbortQuiet, Zenon DEF ListHeld, LookupName, FailRename, Aborts
  <2>2. CASE ~Abort(r)
    BY <1>3, <2>2, Zenon DEF ListHeld, LookupName, FailRename, Aborts
  <2> QED
    BY <2>1, <2>2, Zenon
<1>4. ASSUME NEW w \in Sweeper, ReleaseExpired(w) \/ StopSweep(w) PROVE Quiet
  BY <1>4, Zenon DEF ReleaseExpired, StopSweep
<1>5. ASSUME NEW p \in Replica, Precheck(p) \/ Reread(p) PROVE Quiet
  BY <1>5, Zenon DEF Precheck, Reread
<1>6. ASSUME NEW p \in Replica, FailBoot(p) PROVE Quiet
  <2>1. p \in Tx /\ pend' = [pend EXCEPT ![p] = <<>>] /\ UNCHANGED <<handle, nextId>>
    BY <1>6, Zenon DEF FailBoot, Tx
  <2> QED
    BY <1>0, <2>1, Dropped, Zenon
<1>7. CASE Tick
  BY <1>7, Zenon DEF Tick
<1> HIDE DEF Quiet
<1> QED
  BY <1>1, <1>2, <1>3, <1>4, <1>5, <1>6, <1>7, Zenon
     DEF Next, RenameStep, SweepStep, BootStep

\* The row of n stays, is inserted, is deleted or is what a transaction wrote.
RowStep(n) ==
  \/ handle'[n] = handle[n]
  \/ /\ Free(n, {}) /\ handle[n].id = 0 /\ nextId' = nextId + 1
     /\ \E o \in Owner : /\ handle'[n] = FreshRow(o, n) /\ Alone(o, None)
                         /\ \A m \in Name : ~ActiveRow(o, handle[m])
  \/ /\ Free(n, {}) /\ handle'[n] = NoRow
     /\ \E w \in Sweeper : Expired(handle[n], start[w])
  \/ \E p \in Tx : /\ n \in DOMAIN pend[p] /\ handle'[n] = pend[p][n] /\ DOMAIN pend'[p] = {}
                   /\ (p \in Req /\ CommitRename(p)) \/ (p \in Replica /\ CommitFolds(p))

\* A transaction writes a row that no other has written and keeps its id and its owner,
\* or inserts one.
NewWrite(p, n) ==
  /\ Free(n, {p}) /\ pend'[p][n] \in HandleRow
  /\ \A q \in Tx \ {p} : pend'[q] = pend[q]
  /\ pend'[p][n].current \/ pend'[p][n].owner \in inherited
  /\ \/ /\ handle[n].id # 0
        /\ pend'[p][n].id = handle[n].id /\ pend'[p][n].owner = handle[n].owner
     \/ /\ handle[n].id = 0 /\ nextId' = nextId + 1
        /\ pend'[p][n].id = nextId /\ pend'[p][n].owner \in Owner

\* An uncommitted row is the one it was or a new one; the committed row stays.
PendStep(p, n) ==
  /\ n \in Name /\ handle'[n] = handle[n]
  /\ (n \in DOMAIN pend[p] /\ pend'[p][n] = pend[p][n]) \/ NewWrite(p, n)

\* How a step moves the rows.
RowsMove ==
  /\ nextId' \in {nextId, nextId + 1}
  /\ \A n \in Name : RowStep(n)
  /\ \A p \in Tx : \A n \in DOMAIN pend'[p] : PendStep(p, n)

\* A quiet step moves them so.
LEMMA QuietMoves ==
  ASSUME Inv, Quiet
  PROVE  RowsMove
<1>1. \A p \in Tx : DOMAIN pend[p] \subseteq Name
  BY Zenon DEF Inv, Shape
<1> QED
  BY <1>1, Zenon DEF Quiet, RowsMove, RowStep, PendStep

\* So does the provisioning of an owner,
LEMMA ProvisionMoves ==
  ASSUME Inv, NEW o \in Owner, NEW n \in Name, Provision(o, n)
  PROVE  RowsMove
<1>1. /\ Free(n, {}) /\ handle[n].id = 0 /\ UNCHANGED pend
      /\ Alone(o, None) /\ \A m \in Name : ~ActiveRow(o, handle[m])
      /\ handle' = [handle EXCEPT ![n] = FreshRow(o, n)] /\ nextId' = nextId + 1
  BY Provisioned, Zenon
<1>2. /\ handle'[n] = FreshRow(o, n) /\ \A m \in Name \ {n} : handle'[m] = handle[m]
      /\ \A p \in Tx : DOMAIN pend[p] \subseteq Name
  BY <1>1, Zenon DEF Inv, Shape
<1> QED
  BY <1>1, <1>2, Zenon DEF RowsMove, RowStep, PendStep, Free

\* the DELETE of the release sweep,
LEMMA ReleaseMoves ==
  ASSUME Inv, NEW w \in Sweeper, NEW i \in Id, Release(w, i)
  PROVE  RowsMove
<1>1. /\ UNCHANGED <<pend, nextId>> /\ w \notin Tx
      /\ \A n \in Name : handle[n].id = i => ~WrittenByOther(n, w)
      /\ \A n \in Name : handle'[n] = IF handle[n].id = i /\ Expired(handle[n], start[w]) THEN NoRow
                                      ELSE handle[n]
      /\ \A p \in Tx : DOMAIN pend[p] \subseteq Name
  BY Assumed, Zenon DEF Release, Inv, Shape
<1>2. \A n \in Name : handle[n].id = i => Free(n, {})
  BY <1>1, Zenon DEF WrittenByOther, Free
<1> QED
  BY <1>1, <1>2, Zenon DEF RowsMove, RowStep, PendStep, Free

\* a commit,
LEMMA CommitMoves ==
  ASSUME Inv, NEW p \in Tx,
         \/ p \in Req /\ CommitRename(p)
         \/ p \in Replica /\ CommitFolds(p)
  PROVE  RowsMove
<1>1. /\ \A n \in DOMAIN pend[p] : handle'[n] = pend[p][n]
      /\ \A n \in Name \ DOMAIN pend[p] : handle'[n] = handle[n]
      /\ DOMAIN pend'[p] = {} /\ \A q \in Tx \ {p} : pend'[q] = pend[q]
      /\ nextId' = nextId
  BY Commits, Zenon DEF Inv
<1>2. \A q \in Tx \ {p} : \A n \in DOMAIN pend[q] : n \in Name /\ n \notin DOMAIN pend[p]
  BY Zenon DEF Inv, Shape, Locks
<1> QED
  BY <1>1, <1>2, Zenon DEF RowsMove, RowStep, PendStep

\* and the writes of a recompute.
LEMMA FoldsMove ==
  ASSUME Inv, NEW p \in Replica, WriteFolds(p)
  PROVE  RowsMove
<1>0. p \in Tx
  BY Zenon DEF Tx
<1>1. /\ UNCHANGED <<handle, nextId>> /\ \A q \in Tx \ {p} : pend'[q] = pend[q]
      /\ \/ UNCHANGED pend
         \/ \A n \in DOMAIN pend'[p] :
              /\ n \in Name /\ Free(n, {p}) /\ pend'[p][n] \in HandleRow
              /\ handle[n].id # 0
              /\ pend'[p][n].id = handle[n].id /\ pend'[p][n].owner = handle[n].owner
              /\ handle[n].owner \in inherited
  BY WritesFolds, ZenonT(60)
<1>2. \A q \in Tx : DOMAIN pend[q] \subseteq Name
  BY Zenon DEF Inv, Shape
<1> QED
  BY <1>0, <1>1, <1>2, ZenonT(60) DEF RowsMove, RowStep, PendStep, NewWrite

\* A statement of a rename that writes the row of n.
LEMMA WriteMoves ==
  ASSUME Inv, NEW r \in Req, NEW n \in Name, NEW row \in HandleRow, Write(r, n, row),
         Free(n, {r}), UNCHANGED handle, row.current \/ row.owner \in inherited, nextId' \in {nextId, nextId + 1},
         \/ handle[n].id # 0 /\ row.id = handle[n].id /\ row.owner = handle[n].owner
         \/ handle[n].id = 0 /\ nextId' = nextId + 1 /\ row.id = nextId /\ row.owner \in Owner
  PROVE  RowsMove
<1>0. r \in Tx
  BY Zenon DEF Tx
<1>1. /\ \A q \in Tx \ {r} : pend'[q] = pend[q]
      /\ DOMAIN pend'[r] = DOMAIN pend[r] \cup {n} /\ pend'[r][n] = row
      /\ \A m \in DOMAIN pend[r] \ {n} : pend'[r][m] = pend[r][m]
  BY <1>0, Written, Zenon DEF Inv
<1>2. \A q \in Tx : DOMAIN pend[q] \subseteq Name
  BY Zenon DEF Inv, Shape
<1>3. NewWrite(r, n)
  BY <1>1, Zenon DEF NewWrite
<1> QED
  BY <1>0, <1>1, <1>2, <1>3, Zenon DEF RowsMove, RowStep, PendStep

\* Every step moves the rows so.
LEMMA StepMoves ==
  ASSUME Inv, [Next]_vars
  PROVE  RowsMove
<1>1. ASSUME NEW r \in Req, QuarantineOld(r), ~Aborts(r) PROVE RowsMove
  <2>1. PICK row \in HandleRow :
          /\ handle[old[r].name].id = old[r].id /\ handle[old[r].name].owner = owner[r]
          /\ Free(old[r].name, {r}) /\ old[r].name \in Name
          /\ row.id = handle[old[r].name].id /\ row.owner = handle[old[r].name].owner
          /\ row.current = handle[old[r].name].current
          /\ Write(r, old[r].name, row) /\ UNCHANGED <<nextId, Rest>>
    BY <1>1, Quarantines, Zenon
  <2>2. old[r].id # 0
    <3>1. pc[r] # "idle"
      BY <1>1, Zenon DEF QuarantineOld
    <3>2. old[r].id \in 1 .. nextId - 1 /\ nextId \in Nat
      BY <3>1, Zenon DEF Inv, Shape, CopiesKnown, Named
    <3> QED
      BY <3>2, CountedFromOne, Zenon
  <2>3. UNCHANGED <<handle, nextId>> /\ (row.current \/ row.owner \in inherited)
    BY <2>1, <2>2, Zenon DEF Rest, Inv, RowsKnown
  <2> QED
    BY <2>1, <2>2, <2>3, WriteMoves, Zenon
<1>2. ASSUME NEW r \in Req, Reclaim(r), ~Aborts(r) PROVE RowsMove
  <2>1. PICK row \in HandleRow :
          /\ handle[name[r]].id # 0 /\ Free(name[r], {r})
          /\ row.id = handle[name[r]].id /\ row.owner = handle[name[r]].owner
          /\ row.current = handle[name[r]].current
          /\ Write(r, name[r], row) /\ UNCHANGED <<nextId, Rest>>
    BY <1>2, Reclaims, Zenon
  <2>2. pc[r] \in Vacating \ {"commit"}
    BY <1>2, Zenon DEF Reclaim, Vacating
  <2>3. UNCHANGED <<handle, nextId>> /\ name[r] \in Name
    BY <2>1, <2>2, OldWritten, Zenon DEF Rest
  <2>4. row.current \/ row.owner \in inherited
    BY <2>1, <2>3, Zenon DEF Inv, RowsKnown
  <2> QED
    BY <2>1, <2>3, <2>4, WriteMoves, Zenon
<1>3. ASSUME NEW r \in Req, Register(r), ~Aborts(r) PROVE RowsMove
  <2>1. /\ handle[name[r]].id = 0 /\ Free(name[r], {r})
        /\ Write(r, name[r], FreshRow(owner[r], name[r]))
        /\ nextId' = nextId + 1 /\ UNCHANGED Rest
    BY <1>3, Registers, Zenon
  <2>2. pc[r] \in Vacating \ {"commit"}
    BY <1>3, Zenon DEF Register, Vacating
  <2>3. UNCHANGED handle /\ name[r] \in Name /\ owner[r] \in Owner
    BY <2>1, <2>2, OldWritten, Zenon DEF Rest
  <2>4. /\ FreshRow(owner[r], name[r]) \in HandleRow /\ FreshRow(owner[r], name[r]).id = nextId
        /\ FreshRow(owner[r], name[r]).owner = owner[r] /\ FreshRow(owner[r], name[r]).current
    BY <2>3, RowFresh, Zenon DEF Inv
  <2> QED
    BY <2>1, <2>3, <2>4, WriteMoves, Zenon
<1>4. \A p \in Req \cup Replica : p \in Tx
  BY Zenon DEF Tx
<1> QED
  BY <1>1, <1>2, <1>3, <1>4, Writers, QuietMoves, ProvisionMoves, ReleaseMoves, CommitMoves,
     FoldsMove, ZenonT(60)

(***************************************************************************)
(* The shape of the state.                                                 *)
(***************************************************************************)
\* The part of Shape that is about what each process remembers.
LocalShape ==
  /\ DOMAIN pc = Tx \cup Sweeper
  /\ \A r \in Req : pc[r] \in Renaming \cup {"idle"}
  /\ \A p \in Replica : pc[p] \in Booting \cup {"idle"}
  /\ start \in [Req \cup Sweeper -> Nat]
  /\ DOMAIN owner = Req /\ DOMAIN name = Req
  /\ old \in [Req -> RowCopy] /\ found \in [Req -> RowCopy]
  /\ DOMAIN stale = Replica /\ DOMAIN listed = Sweeper
  /\ vacated \in [Name -> [owner : Owner \cup {None}, at : Nat]]

\* It is a part of it.
LEMMA ShapeIsLocal == Shape => LocalShape
BY Zenon DEF Shape, LocalShape

\* A function is updated within its type.
LEMMA Put ==
  ASSUME NEW A, NEW B, NEW f \in [A -> B], NEW a \in A, NEW b \in B
  PROVE  [f EXCEPT ![a] = b] \in [A -> B]
BY Zenon

\* A rename goes from one place to another,
LEMMA GotoReq ==
  ASSUME LocalShape, NEW r \in Req, NEW l \in Renaming \cup {"idle"}, pc' = [pc EXCEPT ![r] = l]
  PROVE  /\ DOMAIN pc' = Tx \cup Sweeper
         /\ \A q \in Req : pc'[q] \in Renaming \cup {"idle"}
         /\ \A p \in Replica : pc'[p] \in Booting \cup {"idle"}
<1>1. r \in Tx \cup Sweeper /\ r \notin Replica /\ DOMAIN pc = Tx \cup Sweeper
  BY Assumed, Zenon DEF LocalShape, Tx
<1>2. DOMAIN pc' = Tx \cup Sweeper /\ pc'[r] = l
  BY <1>1, Zenon
<1>3. \A q \in Tx \cup Sweeper : q # r => pc'[q] = pc[q]
  BY <1>1, Zenon
<1>4. \A q \in Req : pc[q] \in Renaming \cup {"idle"} /\ q \in Tx
  BY Zenon DEF LocalShape, Tx
<1>5. \A q \in Replica : pc[q] \in Booting \cup {"idle"} /\ q \in Tx
  BY Zenon DEF LocalShape, Tx
<1> QED
  BY <1>1, <1>2, <1>3, <1>4, <1>5, Zenon

\* so does a boot,
LEMMA GotoReplica ==
  ASSUME LocalShape, NEW p \in Replica, NEW l \in Booting \cup {"idle"}, pc' = [pc EXCEPT ![p] = l]
  PROVE  /\ DOMAIN pc' = Tx \cup Sweeper
         /\ \A q \in Req : pc'[q] \in Renaming \cup {"idle"}
         /\ \A q \in Replica : pc'[q] \in Booting \cup {"idle"}
<1>1. p \in Tx \cup Sweeper /\ p \notin Req /\ DOMAIN pc = Tx \cup Sweeper
  BY Assumed, Zenon DEF LocalShape, Tx
<1>2. DOMAIN pc' = Tx \cup Sweeper /\ pc'[p] = l
  BY <1>1, Zenon
<1>3. \A q \in Tx \cup Sweeper : q # p => pc'[q] = pc[q]
  BY <1>1, Zenon
<1>4. \A q \in Req : pc[q] \in Renaming \cup {"idle"} /\ q \in Tx
  BY Zenon DEF LocalShape, Tx
<1>5. \A q \in Replica : pc[q] \in Booting \cup {"idle"} /\ q \in Tx
  BY Zenon DEF LocalShape, Tx
<1> QED
  BY <1>1, <1>2, <1>3, <1>4, <1>5, Zenon

\* so does a sweep.
LEMMA GotoSweeper ==
  ASSUME LocalShape, NEW w \in Sweeper, NEW l, pc' = [pc EXCEPT ![w] = l]
  PROVE  /\ DOMAIN pc' = Tx \cup Sweeper
         /\ \A q \in Req : pc'[q] \in Renaming \cup {"idle"}
         /\ \A q \in Replica : pc'[q] \in Booting \cup {"idle"}
BY Assumed, ZenonT(60) DEF LocalShape, Tx

\* A copy of a row, as Rename, claim and ListStaleFolds take it.
LEMMA CopyIsCopy ==
  ASSUME NEW n \in Name, NEW row \in HandleRow
  PROVE  Copy(n, row) \in RowCopy /\ NoCopy \in RowCopy
         /\ Copy(n, row).name = n /\ Copy(n, row).id = row.id
BY Zenon DEF Copy, NoCopy, RowCopy, HandleRow

\* The end of a rename keeps the shape.
LEMMA AbortShape ==
  ASSUME LocalShape, NEW r \in Req, Abort(r)
  PROVE  /\ DOMAIN pc' = Tx \cup Sweeper
         /\ \A q \in Req : pc'[q] \in Renaming \cup {"idle"}
         /\ \A p \in Replica : pc'[p] \in Booting \cup {"idle"}
         /\ start' \in [Req \cup Sweeper -> Nat]
         /\ DOMAIN owner' = Req /\ DOMAIN name' = Req
         /\ old' \in [Req -> RowCopy] /\ found' \in [Req -> RowCopy]
<1>1. NoCopy \in RowCopy /\ 0 \in Nat /\ "idle" \in Renaming \cup {"idle"} /\ r \in Req \cup Sweeper
  BY Zenon DEF NoCopy, RowCopy
<1>2. /\ pc' = [pc EXCEPT ![r] = "idle"] /\ start' = [start EXCEPT ![r] = 0]
      /\ owner' = [owner EXCEPT ![r] = None] /\ name' = [name EXCEPT ![r] = 0]
      /\ old' = [old EXCEPT ![r] = NoCopy] /\ found' = [found EXCEPT ![r] = NoCopy]
  BY Zenon DEF Abort
<1>3. start' \in [Req \cup Sweeper -> Nat] /\ old' \in [Req -> RowCopy] /\ found' \in [Req -> RowCopy]
  BY <1>1, <1>2, Put, Zenon DEF LocalShape
<1>4. DOMAIN owner' = Req /\ DOMAIN name' = Req
  BY <1>2, Zenon DEF LocalShape
<1> QED
  BY <1>1, <1>2, <1>3, <1>4, GotoReq, Zenon

\* The steps of a rename keep the shape.
LEMMA RenameShape ==
  ASSUME Inv, NEW r \in Req,
         (\E o \in Owner, n \in Name : Rename(r, o, n)) \/ RenameStep(r) \/ FailRename(r)
  PROVE  LocalShape'
<1>0. LocalShape /\ Shape
  BY ShapeIsLocal, Zenon DEF Inv
<1>a. ASSUME Abort(r), UNCHANGED <<stale, listed, vacated>> PROVE LocalShape'
  BY <1>0, <1>a, AbortShape, Zenon DEF LocalShape
<1>g. ASSUME NEW l \in Renaming, pc' = [pc EXCEPT ![r] = l], UNCHANGED <<reqVars, stale, listed, vacated>>
      PROVE  LocalShape'
  <2>1. UNCHANGED <<start, owner, name, old, found, stale, listed, vacated>>
    BY <1>g, Zenon DEF reqVars
  <2> QED
    BY <1>0, <1>g, <2>1, GotoReq, Zenon DEF LocalShape
<1>r. {"held", "quarantine", "lookup", "reclaim", "register", "commit"} \subseteq Renaming
  BY Zenon DEF Renaming, Vacating
<1>1. ASSUME NEW o \in Owner, NEW n \in Name, Rename(r, o, n) PROVE LocalShape'
  <2>1. PICK m \in Name : old' = [old EXCEPT ![r] = Copy(m, handle[m])]
    BY <1>1, Zenon DEF Rename, ActiveOf, HeldBy
  <2>2. Copy(m, handle[m]) \in RowCopy /\ now \in Nat
    BY <1>0, CopyIsCopy, Zenon DEF Shape
  <2>3. /\ owner' = [owner EXCEPT ![r] = o] /\ name' = [name EXCEPT ![r] = n]
        /\ start' = [start EXCEPT ![r] = now] /\ pc' = [pc EXCEPT ![r] = "held"]
        /\ UNCHANGED <<found, stale, listed, vacated>>
    BY <1>1, Zenon DEF Rename, Goto
  <2>4. old' \in [Req -> RowCopy] /\ start' \in [Req \cup Sweeper -> Nat]
    BY <1>0, <2>1, <2>2, <2>3, Put, ZenonT(60) DEF LocalShape
  <2>5. DOMAIN owner' = Req /\ DOMAIN name' = Req
    BY <1>0, <2>3, Zenon DEF LocalShape
  <2> QED
    BY <1>0, <1>r, <2>3, <2>4, <2>5, GotoReq, ZenonT(60) DEF LocalShape
<1>2. CASE ListHeld(r) \/ FailRename(r)
  <2>1. CASE Abort(r)
    BY <1>a, <1>2, <2>1, Zenon DEF ListHeld, FailRename
  <2>2. CASE ~Abort(r)
    BY <1>g, <1>r, <1>2, <2>2, ZenonT(60) DEF ListHeld, FailRename, Goto
  <2> QED
    BY <2>1, <2>2, Zenon
<1>3. CASE QuarantineOld(r) \/ Reclaim(r) \/ Register(r)
  <2>1. CASE Abort(r)
    BY <1>a, <1>3, <2>1, ZenonT(60) DEF QuarantineOld, Reclaim, Register
  <2>2. CASE ~Abort(r)
    BY <1>g, <1>r, <1>3, <2>2, ZenonT(60) DEF QuarantineOld, Reclaim, Register, Goto
  <2> QED
    BY <2>1, <2>2, Zenon
<1>4. CASE LookupName(r)
  <2>1. CASE Abort(r)
    BY <1>a, <1>4, <2>1, Zenon DEF LookupName
  <2>2. CASE UNCHANGED <<pend, reqVars>> /\ ~Abort(r)
    BY <1>g, <1>r, <1>4, <2>2, ZenonT(60) DEF LookupName, Goto
  <2>3. CASE ~(UNCHANGED <<pend, reqVars>>) /\ ~Abort(r)
    <3>1. /\ found' = [found EXCEPT ![r] = Copy(name[r], Rows(r)[name[r]])]
          /\ pc' = [pc EXCEPT ![r] = "reclaim"] /\ pc[r] = "lookup"
          /\ UNCHANGED <<owner, name, start, old, stale, listed, vacated>>
      BY <1>4, <2>3, Zenon DEF LookupName, Goto
    <3>2. pc[r] \in Vacating \ {"commit"}
      BY <3>1, Zenon DEF Vacating
    <3>3. name[r] \in Name /\ Rows(r)[name[r]] \in HandleRow
      BY <1>0, <3>2, OldWritten, Zenon DEF Shape
    <3>4. found' \in [Req -> RowCopy]
      BY <1>0, <3>1, <3>3, CopyIsCopy, Put, Zenon DEF LocalShape
    <3> QED
      BY <1>0, <1>r, <3>1, <3>4, GotoReq, Zenon DEF LocalShape
  <2> QED
    BY <2>1, <2>2, <2>3, Zenon
<1>5. CASE CommitRename(r)
  <2>1. /\ vacated' = [vacated EXCEPT ![old[r].name] = [owner |-> owner[r], at |-> start[r]]]
        /\ Abort(r) /\ UNCHANGED <<stale, listed>> /\ pc[r] = "commit"
    BY <1>5, Zenon DEF CommitRename
  <2>2. old[r].name \in Name /\ owner[r] \in Owner
    <3>1. pc[r] # "idle"
      BY <2>1, Zenon
    <3> QED
      BY <3>1, Zenon DEF Inv, CopiesKnown, Named
  <2>3. [owner |-> owner[r], at |-> start[r]] \in [owner : Owner \cup {None}, at : Nat]
    BY <1>0, <2>2, Zenon DEF LocalShape
  <2>4. vacated' \in [Name -> [owner : Owner \cup {None}, at : Nat]]
    BY <1>0, <2>1, <2>2, <2>3, Put, Zenon DEF LocalShape
  <2> QED
    BY <1>0, <2>1, <2>4, AbortShape, Zenon DEF LocalShape
<1> QED
  BY <1>1, <1>2, <1>3, <1>4, <1>5, Zenon DEF RenameStep

\* The steps of a boot, of a sweep and of the clock keep the shape.
LEMMA OtherShape ==
  ASSUME Inv,
         \/ \E o \in Owner, n \in Name : Provision(o, n)
         \/ \E w \in Sweeper : SweepStep(w) \/ StopSweep(w)
         \/ \E p \in Replica : BootStep(p) \/ FailBoot(p)
         \/ Tick
         \/ UNCHANGED vars
  PROVE  LocalShape'
<1>0. LocalShape /\ Shape
  BY ShapeIsLocal, Zenon DEF Inv
<1>1. ASSUME UNCHANGED <<pc, reqVars, stale, listed, vacated>> PROVE LocalShape'
  BY <1>0, <1>1, Zenon DEF LocalShape, reqVars
<1>2. ASSUME NEW p \in Replica, NEW l \in Booting \cup {"idle"}, pc' = [pc EXCEPT ![p] = l],
             DOMAIN stale' = DOMAIN stale, UNCHANGED <<reqVars, listed, vacated>>
      PROVE  LocalShape'
  <2>1. UNCHANGED <<start, owner, name, old, found, listed, vacated>>
    BY <1>2, Zenon DEF reqVars
  <2> QED
    BY <1>0, <1>2, <2>1, GotoReplica, Zenon DEF LocalShape
<1>3. ASSUME NEW p \in Replica, BootStep(p) \/ FailBoot(p) PROVE LocalShape'
  <2>1. {"ready", "reread", "write", "commit", "idle"} \subseteq Booting \cup {"idle"}
    BY Zenon DEF Booting
  <2>2. CASE Precheck(p)
    BY <1>2, <2>1, <2>2, Zenon DEF Precheck, Goto
  <2>3. CASE Reread(p)
    BY <1>2, <2>1, <2>3, Zenon DEF Reread, Goto
  <2>4. CASE WriteFolds(p)
    BY <1>2, <2>1, <2>4, Zenon DEF WriteFolds, Goto
  <2>5. CASE CommitFolds(p)
    BY <1>2, <2>1, <2>5, Zenon DEF CommitFolds, Goto
  <2>6. CASE FailBoot(p)
    BY <1>2, <2>1, <2>6, Zenon DEF FailBoot, Goto
  <2> QED
    BY <1>3, <2>2, <2>3, <2>4, <2>5, <2>6, ZenonT(60) DEF BootStep
<1>4. ASSUME NEW w \in Sweeper, SweepStep(w) \/ StopSweep(w) PROVE LocalShape'
  <2>1. CASE ReleaseExpired(w)
    <3>1. /\ DOMAIN listed' = DOMAIN listed /\ start' = [start EXCEPT ![w] = now]
          /\ pc' = [pc EXCEPT ![w] = "sweep"] /\ UNCHANGED <<owner, name, old, found, stale, vacated>>
      BY <2>1, Zenon DEF ReleaseExpired, Goto
    <3>2. start' \in [Req \cup Sweeper -> Nat]
      BY <1>0, <3>1, Put, Zenon DEF LocalShape, Shape
    <3> QED
      BY <1>0, <3>1, <3>2, GotoSweeper, Zenon DEF LocalShape
  <2>2. ASSUME NEW i \in Id, Release(w, i) PROVE LocalShape'
    <3>1. /\ DOMAIN listed' = DOMAIN listed
          /\ UNCHANGED pc \/ pc' = [pc EXCEPT ![w] = "idle"]
          /\ UNCHANGED <<start, owner, name, old, found, stale, vacated>>
      BY <2>2, Zenon DEF Release, Swept, Goto, reqVars
    <3> QED
      BY <1>0, <3>1, GotoSweeper, Zenon DEF LocalShape
  <2>3. CASE StopSweep(w)
    <3>1. /\ DOMAIN listed' = DOMAIN listed /\ pc' = [pc EXCEPT ![w] = "idle"]
          /\ UNCHANGED <<start, owner, name, old, found, stale, vacated>>
      BY <2>3, Zenon DEF StopSweep, Goto, reqVars
    <3> QED
      BY <1>0, <3>1, GotoSweeper, Zenon DEF LocalShape
  <2> QED
    BY <1>4, <2>1, <2>2, <2>3, Zenon DEF SweepStep
<1>5. ASSUME NEW o \in Owner, NEW n \in Name, Provision(o, n) PROVE LocalShape'
  BY <1>1, <1>5, Zenon DEF Provision
<1>6. CASE Tick
  BY <1>1, <1>6, Zenon DEF Tick
<1>7. CASE UNCHANGED vars
  BY <1>1, <1>7, Zenon DEF vars, reqVars
<1> QED
  BY <1>3, <1>4, <1>5, <1>6, <1>7, Zenon

\* The table stays a table, and only Tick moves the clock.
LEMMA TableStep ==
  ASSUME Inv, [Next]_vars
  PROVE  /\ handle' = [n \in Name |-> handle'[n]] /\ DOMAIN pend' = Tx
         /\ now' \in {now, now + 1} /\ UNCHANGED inherited
<1>0. Shape /\ handle = [n \in Name |-> handle[n]]
  BY Zenon DEF Inv, Shape
<1>1. ASSUME UNCHANGED <<now, handle>> PROVE handle' = [n \in Name |-> handle'[n]] /\ now' = now
  BY <1>0, <1>1, Zenon
<1>2. UNCHANGED inherited
  BY Zenon DEF Next, vars
<1>3. ASSUME NEW o \in Owner, NEW n \in Name, Provision(o, n)
      PROVE  handle' = [m \in Name |-> handle'[m]] /\ DOMAIN pend' = Tx /\ now' = now
  <2>1. handle' = [handle EXCEPT ![n] = FreshRow(o, n)] /\ UNCHANGED <<now, pend>>
    BY <1>3, Zenon DEF Provision
  <2> QED
    BY <1>0, <2>1, Zenon DEF Shape
<1>4. ASSUME NEW w \in Sweeper, SweepStep(w) \/ StopSweep(w)
      PROVE  handle' = [m \in Name |-> handle'[m]] /\ DOMAIN pend' = Tx /\ now' = now
  <2>1. ASSUME NEW i \in Id, Release(w, i)
        PROVE  handle' = [m \in Name |-> handle'[m]] /\ DOMAIN pend' = Tx /\ now' = now
    BY <1>0, <2>1, Zenon DEF Release, Shape
  <2>2. CASE ReleaseExpired(w) \/ StopSweep(w)
    BY <1>0, <1>1, <2>2, Zenon DEF ReleaseExpired, StopSweep, Shape
  <2> QED
    BY <1>4, <2>1, <2>2, Zenon DEF SweepStep
<1>5. ASSUME NEW p \in Replica, BootStep(p) \/ FailBoot(p)
      PROVE  handle' = [m \in Name |-> handle'[m]] /\ DOMAIN pend' = Tx /\ now' = now
  <2>1. CASE CommitFolds(p)
    BY <1>0, <2>1, Zenon DEF CommitFolds, Rows, Overlay, Shape
  <2>2. CASE Precheck(p) \/ Reread(p) \/ WriteFolds(p) \/ FailBoot(p)
    BY <1>0, <1>1, <2>2, Zenon DEF Precheck, Reread, WriteFolds, FailBoot, Shape
  <2> QED
    BY <1>5, <2>1, <2>2, Zenon DEF BootStep
<1>6. ASSUME NEW r \in Req, RenameStep(r) \/ FailRename(r) \/ \E o \in Owner, n \in Name : Rename(r, o, n)
      PROVE  handle' = [m \in Name |-> handle'[m]] /\ DOMAIN pend' = Tx /\ now' = now
  <2>1. CASE CommitRename(r)
    BY <1>0, <2>1, Zenon DEF CommitRename, Abort, Rows, Overlay, Shape
  <2>2. CASE ListHeld(r) \/ LookupName(r) \/ FailRename(r)
    BY <1>0, <1>1, <2>2, Zenon DEF ListHeld, LookupName, FailRename, Abort, Shape
  <2>3. CASE QuarantineOld(r) \/ Reclaim(r) \/ Register(r)
    BY <1>0, <1>1, <2>3, Zenon DEF QuarantineOld, Reclaim, Register, Write, Abort, Shape
  <2>4. CASE \E o \in Owner, n \in Name : Rename(r, o, n)
    BY <1>0, <1>1, <2>4, Zenon DEF Rename, Shape
  <2> QED
    BY <1>6, <2>1, <2>2, <2>3, <2>4, Zenon DEF RenameStep
<1>7. CASE Tick
  BY <1>0, <1>2, <1>7, Zenon DEF Tick, Shape
<1>8. CASE UNCHANGED vars
  BY <1>0, <1>8, Zenon DEF vars, Shape
<1> QED
  BY <1>2, <1>3, <1>4, <1>5, <1>6, <1>7, <1>8, Zenon DEF Next

\* Every step keeps the shape.
LEMMA ShapeStep ==
  ASSUME Inv, [Next]_vars
  PROVE  Shape'
<1>0. Shape
  BY Zenon DEF Inv
<1>1. LocalShape'
  BY RenameShape, OtherShape, Zenon DEF Next
<1>2. RowsMove
  BY StepMoves, Zenon
<1>3. ASSUME NEW n \in Name PROVE handle'[n] \in HandleRow
  <2>1. RowStep(n)
    BY <1>2, Zenon DEF RowsMove
  <2>2. \A o \in Owner : FreshRow(o, n) \in HandleRow
    BY <1>0, RowFresh, Zenon
  <2> QED
    BY <1>0, <2>1, <2>2, RowNone, Zenon DEF RowStep, Shape
<1>4. handle' \in [Name -> HandleRow]
  BY <1>3, TableStep, Zenon
<1>5. \A p \in Tx : DOMAIN pend'[p] \subseteq Name /\ \A n \in DOMAIN pend'[p] : pend'[p][n] \in HandleRow
  BY <1>0, <1>2, Zenon DEF RowsMove, PendStep, NewWrite, Shape
<1>6. now' \in Nat /\ nextId' \in Nat \ {0}
  <2>1. now' \in {now, now + 1} /\ nextId' \in {nextId, nextId + 1}
    BY <1>2, TableStep, Zenon DEF RowsMove
  <2> QED
    BY <1>0, <2>1, SMTT(30) DEF Shape
<1>7. DOMAIN pend' = Tx
  BY TableStep, Zenon
<1> QED
  BY <1>1, <1>4, <1>5, <1>6, <1>7, Zenon DEF Shape, LocalShape

\* Named, of the state a step leads to.
NamedAfter(n, i, S) ==
  /\ n \in Name /\ i \in 1 .. nextId' - 1
  /\ handle'[n].id = i => handle'[n].owner \in S
  /\ \A p \in Tx : n \in DOMAIN pend'[p] /\ pend'[p][n].id = i => pend'[p][n].owner \in S

\* An identifier stays with its name and its owner.
LEMMA NamedStep ==
  ASSUME Inv, RowsMove, NEW n, NEW i, NEW S, Named(n, i, S)
  PROVE  NamedAfter(n, i, S)
<1>1. n \in Name /\ i \in 1 .. nextId - 1 /\ nextId \in Nat \ {0} /\ nextId' \in {nextId, nextId + 1}
  BY Zenon DEF Named, Inv, Shape, RowsMove
<1>2. i \in 1 .. nextId' - 1 /\ i # nextId /\ i # 0
  <2>1. CASE nextId' = nextId
    BY <1>1, <2>1, SMTT(30)
  <2>2. CASE nextId' = nextId + 1
    BY <1>1, <2>2, SMTT(30)
  <2> QED
    BY <1>1, <2>1, <2>2, Zenon
<1>3. ASSUME handle'[n].id = i PROVE handle'[n].owner \in S
  <2>1. RowStep(n)
    BY <1>1, Zenon DEF RowsMove
  <2>2. \A o \in Owner : FreshRow(o, n).id = nextId
    BY <1>1, RowFresh, Zenon DEF Inv
  <2> QED
    BY <1>2, <1>3, <2>1, <2>2, RowNone, Zenon DEF RowStep, Named
<1>4. ASSUME NEW p \in Tx, n \in DOMAIN pend'[p], pend'[p][n].id = i PROVE pend'[p][n].owner \in S
  BY <1>2, <1>4, ZenonT(60) DEF RowsMove, PendStep, NewWrite, Named
<1> QED
  BY <1>1, <1>2, <1>3, <1>4, Zenon DEF NamedAfter

\* A transaction moves by a step of its own.
LEMMA Movers ==
  ASSUME Inv, [Next]_vars, NEW p \in Tx
  PROVE  Kept(p) \/ OwnStep(p)
<1>0. Shape /\ (p \in Req => p \notin Replica)
  BY Assumed, Zenon DEF Inv
<1>1. ASSUME UNCHANGED <<pc, pend, reqVars, stale>> PROVE Kept(p)
  BY <1>1, Zenon DEF Kept, reqVars
<1>2. ASSUME NEW o \in Owner, NEW n \in Name, Provision(o, n) PROVE Kept(p)
  BY <1>1, <1>2, Zenon DEF Provision
<1>3. ASSUME NEW w \in Sweeper, SweepStep(w) \/ StopSweep(w) PROVE Kept(p)
  <2>1. p # w /\ DOMAIN pc = Tx \cup Sweeper /\ start \in [Req \cup Sweeper -> Nat]
    BY <1>0, Assumed, Zenon DEF Shape
  <2>2. CASE ReleaseExpired(w)
    BY <2>1, <2>2, Zenon DEF ReleaseExpired, Goto, Kept
  <2>3. CASE StopSweep(w) \/ \E i \in Id : Release(w, i)
    <3>1. /\ UNCHANGED pc \/ pc' = [pc EXCEPT ![w] = "idle"]
          /\ UNCHANGED <<pend, start, owner, name, old, found, stale>>
      BY <2>3, Zenon DEF StopSweep, Release, Swept, Goto, reqVars
    <3> QED
      BY <2>1, <3>1, Zenon DEF Kept
  <2> QED
    BY <1>3, <2>2, <2>3, Zenon DEF SweepStep
<1>4. ASSUME NEW q \in Replica, q # p, BootStep(q) \/ FailBoot(q) PROVE Kept(p)
  <2>1. q \in Tx /\ UNCHANGED reqVars /\ (UNCHANGED stale \/ \E x : stale' = [stale EXCEPT ![q] = x])
        /\ (UNCHANGED pend \/ \E x : pend' = [pend EXCEPT ![q] = x])
        /\ \E l : pc' = [pc EXCEPT ![q] = l]
    BY <1>4, Zenon DEF BootStep, Precheck, Reread, WriteFolds, CommitFolds, FailBoot, Goto, Tx
  <2> QED
    BY <1>0, <1>4, <2>1, Zenon DEF Kept, Shape, reqVars
<1>5. ASSUME NEW r \in Req, r # p, RenameStep(r) \/ FailRename(r) \/ \E o \in Owner, n \in Name : Rename(r, o, n)
      PROVE  Kept(p)
  <2>1. CASE Abort(r)
    BY <1>0, <1>5, <2>1, AbortKeeps, ZenonT(60)
       DEF RenameStep, ListHeld, QuarantineOld, LookupName, Reclaim, Register, CommitRename, FailRename, Rename
  <2>2. CASE ~Abort(r)
    <3>1. CASE \E o \in Owner, n \in Name : Rename(r, o, n)
      BY <1>0, <1>5, <3>1, ZenonT(60) DEF Rename, Goto, Kept, Shape
    <3>2. CASE ListHeld(r) \/ LookupName(r)
      BY <1>0, <1>5, <2>2, <3>2, Zenon DEF ListHeld, LookupName, Goto, Kept, Shape, reqVars
    <3>3. CASE QuarantineOld(r) \/ Reclaim(r) \/ Register(r)
      BY <1>0, <1>5, <2>2, <3>3, Zenon
         DEF QuarantineOld, Reclaim, Register, Write, Goto, Kept, Shape, reqVars
    <3> QED
      BY <1>5, <2>2, <3>1, <3>2, <3>3, Zenon DEF RenameStep, CommitRename, FailRename
  <2> QED
    BY <2>1, <2>2, Zenon
<1>6. CASE Tick \/ UNCHANGED vars
  BY <1>1, <1>6, Zenon DEF Tick, vars, reqVars
<1>7. p \in Req \/ p \in Replica
  BY Zenon DEF Tx
<1> QED
  BY <1>2, <1>3, <1>4, <1>5, <1>6, <1>7, Zenon DEF Next, OwnStep

(***************************************************************************)
(* The rows, and the copies of them that transactions keep.                *)
(***************************************************************************)
\* Every step keeps what is known of the rows,
LEMMA RowsKnownStep ==
  ASSUME Inv, [Next]_vars
  PROVE  RowsKnown'
<1>0. RowsMove /\ UNCHANGED inherited
  BY StepMoves, TableStep, Zenon
<1>1. nextId \in Nat \ {0} /\ nextId' \in {nextId, nextId + 1}
  BY <1>0, Zenon DEF Inv, Shape, RowsMove
<1>2. SUFFICES ASSUME NEW n \in Name
               PROVE  /\ handle'[n].id < nextId'
                      /\ handle'[n].id # 0 => handle'[n].owner \in Owner
                      /\ handle'[n].id = 0 => handle'[n].owner = None
                      /\ handle'[n].id # 0 /\ ~handle'[n].current => handle'[n].owner \in inherited
  BY <1>0, Zenon DEF RowsKnown
<1>3. RowStep(n) /\ handle[n].id \in Nat
  BY <1>0, Zenon DEF RowsMove, Inv, Shape, HandleRow
<1>4. CASE handle'[n] = handle[n]
  <2>1. handle[n].id < nextId'
    BY <1>1, <1>3, SMTT(30) DEF Inv, RowsKnown
  <2> QED
    BY <1>4, <2>1, Zenon DEF Inv, RowsKnown
<1>5. CASE nextId' = nextId + 1 /\ (\E o \in Owner : handle'[n] = FreshRow(o, n))
  <2>1. PICK o \in Owner : handle'[n] = FreshRow(o, n)
    BY <1>5, Zenon
  <2>2. handle'[n].id = nextId /\ handle'[n].owner = o /\ handle'[n].current
    <3>1. FreshRow(o, n).id = nextId /\ FreshRow(o, n).owner = o /\ FreshRow(o, n).current
      BY RowFresh, Zenon DEF Inv
    <3> QED
      BY <2>1, <3>1, Zenon
  <2>3. nextId < nextId' /\ nextId # 0
    BY <1>1, <1>5, SMTT(30)
  <2> QED
    BY <2>2, <2>3, Zenon
<1>6. CASE handle'[n] = NoRow
  <2>1. 0 < nextId'
    BY <1>1, SMTT(30)
  <2> QED
    BY <1>6, <2>1, RowNone, Zenon
<1>7. CASE \E p \in Tx : n \in DOMAIN pend[p] /\ handle'[n] = pend[p][n]
  <2>1. PICK p \in Tx : n \in DOMAIN pend[p] /\ handle'[n] = pend[p][n]
    BY <1>7, Zenon
  <2>2. pend[p][n].id \in 1 .. nextId - 1 /\ pend[p][n].owner \in Owner
        /\ (pend[p][n].current \/ pend[p][n].owner \in inherited)
    BY <2>1, Zenon DEF Inv, Locks
  <2>3. pend[p][n].id < nextId' /\ pend[p][n].id # 0
    BY <1>1, <2>2, SMTT(30)
  <2> QED
    BY <2>1, <2>2, <2>3, Zenon
<1> QED
  BY <1>3, <1>4, <1>5, <1>6, <1>7, Zenon DEF RowStep

\* the locks,
LEMMA LocksStep ==
  ASSUME Inv, [Next]_vars
  PROVE  Locks'
<1>0. RowsMove /\ UNCHANGED inherited
  BY StepMoves, TableStep, Zenon
<1>1. nextId \in Nat \ {0} /\ nextId' \in {nextId, nextId + 1}
  BY <1>0, Zenon DEF Inv, Shape, RowsMove
<1>2. ASSUME NEW p \in Tx, NEW q \in Tx, p # q, NEW n \in DOMAIN pend'[p], n \in DOMAIN pend'[q]
      PROVE  FALSE
  <2>1. PendStep(p, n) /\ PendStep(q, n)
    BY <1>0, <1>2, Zenon DEF RowsMove
  <2> QED
    BY <1>2, <2>1, Zenon DEF PendStep, NewWrite, Free, Inv, Locks
<1>3. ASSUME NEW p \in Tx, NEW n \in DOMAIN pend'[p]
      PROVE  /\ pend'[p][n].id \in 1 .. nextId' - 1
             /\ pend'[p][n].owner \in Owner
             /\ pend'[p][n].current \/ pend'[p][n].owner \in inherited
             /\ handle'[n].id # 0 =>
                  pend'[p][n].id = handle'[n].id /\ pend'[p][n].owner = handle'[n].owner
  <2>1. PendStep(p, n) /\ n \in Name /\ handle'[n] = handle[n]
    BY <1>0, Zenon DEF RowsMove, PendStep
  <2>2. CASE n \in DOMAIN pend[p] /\ pend'[p][n] = pend[p][n]
    <3>1. pend[p][n].id \in 1 .. nextId - 1
      BY <2>2, Zenon DEF Inv, Locks
    <3>2. pend[p][n].id \in 1 .. nextId' - 1
      BY <1>1, <3>1, SMTT(30)
    <3>3. /\ pend[p][n].owner \in Owner
          /\ pend[p][n].current \/ pend[p][n].owner \in inherited
          /\ handle[n].id # 0 => pend[p][n].id = handle[n].id /\ pend[p][n].owner = handle[n].owner
      BY <2>2, ZenonT(60) DEF Inv, Locks
    <3> QED
      BY <2>1, <2>2, <3>2, <3>3, ZenonT(60)
  <2>3. CASE NewWrite(p, n) /\ handle[n].id # 0
    <3>1. handle[n].id \in Nat /\ handle[n].id < nextId /\ handle[n].owner \in Owner
      BY <2>1, <2>3, ZenonT(30) DEF Inv, Shape, HandleRow, RowsKnown
    <3>2. handle[n].id \in 1 .. nextId' - 1
      BY <1>1, <2>3, <3>1, SMTT(30)
    <3> QED
      BY <2>1, <2>3, <3>1, <3>2, Zenon DEF NewWrite
  <2>4. CASE NewWrite(p, n) /\ handle[n].id = 0
    <3>1. nextId' = nextId + 1
      BY <2>4, Zenon DEF NewWrite
    <3>2. nextId \in 1 .. nextId' - 1
      BY <1>1, <3>1, SMTT(30)
    <3> QED
      BY <2>1, <2>4, <3>2, Zenon DEF NewWrite
  <2> QED
    BY <2>1, <2>2, <2>3, <2>4, Zenon DEF PendStep
<1> QED
  BY <1>0, <1>2, <1>3, ZenonT(60) DEF Locks

\* What a rename remembers of its request and of its active claim.
SameRequest(r) == owner'[r] = owner[r] /\ name'[r] = name[r] /\ start'[r] = start[r] /\ old'[r] = old[r]

\* The steps of a rename, one by one.
LEMMA RequestSteps ==
  ASSUME Inv, NEW r \in Req, OwnStep(r)
  PROVE  \/ pc'[r] = "idle" /\ DOMAIN pend'[r] = {}
         \/ \E o \in Owner, n \in Name : Rename(r, o, n)
         \/ /\ SameRequest(r)
            /\ \/ pc[r] = "held" /\ pc'[r] = "quarantine" /\ pend'[r] = pend[r]
               \/ pc[r] = "lookup" /\ pc'[r] = "register" /\ pend'[r] = pend[r]
               \/ /\ pc[r] = "lookup" /\ pc'[r] = "reclaim" /\ pend'[r] = pend[r]
                  /\ found'[r] = Copy(name[r], handle[name[r]]) /\ handle[name[r]].id # 0
                  /\ handle[name[r]].owner = owner[r]
               \/ QuarantineOld(r) /\ ~Aborts(r) /\ pc'[r] = "lookup"
               \/ Reclaim(r) /\ ~Aborts(r) /\ pc'[r] = "commit"
               \/ Register(r) /\ ~Aborts(r) /\ pc'[r] = "commit"
<1>0. /\ r \in Tx /\ r \notin Replica /\ DOMAIN pend = Tx /\ r \in DOMAIN pc /\ r \in DOMAIN found
      /\ found \in [Req -> RowCopy] /\ Shape
  BY Assumed, Zenon DEF Tx, Inv, Shape
<1>1. ASSUME Abort(r) PROVE pc'[r] = "idle" /\ DOMAIN pend'[r] = {}
  BY <1>0, <1>1, Dropped, Zenon DEF Abort
<1>2. CASE ListHeld(r)
  <2>1. CASE Abort(r)
    BY <1>1, <2>1, Zenon
  <2>2. CASE ~Abort(r)
    BY <1>0, <1>2, <2>2, ZenonT(60) DEF ListHeld, Goto, reqVars, SameRequest
  <2> QED
    BY <2>1, <2>2, Zenon
<1>3. CASE LookupName(r)
  <2>1. CASE Abort(r)
    BY <1>1, <2>1, Zenon
  <2>2. CASE ~Abort(r)
    <3>0. pc[r] = "lookup"
      BY <1>3, Zenon DEF LookupName
    <3>1. pc[r] \in Vacating \ {"commit"}
      BY <3>0, Zenon DEF Vacating
    <3>2. Rows(r)[name[r]] = handle[name[r]]
      BY <3>1, OldWritten, Zenon
    <3> QED
      BY <1>0, <1>3, <2>2, <3>2, Zenon DEF LookupName, Goto, reqVars, SameRequest
  <2> QED
    BY <2>1, <2>2, Zenon
<1>4. CASE QuarantineOld(r)
  <2>1. CASE Aborts(r)
    BY <1>1, <2>1, Zenon DEF Aborts
  <2>2. CASE ~Aborts(r)
    BY <1>0, <1>4, <2>2, ZenonT(60) DEF QuarantineOld, Aborts, Goto, reqVars, SameRequest
  <2> QED
    BY <2>1, <2>2, Zenon
<1>5. CASE Reclaim(r)
  <2>1. CASE Aborts(r)
    BY <1>1, <2>1, Zenon DEF Aborts
  <2>2. CASE ~Aborts(r)
    BY <1>0, <1>5, <2>2, ZenonT(60) DEF Reclaim, Aborts, Goto, reqVars, SameRequest
  <2> QED
    BY <2>1, <2>2, Zenon
<1>6. CASE Register(r)
  <2>1. CASE Aborts(r)
    BY <1>1, <2>1, Zenon DEF Aborts
  <2>2. CASE ~Aborts(r)
    BY <1>0, <1>6, <2>2, Zenon DEF Register, Aborts, Goto, reqVars, SameRequest
  <2> QED
    BY <2>1, <2>2, Zenon
<1>7. CASE CommitRename(r) \/ FailRename(r)
  BY <1>1, <1>7, Zenon DEF CommitRename, FailRename
<1> QED
  BY <1>0, <1>2, <1>3, <1>4, <1>5, <1>6, <1>7, ZenonT(60) DEF OwnStep, RenameStep

\* The steps of a boot.
LEMMA BootSteps ==
  ASSUME Inv, NEW p \in Replica, OwnStep(p)
  PROVE  /\ \/ stale'[p] = stale[p]
            \/ stale'[p] = {}
            \/ stale'[p] = {Copy(n, handle[n]) : n \in StaleRows}
         /\ \/ WriteFolds(p)
            \/ pc'[p] # "commit" /\ DOMAIN pend'[p] = {}
<1>0. /\ p \in Tx /\ p \notin Req /\ DOMAIN pend = Tx /\ p \in DOMAIN pc /\ p \in DOMAIN stale /\ Shape
      /\ (pc[p] # "commit" => DOMAIN pend[p] = {})
  BY Assumed, Zenon DEF Tx, Inv, Shape, Writes
<1>1. CASE Precheck(p)
  <2>1. pc[p] = "idle" /\ pc'[p] \in {"ready", "reread"} /\ UNCHANGED <<pend, stale>>
    BY <1>0, <1>1, Zenon DEF Precheck, Goto
  <2>2. pc[p] # "commit" /\ pc'[p] # "commit"
    BY <2>1, Zenon
  <2> QED
    BY <1>0, <2>1, <2>2, Zenon
<1>2. CASE Reread(p)
  <2>1. pc[p] = "reread" /\ pc'[p] \in {"ready", "write"} /\ UNCHANGED pend
        /\ stale'[p] = {Copy(n, handle[n]) : n \in StaleRows}
    BY <1>0, <1>2, Zenon DEF Reread, Goto
  <2>2. pc[p] # "commit" /\ pc'[p] # "commit"
    BY <2>1, Zenon
  <2> QED
    BY <1>0, <2>1, <2>2, Zenon
<1>3. CASE WriteFolds(p)
  BY <1>0, <1>3, WritesFolds, Zenon
<1>4. CASE CommitFolds(p) \/ FailBoot(p)
  <2>1. pend' = [pend EXCEPT ![p] = <<>>] /\ stale'[p] = {} /\ pc'[p] \in {"ready", "idle"}
    BY <1>0, <1>4, Zenon DEF CommitFolds, FailBoot, Goto
  <2>2. pc'[p] # "commit"
    BY <2>1, Zenon
  <2> QED
    BY <1>0, <2>1, <2>2, Dropped, Zenon
<1> QED
  BY <1>0, <1>1, <1>2, <1>3, <1>4, Zenon DEF OwnStep, BootStep

\* A row's identifier is its name's, and its owner's.
LEMMA RowNamed ==
  ASSUME Inv, NEW n \in Name, handle[n].id # 0, NEW S, handle[n].owner \in S
  PROVE  Named(n, handle[n].id, S)
<1>1. handle[n].id \in Nat /\ handle[n].id < nextId /\ nextId \in Nat
  BY Zenon DEF Inv, Shape, HandleRow, RowsKnown
<1>2. handle[n].id \in 1 .. nextId - 1
  BY <1>1, SMTT(30)
<1> QED
  BY <1>2, Zenon DEF Named, Inv, Locks

\* and what is known of the copies.
LEMMA CopiesStep ==
  ASSUME Inv, [Next]_vars
  PROVE  CopiesKnown'
<1>0. RowsMove /\ UNCHANGED inherited /\ \A p \in Req \cup Replica : p \in Tx
  BY StepMoves, TableStep, Zenon DEF Tx
<1>1. ASSUME NEW r \in Req, pc'[r] # "idle"
      PROVE  /\ owner'[r] \in Owner
             /\ NamedAfter(old'[r].name, old'[r].id, {owner'[r]})
             /\ name'[r] \in Name \ {old'[r].name}
  <2>1. ASSUME pc[r] # "idle", SameRequest(r)
        PROVE  /\ owner'[r] \in Owner
               /\ NamedAfter(old'[r].name, old'[r].id, {owner'[r]})
               /\ name'[r] \in Name \ {old'[r].name}
    <3>1. owner[r] \in Owner /\ Named(old[r].name, old[r].id, {owner[r]}) /\ name[r] \in Name \ {old[r].name}
      BY <2>1, Zenon DEF Inv, CopiesKnown
    <3>2. NamedAfter(old[r].name, old[r].id, {owner[r]})
      BY <1>0, <3>1, NamedStep, Zenon
    <3> QED
      BY <2>1, <3>1, <3>2, Zenon DEF SameRequest
  <2>2. CASE Kept(r)
    BY <1>1, <2>1, <2>2, Zenon DEF Kept, SameRequest
  <2>3. ASSUME NEW o \in Owner, NEW n \in Name, Rename(r, o, n)
        PROVE  /\ owner'[r] \in Owner
               /\ NamedAfter(old'[r].name, old'[r].id, {owner'[r]})
               /\ name'[r] \in Name \ {old'[r].name}
    <3>1. PICK m \in Name \ {n} : /\ handle[m].id # 0 /\ handle[m].owner = o
                                  /\ old' = [old EXCEPT ![r] = Copy(m, handle[m])]
      BY <2>3, Zenon DEF Rename, ActiveOf, HeldBy
    <3>2. owner'[r] = o /\ name'[r] = n /\ old'[r] = Copy(m, handle[m])
      BY <2>3, <3>1, Zenon DEF Rename, Inv, Shape
    <3>3. Copy(m, handle[m]).name = m /\ Copy(m, handle[m]).id = handle[m].id
      BY CopyIsCopy, ZenonT(60) DEF Inv, Shape
    <3>4. NamedAfter(m, handle[m].id, {o})
      BY <1>0, <3>1, RowNamed, NamedStep, Zenon
    <3> QED
      BY <3>1, <3>2, <3>3, <3>4, Zenon
  <2>4. CASE OwnStep(r)
    <3>1. SameRequest(r) => pc[r] # "idle" \/ QuarantineOld(r) \/ Reclaim(r) \/ Register(r)
                            \/ \E o \in Owner, n \in Name : Rename(r, o, n)
      BY <1>1, <2>4, RequestSteps, Zenon
    <3>2. QuarantineOld(r) \/ Reclaim(r) \/ Register(r) => pc[r] # "idle"
      BY Zenon DEF QuarantineOld, Reclaim, Register
    <3> QED
      BY <1>1, <2>1, <2>3, <2>4, <3>1, <3>2, RequestSteps, ZenonT(60)
  <2> QED
    BY <1>0, <2>2, <2>4, Movers, Zenon
<1>2. ASSUME NEW r \in Req, pc'[r] = "reclaim"
      PROVE  found'[r].name = name'[r] /\ NamedAfter(name'[r], found'[r].id, {owner'[r]})
  <2>1. CASE Kept(r)
    <3>1. /\ pc[r] = "reclaim" /\ owner'[r] = owner[r] /\ name'[r] = name[r] /\ found'[r] = found[r]
      BY <1>2, <2>1, Zenon DEF Kept
    <3>2. found[r].name = name[r] /\ Named(name[r], found[r].id, {owner[r]})
      BY <3>1, Zenon DEF Inv, CopiesKnown
    <3>3. NamedAfter(name[r], found[r].id, {owner[r]})
      BY <1>0, <3>2, NamedStep, Zenon
    <3> QED
      BY <3>1, <3>2, <3>3, Zenon
  <2>2. CASE OwnStep(r)
    <3>1. \A o \in Owner, n \in Name : Rename(r, o, n) => pc'[r] = "held"
      BY <1>0, Zenon DEF Rename, Goto, Inv, Shape
    <3>2. /\ SameRequest(r) /\ pc[r] = "lookup"
          /\ found'[r] = Copy(name[r], handle[name[r]]) /\ handle[name[r]].id # 0
          /\ handle[name[r]].owner = owner[r]
      BY <1>2, <2>2, <3>1, RequestSteps, Zenon
    <3>3. name[r] \in Name
      <4>1. pc[r] # "idle"
        BY <3>2, Zenon
      <4> QED
        BY <4>1, Zenon DEF Inv, CopiesKnown
    <3>4. NamedAfter(name[r], handle[name[r]].id, {owner[r]})
      BY <1>0, <3>2, <3>3, RowNamed, NamedStep, Zenon
    <3>5. found'[r].name = name[r] /\ found'[r].id = handle[name[r]].id
      <4>1. handle[name[r]] \in HandleRow
        BY <3>3, Zenon DEF Inv, Shape
      <4>2. /\ Copy(name[r], handle[name[r]]).name = name[r]
            /\ Copy(name[r], handle[name[r]]).id = handle[name[r]].id
        BY <3>3, <4>1, CopyIsCopy, Zenon
      <4> QED
        BY <3>2, <4>2, Zenon
    <3> QED
      BY <3>2, <3>4, <3>5, Zenon DEF SameRequest
  <2> QED
    BY <1>0, <2>1, <2>2, Movers, Zenon
<1>3. ASSUME NEW p \in Replica, NEW c \in stale'[p]
      PROVE  NamedAfter(c.name, c.id, inherited)
  <2>1. ASSUME c \in stale[p] PROVE NamedAfter(c.name, c.id, inherited)
    <3>1. Named(c.name, c.id, inherited)
      BY <2>1, Zenon DEF Inv, CopiesKnown
    <3> QED
      BY <1>0, <3>1, NamedStep, Zenon
  <2>2. ASSUME NEW n \in StaleRows, c = Copy(n, handle[n]) PROVE NamedAfter(c.name, c.id, inherited)
    <3>1. n \in Name /\ handle[n].id # 0 /\ handle[n].owner \in inherited
      BY Zenon DEF StaleRows, Inv, RowsKnown
    <3>2. NamedAfter(n, handle[n].id, inherited)
      BY <1>0, <3>1, RowNamed, NamedStep, Zenon
    <3>3. c.name = n /\ c.id = handle[n].id
      BY <2>2, <3>1, CopyIsCopy, Zenon DEF Inv, Shape
    <3> QED
      BY <3>2, <3>3, Zenon
  <2>3. Kept(p) \/ OwnStep(p)
    BY <1>0, Movers, Zenon
  <2> QED
    BY <2>1, <2>2, <2>3, BootSteps, Zenon DEF Kept
<1> QED
  BY <1>0, <1>1, <1>2, <1>3, ZenonT(60) DEF CopiesKnown, Named, NamedAfter

(***************************************************************************)
(* What each transaction has written.                                      *)
(***************************************************************************)
\* A rename about to commit has its name active, for its owner.
LEMMA AtCommit ==
  ASSUME Inv, NEW r \in Req, pc[r] = "commit"
  PROVE  /\ DOMAIN pend[r] = {old[r].name, name[r]} /\ old[r].name # name[r]
         /\ old[r].name \in Name /\ name[r] \in Name /\ owner[r] \in Owner
         /\ ActiveRow(owner[r], pend[r][name[r]])
         /\ pend[r][old[r].name].state = "quarantined" /\ pend[r][old[r].name].owner = owner[r]
         /\ pend[r][old[r].name].until = start[r] + QuarantineWindow
         /\ \A m \in Name \ {old[r].name, name[r]} : ~ActiveRow(owner[r], handle[m])
<1>1. pc[r] \in Vacating /\ pc[r] # "idle" /\ r \in Tx
  BY Zenon DEF Vacating, Tx
<1>2. /\ DOMAIN pend[r] = {old[r].name} \cup {name[r]}
      /\ pend[r][old[r].name].state = "quarantined" /\ pend[r][old[r].name].owner = owner[r]
      /\ pend[r][old[r].name].until = start[r] + QuarantineWindow
      /\ pend[r][name[r]].state = "active" /\ pend[r][name[r]].owner = owner[r]
      /\ \A m \in Name \ {old[r].name, name[r]} : ~ActiveRow(owner[r], handle[m])
  BY <1>1, Zenon DEF Inv, Writes, WrittenSoFar
<1>3. old[r].name # name[r] /\ old[r].name \in Name /\ name[r] \in Name /\ owner[r] \in Owner
  BY <1>1, Zenon DEF Inv, CopiesKnown, Named
<1>4. pend[r][name[r]].id \in 1 .. nextId - 1 /\ nextId \in Nat
  BY <1>1, <1>2, Zenon DEF Inv, Locks, Shape
<1>5. pend[r][name[r]].id # 0
  BY <1>4, SMTT(30)
<1> QED
  BY <1>2, <1>3, <1>5, Zenon DEF ActiveRow

\* The statements of a rename write what WrittenSoFar says.
LEMMA WrittenStep ==
  ASSUME Inv, [Next]_vars, NEW r \in Req
  PROVE  WrittenSoFar(r)'
<1>0. WrittenSoFar(r) /\ r \in Tx
  BY Zenon DEF Inv, Writes, Tx
<1>1. CASE Kept(r)
  <2>1. /\ pc'[r] = pc[r] /\ pend'[r] = pend[r] /\ owner'[r] = owner[r] /\ name'[r] = name[r]
        /\ start'[r] = start[r] /\ old'[r] = old[r]
    BY <1>1, Zenon DEF Kept
  <2> QED
    BY <1>0, <2>1, Zenon DEF WrittenSoFar
<1>2. CASE pc'[r] = "idle" /\ DOMAIN pend'[r] = {}
  BY <1>2, Zenon DEF WrittenSoFar, Vacating
<1>3. ASSUME NEW o \in Owner, NEW n \in Name, Rename(r, o, n) PROVE WrittenSoFar(r)'
  <2>1. pc[r] = "idle" /\ pc'[r] = "held" /\ pend' = pend
    BY <1>0, <1>3, Zenon DEF Rename, Goto, Inv, Shape
  <2> QED
    BY <1>0, <2>1, Zenon DEF WrittenSoFar, Vacating
<1>4. CASE /\ SameRequest(r) /\ pend'[r] = pend[r]
           /\ \/ pc[r] = "held" /\ pc'[r] = "quarantine"
              \/ pc[r] = "lookup" /\ pc'[r] \in {"register", "reclaim"}
  <2>1. CASE pc[r] = "held" /\ pc'[r] = "quarantine"
    BY <1>0, <1>4, <2>1, Zenon DEF WrittenSoFar, Vacating
  <2>2. CASE pc[r] = "lookup" /\ pc'[r] \in {"register", "reclaim"}
    <3>1. pc[r] \in Vacating /\ pc[r] # "commit" /\ pc'[r] \in Vacating /\ pc'[r] # "commit"
      BY <2>2, Zenon DEF Vacating
    <3>2. /\ DOMAIN pend[r] = {old[r].name} /\ pend[r][old[r].name].state = "quarantined"
          /\ pend[r][old[r].name].until = start[r] + QuarantineWindow
          /\ pend[r][old[r].name].owner = owner[r]
      BY <1>0, <3>1, Zenon DEF WrittenSoFar
    <3> QED
      BY <1>4, <3>1, <3>2, Zenon DEF WrittenSoFar, SameRequest
  <2> QED
    BY <1>4, <2>1, <2>2, Zenon
<1>5. CASE SameRequest(r) /\ QuarantineOld(r) /\ ~Aborts(r) /\ pc'[r] = "lookup"
  <2>1. PICK row \in HandleRow :
          /\ handle[old[r].name].owner = owner[r] /\ old[r].name \in Name
          /\ row.owner = handle[old[r].name].owner
          /\ row.state = "quarantined" /\ row.until = start[r] + QuarantineWindow
          /\ Write(r, old[r].name, row)
    BY <1>5, Quarantines, Zenon
  <2>2. pc[r] = "quarantine" /\ Shape
    BY <1>5, Zenon DEF QuarantineOld, Inv
  <2>3. DOMAIN pend[r] = {}
    BY <1>0, <2>2, Zenon DEF WrittenSoFar, Vacating
  <2>4. DOMAIN pend'[r] = {old[r].name} /\ pend'[r][old[r].name] = row
    BY <1>0, <2>1, <2>2, <2>3, Written
  <2> QED
    BY <1>5, <2>1, <2>4, ZenonT(30) DEF WrittenSoFar, Vacating, SameRequest
<1>6. CASE SameRequest(r) /\ (Reclaim(r) \/ Register(r)) /\ ~Aborts(r) /\ pc'[r] = "commit"
  <2>0. pc[r] \in Vacating \ {"commit"} /\ Shape
    BY <1>6, Zenon DEF Reclaim, Register, Vacating, Inv
  <2>1. /\ DOMAIN pend[r] = {old[r].name} /\ name[r] \in Name /\ name[r] # old[r].name
        /\ owner[r] \in Owner
    BY <2>0, OldWritten, Zenon
  <2>2. PICK row : Write(r, name[r], row) /\ row.state = "active" /\ row.owner = owner[r]
    <3>1. CASE Reclaim(r)
      <4>1. PICK row \in HandleRow :
              /\ handle[name[r]].owner = owner[r] /\ row.owner = handle[name[r]].owner
              /\ row.state = "active" /\ Write(r, name[r], row)
        BY <1>6, <3>1, Reclaims, Zenon
      <4>2. row.owner = owner[r]
        BY <4>1, Zenon
      <4> QED
        BY <4>1, <4>2, Zenon
    <3>2. CASE Register(r)
      <4>1. Write(r, name[r], FreshRow(owner[r], name[r]))
        BY <1>6, <3>2, Registers, Zenon
      <4>2. FreshRow(owner[r], name[r]).state = "active" /\ FreshRow(owner[r], name[r]).owner = owner[r]
        BY <2>0, <2>1, RowFresh, Zenon
      <4> QED
        BY <4>1, <4>2, Zenon
    <3> QED
      BY <1>6, <3>1, <3>2, Zenon
  <2>3. /\ DOMAIN pend'[r] = {old[r].name} \cup {name[r]} /\ pend'[r][name[r]] = row
        /\ pend'[r][old[r].name] = pend[r][old[r].name]
    <3>1. /\ DOMAIN pend'[r] = DOMAIN pend[r] \cup {name[r]} /\ pend'[r][name[r]] = row
          /\ \A m \in DOMAIN pend[r] \ {name[r]} : pend'[r][m] = pend[r][m]
      BY <1>0, <2>0, <2>1, <2>2, Written
    <3> QED
      BY <2>1, <3>1, ZenonT(30)
  <2>4. /\ pend[r][old[r].name].state = "quarantined"
        /\ pend[r][old[r].name].until = start[r] + QuarantineWindow
        /\ pend[r][old[r].name].owner = owner[r]
    BY <1>0, <2>0, Zenon DEF WrittenSoFar
  <2>5. pc'[r] \in Vacating
    BY <1>6, Zenon DEF Vacating
  <2> QED
    BY <1>6, <2>2, <2>3, <2>4, <2>5, Zenon DEF WrittenSoFar, SameRequest
<1>7. CASE OwnStep(r)
  BY <1>2, <1>3, <1>4, <1>5, <1>6, <1>7, RequestSteps, Zenon
<1> QED
  BY <1>0, <1>1, <1>7, Movers, Zenon

\* A commit, a boot or a new owner makes no other row active for the owner of a
\* rename about to commit.
LEMMA CommitStays ==
  ASSUME Inv, [Next]_vars, NEW r \in Req, pc[r] = "commit", Kept(r),
         NEW m \in Name \ {old[r].name, name[r]}
  PROVE  ~ActiveRow(owner[r], handle'[m])
<1>1. /\ DOMAIN pend[r] = {old[r].name, name[r]} /\ r \in Tx
      /\ ActiveRow(owner[r], pend[r][name[r]]) /\ ~ActiveRow(owner[r], handle[m])
  BY AtCommit, Zenon DEF Tx
<1>2. RowStep(m)
  BY StepMoves, Zenon DEF RowsMove
<1>3. ASSUME NEW o \in Owner, handle'[m] = FreshRow(o, m), Alone(o, None)
      PROVE  ~ActiveRow(owner[r], handle'[m])
  <2>1. r # None
    BY <1>1, Assumed, Zenon
  <2>2. o # owner[r]
    BY <1>1, <1>3, <2>1, Zenon DEF Alone
  <2>3. FreshRow(o, m).owner = o
    BY RowFresh, Zenon DEF Inv
  <2> QED
    BY <1>3, <2>2, <2>3, Zenon DEF ActiveRow
<1>4. ASSUME NEW p \in Tx, m \in DOMAIN pend[p], handle'[m] = pend[p][m], p \in Req, CommitRename(p)
      PROVE  ~ActiveRow(owner[r], handle'[m])
  <2>1. pc[p] = "commit" /\ p # r
    BY <1>1, <1>4, Zenon DEF CommitRename
  <2>2. owner[p] # owner[r]
    BY <1>4, <2>1, Zenon DEF Inv, OneCommit
  <2>3. pend[p][m].owner = owner[p]
    <3>1. /\ DOMAIN pend[p] = {old[p].name, name[p]} /\ pend[p][old[p].name].owner = owner[p]
          /\ pend[p][name[p]].owner = owner[p]
      BY <1>4, <2>1, AtCommit, Zenon DEF ActiveRow
    <3> QED
      BY <1>4, <3>1, Zenon
  <2> QED
    BY <1>4, <2>2, <2>3, Zenon DEF ActiveRow
<1>5. ASSUME NEW p \in Tx, m \in DOMAIN pend[p], handle'[m] = pend[p][m], p \in Replica
      PROVE  ~ActiveRow(owner[r], handle'[m])
  <2>1. /\ pend[p][m].id = handle[m].id /\ (pend[p][m].state = "active" => handle[m].state = "active")
        /\ (handle[m].id # 0 => pend[p][m].owner = handle[m].owner)
    BY <1>5, Zenon DEF Inv, Writes, Locks
  <2> QED
    BY <1>1, <1>5, <2>1, Zenon DEF ActiveRow
<1>6. CASE handle'[m] = NoRow
  BY <1>6, RowNone, Zenon DEF ActiveRow
<1> QED
  BY <1>1, <1>2, <1>3, <1>4, <1>5, <1>6, Zenon DEF RowStep

\* Every step keeps what is known of the uncommitted rows.
LEMMA WritesStep ==
  ASSUME Inv, [Next]_vars
  PROVE  Writes'
<1>0. UNCHANGED inherited /\ RowsMove /\ \A p \in Req \cup Replica : p \in Tx
  BY TableStep, StepMoves, Zenon DEF Tx
<1>1. \A r \in Req : WrittenSoFar(r)'
  BY WrittenStep, Zenon
<1>2. ASSUME NEW r \in Req, pc'[r] = "commit", NEW m \in Name \ {old'[r].name, name'[r]}
      PROVE  ~ActiveRow(owner'[r], handle'[m])
  <2>1. CASE Kept(r)
    BY <1>2, <2>1, CommitStays, Zenon DEF Kept
  <2>2. CASE OwnStep(r)
    <3>1. \A o \in Owner, n \in Name : Rename(r, o, n) => pc'[r] = "held"
      BY <1>0, Zenon DEF Rename, Goto, Inv, Shape
    <3>2. SameRequest(r) /\ (Reclaim(r) \/ Register(r)) /\ ~Aborts(r)
      BY <1>2, <2>2, <3>1, RequestSteps, Zenon
    <3>3. /\ \A x \in Name \ {old[r].name, name[r]} : ~ActiveRow(owner[r], handle[x])
          /\ UNCHANGED handle
      BY <3>2, Reclaims, Registers, Zenon DEF Rest
    <3> QED
      BY <1>2, <3>2, <3>3, Zenon DEF SameRequest
  <2> QED
    BY <1>0, <2>1, <2>2, Movers, Zenon
<1>3. ASSUME NEW p \in Replica, pc'[p] # "commit" PROVE DOMAIN pend'[p] = {}
  <2>1. CASE Kept(p)
    BY <1>3, <2>1, Zenon DEF Kept, Inv, Writes
  <2>2. CASE WriteFolds(p)
    <3>1. pc[p] = "write" /\ (UNCHANGED pend \/ pc' = [pc EXCEPT ![p] = "commit"])
      BY <2>2, WritesFolds, Zenon
    <3>2. p \in DOMAIN pc /\ pc[p] # "commit"
      BY <1>0, <3>1, Zenon DEF Inv, Shape
    <3> QED
      BY <1>3, <3>1, <3>2, Zenon DEF Inv, Writes
  <2> QED
    BY <1>0, <2>1, <2>2, Movers, BootSteps, Zenon
<1>4. ASSUME NEW p \in Replica, NEW n \in Name, n \in DOMAIN pend'[p]
      PROVE  /\ pend'[p][n].id = handle'[n].id
             /\ pend'[p][n].owner \in inherited
             /\ pend'[p][n].state = "active" => handle'[n].state = "active"
             /\ pend'[p][n].state = "quarantined" /\ pend'[p][n].until # 0 =>
                  handle'[n].state = "quarantined" /\ handle'[n].until = pend'[p][n].until
  <2>0. handle'[n] = handle[n]
    BY <1>0, <1>4, Zenon DEF RowsMove, PendStep
  <2>1. CASE pend'[p] = pend[p]
    <3>1. n \in DOMAIN pend[p]
      BY <1>4, <2>1, Zenon
    <3>2. /\ pend[p][n].id = handle[n].id
          /\ pend[p][n].owner \in inherited
          /\ pend[p][n].state = "active" => handle[n].state = "active"
          /\ pend[p][n].state = "quarantined" /\ pend[p][n].until # 0 =>
               handle[n].state = "quarantined" /\ handle[n].until = pend[p][n].until
      BY <3>1, Zenon DEF Inv, Writes
    <3> QED
      BY <2>0, <2>1, <3>2, Zenon
  <2>2. CASE WriteFolds(p) /\ ~(pend'[p] = pend[p])
    <3>1. /\ pend'[p][n].id = handle[n].id
          /\ pend'[p][n].owner \in inherited
          /\ pend'[p][n].state = "active" => handle[n].state = "active"
          /\ pend'[p][n].state = "quarantined" /\ pend'[p][n].until # 0 =>
               handle[n].state = "quarantined" /\ handle[n].until = pend'[p][n].until
      BY <1>4, <2>2, WritesFolds, Zenon
    <3> QED
      BY <2>0, <3>1, Zenon
  <2> QED
    BY <1>0, <1>4, <2>1, <2>2, Movers, BootSteps, Zenon DEF Kept
<1> QED
  BY <1>0, <1>1, <1>2, <1>3, <1>4, Zenon DEF Writes, ActiveRow

\* Reclaim and Register wait for another row of the owner in flight, so no second
\* rename of an owner gets to its commit.
LEMMA OneCommitStep ==
  ASSUME Inv, [Next]_vars
  PROVE  OneCommit'
<1>0. \A r \in Req : r \in Tx
  BY Zenon DEF Tx
<1>1. ASSUME NEW r \in Req, pc'[r] = "commit"
      PROVE  \/ Kept(r) /\ pc[r] = "commit"
             \/ /\ pc' = [pc EXCEPT ![r] = "commit"] /\ pc[r] # "commit" /\ owner'[r] = owner[r]
                /\ Alone(owner[r], r)
  <2>1. CASE Kept(r)
    BY <1>1, <2>1, Zenon DEF Kept
  <2>2. CASE OwnStep(r)
    <3>1. \A o \in Owner, n \in Name : Rename(r, o, n) => pc'[r] = "held"
      BY <1>0, Zenon DEF Rename, Goto, Inv, Shape
    <3>2. SameRequest(r) /\ (Reclaim(r) \/ Register(r)) /\ ~Aborts(r)
      BY <1>1, <2>2, <3>1, RequestSteps, Zenon
    <3>3. /\ pc' = [pc EXCEPT ![r] = "commit"] /\ Alone(owner[r], r)
          /\ pc[r] \in {"reclaim", "register"}
      BY <3>2, Reclaims, Registers, Zenon
    <3>4. pc[r] # "commit"
      BY <3>3, Zenon
    <3> QED
      BY <3>2, <3>3, <3>4, Zenon DEF SameRequest
  <2> QED
    BY <1>0, <2>1, <2>2, Movers, Zenon
<1>2. ASSUME NEW q \in Req, NEW r \in Req, q # r, pc'[q] = "commit", pc'[r] = "commit",
             ~(Kept(q) /\ pc[q] = "commit")
      PROVE  owner'[q] # owner'[r]
  <2>1. pc' = [pc EXCEPT ![q] = "commit"] /\ owner'[q] = owner[q] /\ Alone(owner[q], q)
    BY <1>1, <1>2, Zenon
  <2>2. pc[r] = "commit"
    BY <1>0, <1>2, <2>1, Zenon DEF Inv, Shape
  <2>3. Kept(r) /\ owner'[r] = owner[r]
    BY <1>1, <1>2, <2>2, Zenon DEF Kept
  <2>4. ActiveRow(owner[r], pend[r][name[r]]) /\ name[r] \in DOMAIN pend[r]
    BY <2>2, AtCommit, ZenonT(60)
  <2> QED
    BY <1>0, <1>2, <2>1, <2>3, <2>4, Zenon DEF Alone
<1>3. ASSUME NEW q \in Req, NEW r \in Req, q # r, Kept(q) /\ pc[q] = "commit", Kept(r) /\ pc[r] = "commit"
      PROVE  owner'[q] # owner'[r]
  BY <1>3, Zenon DEF Kept, Inv, OneCommit
<1> QED
  BY <1>2, <1>3, Zenon DEF OneCommit

(***************************************************************************)
(* The hold, and the active row.                                           *)
(***************************************************************************)
\* A sweep begins now; a name is vacated by the commit of a rename.
LEMMA HistoryStep ==
  ASSUME Inv, [Next]_vars
  PROVE  /\ \A w \in Sweeper : start'[w] \in {start[w], now}
         /\ \/ UNCHANGED vacated
            \/ \E r \in Req : CommitRename(r)
<1>0. /\ start \in [Req \cup Sweeper -> Nat] /\ \A r \in Req, w \in Sweeper : r # w
  BY Assumed DEF Inv, Shape, Tx
<1>1. ASSUME NEW r \in Req, NEW u, start' = [start EXCEPT ![r] = u]
      PROVE  \A w \in Sweeper : start'[w] = start[w]
  BY <1>0, <1>1, ZenonT(30)
<1>2. ASSUME NEW r \in Req, RenameStep(r) \/ FailRename(r) \/ \E o \in Owner, n \in Name : Rename(r, o, n)
      PROVE  /\ \A w \in Sweeper : start'[w] = start[w]
             /\ UNCHANGED vacated \/ CommitRename(r)
  <2>1. CASE Abort(r)
    BY <1>1, <1>2, <2>1, Zenon DEF Abort, RenameStep, FailRename, ListHeld, QuarantineOld, LookupName,
                                  Reclaim, Register, Rename
  <2>2. CASE ~Abort(r)
    BY <1>1, <1>2, <2>2, Zenon DEF RenameStep, FailRename, ListHeld, QuarantineOld, LookupName,
                                  Reclaim, Register, CommitRename, Rename, reqVars
  <2> QED
    BY <2>1, <2>2, Zenon
<1>3. ASSUME NEW w \in Sweeper, ReleaseExpired(w)
      PROVE  (\A v \in Sweeper : start'[v] \in {start[v], now}) /\ UNCHANGED vacated
  <2>1. start' = [start EXCEPT ![w] = now] /\ UNCHANGED vacated
    BY <1>3, Zenon DEF ReleaseExpired
  <2> QED
    BY <1>0, <2>1, Zenon
<1>4. ASSUME NEW w \in Sweeper, StopSweep(w) \/ \E i \in Id : Release(w, i) PROVE UNCHANGED <<start, vacated>>
  BY <1>4, Zenon DEF StopSweep, Release, reqVars
<1>5. ASSUME NEW p \in Replica, BootStep(p) \/ FailBoot(p) PROVE UNCHANGED <<start, vacated>>
  BY <1>5, Zenon DEF BootStep, FailBoot, Precheck, Reread, WriteFolds, CommitFolds, reqVars
<1>6. ASSUME \E o \in Owner, n \in Name : Provision(o, n) PROVE UNCHANGED <<start, vacated>>
  BY <1>6, Zenon DEF Provision, reqVars
<1>7. ASSUME Tick \/ UNCHANGED vars PROVE UNCHANGED <<start, vacated>>
  BY <1>7, Zenon DEF Tick, vars, reqVars
<1> QED
  BY <1>2, <1>3, <1>4, <1>5, <1>6, <1>7, Zenon DEF Next, SweepStep

\* The hold on a name that was vacated before the step.
HeldFor(n, v) ==
  /\ handle'[n].owner # v.owner => now' >= v.at + QuarantineWindow
  /\ handle'[n].owner = v.owner /\ handle'[n].state = "quarantined" /\ handle'[n].until # 0
       => handle'[n].until >= v.at + QuarantineWindow

\* A step that does not vacate n keeps its hold: Release deletes a row only when its
\* deadline has passed, and the recompute only lifts deadlines.
LEMMA HeldStep ==
  ASSUME Inv, [Next]_vars, NEW n \in Name, vacated[n].owner # None,
         \A r \in Req : CommitRename(r) => n # old[r].name
  PROVE  HeldFor(n, vacated[n])
<1> DEFINE v == vacated[n]
<1>0. /\ v.owner \in Owner /\ v.at + QuarantineWindow \in Nat /\ now \in Nat
      /\ handle[n].until \in Nat
  <2>1. v \in [owner : Owner \cup {None}, at : Nat] /\ handle[n] \in HandleRow /\ now \in Nat
    BY Zenon DEF Inv, Shape
  <2> QED
    BY <2>1, Assumed, SMTT(30) DEF HandleRow
<1>1. now' >= now
  <2>1. now' \in {now, now + 1}
    BY TableStep, Zenon
  <2> QED
    BY <1>0, <2>1, SMTT(30)
<1>2. /\ handle[n].owner # v.owner => now >= v.at + QuarantineWindow
      /\ handle[n].owner = v.owner /\ handle[n].state = "quarantined" /\ handle[n].until # 0
           => handle[n].until >= v.at + QuarantineWindow
  BY Zenon DEF Inv, HoldStands
<1> HIDE DEF v
<1>3. ASSUME handle[n].owner # v.owner PROVE now' >= v.at + QuarantineWindow
  <2>1. now' \in Nat
    BY <1>0, TableStep, SMTT(30)
  <2> QED
    BY <1>0, <1>1, <1>2, <1>3, <2>1, SMTT(30)
<1>4. ASSUME handle[n].id = 0 PROVE now' >= v.at + QuarantineWindow
  <2>1. handle[n].owner = None /\ None \notin Owner
    BY <1>4, Assumed, Zenon DEF Inv, RowsKnown
  <2> QED
    BY <1>0, <1>3, <2>1, Zenon
<1>5. RowStep(n)
  BY StepMoves, Zenon DEF RowsMove
<1>6. CASE handle'[n] = handle[n]
  BY <1>2, <1>3, <1>6, Zenon DEF HeldFor, v
<1>7. ASSUME NEW o \in Owner, handle[n].id = 0, handle'[n] = FreshRow(o, n) PROVE HeldFor(n, v)
  <2>1. FreshRow(o, n).state = "active"
    BY RowFresh, Zenon DEF Inv
  <2> QED
    BY <1>4, <1>7, <2>1, Zenon DEF HeldFor
<1>8. ASSUME NEW w \in Sweeper, handle'[n] = NoRow, Expired(handle[n], start[w]) PROVE HeldFor(n, v)
  <2>1. /\ handle[n].state = "quarantined" /\ handle[n].until # 0 /\ handle[n].until <= start[w]
        /\ start[w] <= now /\ start[w] \in Nat
    BY <1>8, Zenon DEF Expired, Inv, HoldStands, Shape
  <2>2. now' >= v.at + QuarantineWindow
    <3>1. CASE handle[n].owner = v.owner
      <4>1. handle[n].until >= v.at + QuarantineWindow
        BY <1>2, <2>1, <3>1, Zenon
      <4>2. now' \in Nat
        BY <1>0, TableStep, SMTT(30)
      <4> QED
        BY <1>0, <1>1, <2>1, <4>1, <4>2, SMTT(30)
    <3> QED
      BY <1>3, <3>1, Zenon
  <2> QED
    BY <1>8, <2>2, RowNone, Zenon DEF HeldFor
<1>9. ASSUME NEW r \in Req, n \in DOMAIN pend[r], handle'[n] = pend[r][n], CommitRename(r)
      PROVE  HeldFor(n, v)
  <2>1. pc[r] = "commit" /\ n # old[r].name /\ r \in Tx
    BY <1>9, Zenon DEF CommitRename, Tx
  <2>2. DOMAIN pend[r] = {old[r].name, name[r]} /\ pend[r][name[r]].state = "active"
    BY <2>1, AtCommit, Zenon DEF ActiveRow
  <2>3. pend[r][n].state = "active"
    BY <1>9, <2>1, <2>2, Zenon
  <2>4. handle[n].id # 0 => pend[r][n].owner = handle[n].owner
    BY <1>9, <2>1, Zenon DEF Inv, Locks
  <2> QED
    BY <1>3, <1>4, <1>9, <2>3, <2>4, Zenon DEF HeldFor
<1>10. ASSUME NEW p \in Replica, n \in DOMAIN pend[p], handle'[n] = pend[p][n]
       PROVE  HeldFor(n, v)
  <2>1. p \in Tx /\ (handle[n].id # 0 => pend[p][n].owner = handle[n].owner)
    BY <1>10, Zenon DEF Inv, Locks, Tx
  <2>2. /\ pend[p][n].id = handle[n].id
        /\ pend[p][n].state = "quarantined" /\ pend[p][n].until # 0 =>
             handle[n].state = "quarantined" /\ handle[n].until = pend[p][n].until
    BY <1>10, Zenon DEF Inv, Writes
  <2>3. pend[p][n].id # 0
    <3>1. pend[p][n].id \in 1 .. nextId - 1 /\ nextId \in Nat
      BY <1>10, <2>1, Zenon DEF Inv, Locks, Shape
    <3> QED
      BY <3>1, SMTT(30)
  <2> QED
    BY <1>2, <1>3, <1>10, <2>1, <2>2, <2>3, Zenon DEF HeldFor
<1> QED
  BY <1>5, <1>6, <1>7, <1>8, <1>9, <1>10, Zenon DEF RowStep, v

\* Every step keeps the holds.
LEMMA HoldStep ==
  ASSUME Inv, [Next]_vars
  PROVE  HoldStands'
<1>1. ASSUME NEW w \in Sweeper PROVE start'[w] <= now'
  <2>1. start'[w] \in {start[w], now} /\ now' \in {now, now + 1}
    BY HistoryStep, TableStep, Zenon
  <2>2. start[w] <= now /\ start[w] \in Nat /\ now \in Nat
    BY Zenon DEF Inv, HoldStands, Shape
  <2> QED
    BY <2>1, <2>2, SMTT(30)
<1>2. ASSUME NEW n \in Name, vacated'[n].owner # None PROVE HeldFor(n, vacated'[n])
  <2>1. CASE \E r \in Req : CommitRename(r) /\ n = old[r].name
    <3>1. PICK r \in Req : CommitRename(r) /\ n = old[r].name
      BY <2>1, Zenon
    <3>2. pc[r] = "commit" /\ r \in Tx
          /\ vacated' = [vacated EXCEPT ![n] = [owner |-> owner[r], at |-> start[r]]]
      BY <3>1, Zenon DEF CommitRename, Tx
    <3>3. vacated'[n] = [owner |-> owner[r], at |-> start[r]]
      BY <3>2, Zenon DEF Inv, Shape
    <3>4. /\ n \in DOMAIN pend[r] /\ pend[r][n].owner = owner[r]
          /\ pend[r][n].until = start[r] + QuarantineWindow
      BY <3>1, <3>2, AtCommit, ZenonT(60)
    <3>5. handle'[n] = pend[r][n]
      BY <3>1, <3>2, <3>4, Commits, Zenon DEF Inv
    <3>6. start[r] + QuarantineWindow \in Nat
      BY Assumed, SMTT(30) DEF Inv, Shape
    <3> QED
      BY <3>3, <3>4, <3>5, <3>6, SMTT(30) DEF HeldFor
  <2>2. CASE \A r \in Req : CommitRename(r) => n # old[r].name
    <3>1. vacated'[n] = vacated[n]
      BY <2>2, HistoryStep, Zenon DEF CommitRename, Inv, Shape
    <3>2. HeldFor(n, vacated[n])
      BY <1>2, <2>2, <3>1, HeldStep, Zenon
    <3> QED
      BY <3>1, <3>2, Zenon
  <2> QED
    BY <2>1, <2>2, Zenon
<1> QED
  BY <1>1, <1>2, Zenon DEF HoldStands, HeldFor

\* Rows of other owners may change.
LEMMA OthersChange ==
  ASSUME OneActive, NEW o \in Owner \ inherited,
         \A m \in Name : \/ handle'[m] = handle[m]
                         \/ /\ handle[m].id = 0 \/ handle[m].owner # o
                            /\ handle'[m].id = 0 \/ handle'[m].owner # o
  PROVE  /\ \A m, n \in Name : ActiveRow(o, handle'[m]) /\ ActiveRow(o, handle'[n]) => m = n
         /\ \A n \in Name : handle'[n].id # 0 /\ handle'[n].owner = o => \E m \in Name : ActiveRow(o, handle'[m])
<1>1. \A m \in Name : ActiveRow(o, handle'[m]) <=> ActiveRow(o, handle[m])
  BY Zenon DEF ActiveRow
<1> QED
  BY <1>1, Zenon DEF OneActive

\* Every step keeps one row active: a commit of a rename swaps two.
LEMMA OneActiveStep ==
  ASSUME Inv, [Next]_vars
  PROVE  OneActive'
<1> DEFINE One(o) ==
      /\ \A m, n \in Name : ActiveRow(o, handle'[m]) /\ ActiveRow(o, handle'[n]) => m = n
      /\ \A n \in Name : handle'[n].id # 0 /\ handle'[n].owner = o => \E m \in Name : ActiveRow(o, handle'[m])
<1>0. UNCHANGED inherited /\ OneActive
  BY TableStep, Zenon DEF Inv
<1>1. SUFFICES ASSUME NEW o \in Owner \ inherited PROVE One(o)
  BY <1>0, Zenon DEF OneActive, ActiveRow
<1>2. CASE UNCHANGED handle
  BY <1>0, <1>2, OthersChange, Zenon
<1>3. ASSUME NEW u \in Owner, NEW n \in Name, Provision(u, n) PROVE One(o)
  <2>1. /\ handle[n].id = 0 /\ \A m \in Name : ~ActiveRow(u, handle[m])
        /\ handle' = [handle EXCEPT ![n] = FreshRow(u, n)]
    BY <1>3, Provisioned, Zenon
  <2>2. handle'[n] = FreshRow(u, n) /\ \A m \in Name \ {n} : handle'[m] = handle[m]
    BY <2>1, Zenon DEF Inv, Shape
  <2>3. FreshRow(u, n).owner = u /\ FreshRow(u, n).state = "active" /\ FreshRow(u, n).id = nextId /\ nextId # 0
    BY RowFresh DEF Inv, Shape
  <2>4. CASE u = o
    <3>1. ActiveRow(o, handle'[n])
      BY <2>2, <2>3, <2>4, ZenonT(30) DEF ActiveRow
    <3> QED
      BY <2>1, <2>2, <2>4, <3>1, Zenon
  <2>5. CASE u # o
    BY <1>0, <2>1, <2>2, <2>3, <2>5, OthersChange, ZenonT(60)
  <2> QED
    BY <2>4, <2>5, Zenon
<1>4. ASSUME NEW w \in Sweeper, NEW i \in Id, Release(w, i) PROVE One(o)
  <2>1. \A m \in Name : \/ handle'[m] = handle[m]
                        \/ handle'[m] = NoRow /\ handle[m].state = "quarantined"
    BY <1>4, Zenon DEF Release, Expired
  <2>2. \A m \in Name : ActiveRow(o, handle'[m]) <=> ActiveRow(o, handle[m])
    BY <2>1, RowNone, Zenon DEF ActiveRow
  <2>3. \A m \in Name : handle'[m].id # 0 => handle'[m] = handle[m]
    BY <2>1, RowNone, Zenon
  <2> QED
    BY <1>0, <2>2, <2>3, ZenonT(60) DEF OneActive
<1>5. ASSUME NEW r \in Req, CommitRename(r) PROVE One(o)
  <2>1. pc[r] = "commit" /\ r \in Tx /\ Shape
    BY <1>5, Zenon DEF CommitRename, Tx, Inv
  <2>2. /\ DOMAIN pend[r] = {old[r].name, name[r]} /\ old[r].name # name[r]
        /\ old[r].name \in Name /\ name[r] \in Name /\ owner[r] \in Owner
        /\ ActiveRow(owner[r], pend[r][name[r]])
        /\ pend[r][old[r].name].state = "quarantined" /\ pend[r][old[r].name].owner = owner[r]
        /\ \A m \in Name \ {old[r].name, name[r]} : ~ActiveRow(owner[r], handle[m])
    BY <2>1, AtCommit, Zenon
  <2>3. /\ \A m \in DOMAIN pend[r] : handle'[m] = pend[r][m]
        /\ \A m \in Name \ DOMAIN pend[r] : handle'[m] = handle[m]
    BY <1>5, <2>1, Commits, Zenon
  <2>4. CASE owner[r] = o
    <3>1. ActiveRow(o, handle'[name[r]])
      BY <2>2, <2>3, <2>4, Zenon
    <3>2. ~ActiveRow(o, handle'[old[r].name])
      BY <2>2, <2>3, Zenon DEF ActiveRow
    <3>3. \A m \in Name \ {old[r].name, name[r]} : ~ActiveRow(o, handle'[m])
      BY <2>2, <2>3, <2>4, Zenon
    <3> QED
      BY <2>2, <3>1, <3>2, <3>3, Zenon
  <2>5. CASE owner[r] # o
    <3>1. ASSUME NEW m \in DOMAIN pend[r]
          PROVE  (handle[m].id = 0 \/ handle[m].owner # o) /\ handle'[m].owner # o
      <4>1. pend[r][m].owner = owner[r]
        BY <2>2, Zenon DEF ActiveRow
      <4>2. handle[m].id # 0 => pend[r][m].owner = handle[m].owner
        BY <2>1, Zenon DEF Inv, Locks
      <4> QED
        BY <2>3, <2>5, <4>1, <4>2, Zenon
    <3> QED
      BY <1>0, <2>3, <3>1, OthersChange, Zenon
  <2> QED
    BY <2>4, <2>5, Zenon
<1>6. ASSUME NEW p \in Replica, CommitFolds(p) PROVE One(o)
  <2>1. p \in Tx /\ Shape
    BY Zenon DEF Tx, Inv
  <2>2. /\ \A m \in DOMAIN pend[p] : handle'[m] = pend[p][m]
        /\ \A m \in Name \ DOMAIN pend[p] : handle'[m] = handle[m]
    BY <1>6, <2>1, Commits, Zenon
  <2>3. ASSUME NEW m \in Name, m \in DOMAIN pend[p]
        PROVE  (handle[m].id = 0 \/ handle[m].owner # o) /\ handle'[m].owner # o
    <3>1. pend[p][m].owner \in inherited /\ (handle[m].id # 0 => pend[p][m].owner = handle[m].owner)
      BY <2>1, <2>3, Zenon DEF Inv, Locks, Writes
    <3> QED
      BY <2>2, <2>3, <3>1, Zenon
  <2> QED
    BY <1>0, <2>2, <2>3, OthersChange, Zenon
<1>7. ASSUME NEW r \in Req, QuarantineOld(r) \/ Reclaim(r) \/ Register(r) PROVE UNCHANGED handle
  BY <1>7, Zenon DEF QuarantineOld, Reclaim, Register
<1>8. ASSUME NEW p \in Replica, WriteFolds(p) PROVE UNCHANGED handle
  BY <1>8, Zenon DEF WriteFolds
<1>9. Quiet => UNCHANGED handle
  BY Zenon DEF Quiet
<1> HIDE DEF One
<1> QED
  BY <1>2, <1>3, <1>4, <1>5, <1>6, <1>7, <1>8, <1>9, Writers, Zenon

\* The invariant is inductive,
LEMMA InvStep == Inv /\ [Next]_vars => Inv'
<1> SUFFICES ASSUME Inv, [Next]_vars PROVE Inv'
  BY Zenon
<1> QED
  BY ShapeStep, RowsKnownStep, LocksStep, CopiesStep, WritesStep, OneCommitStep, HoldStep,
     OneActiveStep, Zenon DEF Inv

\* A row of the table found has a place in it for its id, and an owner of it.
LEMMA TableRow ==
  ASSUME NEW legacy \in Legacies, NEW n \in Name
  PROVE  \/ Table(legacy)[n] = NoRow
         \/ /\ Table(legacy)[n] \in HandleRow /\ Table(legacy)[n].id \in 1 .. Len(legacy)
            /\ Table(legacy)[n].owner \in Owner
            /\ Table(legacy)[n].owner \in {legacy[i].owner : i \in DOMAIN legacy}
<1>1. /\ legacy \in Seq([name : Name, owner : Owner, state : {"active", "quarantined"}])
      /\ n \in Nat \ {0} /\ QuarantineWindow \in Nat \ {0}
  BY HandlesAssumption, Zenon
<1>2. CASE \E i \in DOMAIN legacy : legacy[i].name = n
  <2> DEFINE i == CHOOSE i \in DOMAIN legacy : legacy[i].name = n
  <2>1. i \in DOMAIN legacy
    BY <1>2, Zenon
  <2>2. Table(legacy)[n] =
          [id |-> i, owner |-> legacy[i].owner, state |-> legacy[i].state,
           until |-> IF legacy[i].state = "active" THEN 0 ELSE QuarantineWindow,
           fold |-> n, current |-> FALSE, flagged |-> FALSE]
    BY <1>2, Zenon DEF Table
  <2> HIDE DEF i
  <2>3. /\ DOMAIN legacy = 1 .. Len(legacy) /\ Len(legacy) \in Nat
        /\ legacy[i] \in [name : Name, owner : Owner, state : {"active", "quarantined"}]
    <3> HIDE HandlesAssumption
    <3> DEFINE R == [name : Name, owner : Owner, state : {"active", "quarantined"}]
    <3>1. legacy \in Seq(R)
      BY <1>1, Zenon
    <3> HIDE DEF R
    <3>2. DOMAIN legacy = 1 .. Len(legacy) /\ Len(legacy) \in Nat /\ legacy[i] \in R
      BY <2>1, <3>1, SMTT(30)
    <3> QED
      BY <3>2, Zenon DEF R
  <2>4. legacy[i].owner \in Owner /\ legacy[i].state \in {"active", "quarantined"}
    BY <2>3, Zenon
  <2>5. Table(legacy)[n] \in HandleRow /\ Table(legacy)[n].id = i
        /\ Table(legacy)[n].owner = legacy[i].owner
    <3>1. i \in Nat /\ n \in Int /\ QuarantineWindow \in Nat
      BY <1>1, <2>1, <2>3, SMTT(30)
    <3> QED
      BY <2>2, <2>4, <3>1, SMTT(30) DEF HandleRow
  <2> QED
    BY <2>1, <2>3, <2>4, <2>5, Zenon
<1>3. CASE ~ \E i \in DOMAIN legacy : legacy[i].name = n
  BY <1>3, Zenon DEF Table
<1> QED
  BY <1>2, <1>3, Zenon

\* and holds of the table found, whichever it is.
LEMMA InvInit == Init => Inv
<1> SUFFICES ASSUME Init PROVE Inv
  BY Zenon
<1>0. PICK legacy \in Legacies : /\ handle = Table(legacy) /\ nextId = Len(legacy) + 1
                                 /\ inherited = {legacy[i].owner : i \in DOMAIN legacy}
  BY Zenon DEF Init
<1>1. /\ now = 0 /\ pend = [p \in Tx |-> <<>>] /\ pc = [p \in Tx \cup Sweeper |-> "idle"]
      /\ owner = [r \in Req |-> None] /\ name = [r \in Req |-> 0]
      /\ start = [r \in Req \cup Sweeper |-> 0] /\ old = [r \in Req |-> NoCopy]
      /\ found = [r \in Req |-> NoCopy] /\ stale = [p \in Replica |-> {}]
      /\ listed = [w \in Sweeper |-> {}] /\ vacated = [n \in Name |-> [owner |-> None, at |-> 0]]
  BY Zenon DEF Init
<1>2. ASSUME NEW n \in Name
      PROVE  /\ handle[n] \in HandleRow
             /\ \/ handle[n].id = 0 /\ handle[n].owner = None
                \/ /\ handle[n].id \in 1 .. Len(legacy)
                   /\ handle[n].owner \in Owner /\ handle[n].owner \in inherited
  BY <1>0, TableRow, RowNone, Zenon
<1>3. Len(legacy) \in Nat
  <2>1. legacy \in Seq([name : Name, owner : Owner, state : {"active", "quarantined"}])
    BY HandlesAssumption, Zenon
  <2> QED
    BY <2>1, SMTT(30)
<1>4. \A p \in Tx : pend[p] = <<>> /\ DOMAIN pend[p] = {}
  <2>1. DOMAIN <<>> = {}
    BY SMTT(30)
  <2> QED
    BY <1>1, <2>1, Zenon
<1>5. \A p \in Tx : pc[p] = "idle" /\ pc[p] \notin Vacating
  BY <1>1, Zenon DEF Vacating
<1>6. \A r \in Req : r \in Tx
  BY Zenon DEF Tx
<1>7. \A p \in Replica : p \in Tx
  BY Zenon DEF Tx
<1>8. Shape
  <2>1. handle = [n \in Name |-> handle[n]]
    BY <1>0, Zenon DEF Table
  <2>2. handle \in [Name -> HandleRow]
    BY <1>2, <2>1, Zenon
  <2>3. NoCopy \in RowCopy /\ 0 \in Nat
    BY Zenon DEF NoCopy, RowCopy
  <2>4. old \in [Req -> RowCopy] /\ found \in [Req -> RowCopy] /\ start \in [Req \cup Sweeper -> Nat]
    BY <1>1, <2>3, Zenon
  <2>5. [owner |-> None, at |-> 0] \in [owner : Owner \cup {None}, at : Nat]
    BY Zenon
  <2>6. vacated \in [Name -> [owner : Owner \cup {None}, at : Nat]]
    BY <1>1, <2>5, Zenon
  <2>7. nextId \in Nat \ {0} /\ now \in Nat
    BY <1>0, <1>1, <1>3, SMTT(30)
  <2>8. DOMAIN pend = Tx /\ DOMAIN pc = Tx \cup Sweeper /\ DOMAIN owner = Req /\ DOMAIN name = Req
        /\ DOMAIN stale = Replica /\ DOMAIN listed = Sweeper
    BY <1>1, Zenon
  <2> QED
    BY <1>4, <1>5, <1>6, <1>7, <2>2, <2>4, <2>6, <2>7, <2>8, Zenon DEF Shape
<1>9. RowsKnown
  <2> SUFFICES ASSUME NEW n \in Name
               PROVE  /\ handle[n].id < nextId
                      /\ handle[n].id # 0 => handle[n].owner \in Owner
                      /\ handle[n].id = 0 => handle[n].owner = None
                      /\ handle[n].id # 0 /\ ~handle[n].current => handle[n].owner \in inherited
    BY Zenon DEF RowsKnown
  <2>1. handle[n].id < nextId /\ (handle[n].id \in 1 .. Len(legacy) => handle[n].id # 0)
    BY <1>0, <1>2, <1>3, SMTT(30)
  <2> QED
    BY <1>2, <2>1, Zenon
<1>10. CopiesKnown /\ Locks /\ OneCommit
  <2>1. CopiesKnown
    <3>1. \A r \in Req : pc[r] # "reclaim"
      BY <1>5, <1>6, Zenon
    <3>2. \A p \in Replica : stale[p] = {}
      BY <1>1, Zenon
    <3> QED
      BY <1>5, <1>6, <3>1, <3>2, Zenon DEF CopiesKnown
  <2>2. Locks
    BY <1>4, Zenon DEF Locks
  <2>3. OneCommit
    BY <1>5, <1>6, Zenon DEF OneCommit
  <2> QED
    BY <2>1, <2>2, <2>3, Zenon
<1>11. Writes
  <2>1. \A r \in Req : pc[r] # "commit"
    BY <1>5, <1>6, Zenon
  <2> QED
    BY <1>4, <1>5, <1>6, <1>7, <2>1, Zenon DEF Writes, WrittenSoFar
<1>12. HoldStands
  <2>1. \A w \in Sweeper : start[w] <= now
    BY <1>1, SMTT(30)
  <2>2. \A n \in Name : vacated[n].owner = None
    BY <1>1, Zenon
  <2> QED
    BY <2>1, <2>2, Zenon DEF HoldStands
<1>13. OneActive
  <2>1. \A o \in Owner \ inherited, n \in Name : ~(handle[n].id # 0 /\ handle[n].owner = o)
    BY <1>2, Zenon
  <2> QED
    BY <2>1, Zenon DEF OneActive, ActiveRow
<1> QED
  BY <1>8, <1>9, <1>10, <1>11, <1>12, <1>13, Zenon DEF Inv

\* The invariant says what ExactlyOneActive says.
LEMMA OneIsExactlyOne == Inv => ExactlyOneActive
<1> SUFFICES ASSUME Inv, NEW o \in Owner \ inherited, HeldBy(handle, o) # {}
             PROVE  \E n \in Name : ActiveOf(handle, o) = {n}
  BY Zenon DEF ExactlyOneActive
<1>1. PICK n \in Name : handle[n].id # 0 /\ handle[n].owner = o
  BY Zenon DEF HeldBy
<1>2. PICK m \in Name : ActiveRow(o, handle[m])
  BY <1>1, Zenon DEF Inv, OneActive
<1>3. \A k \in Name : ActiveRow(o, handle[k]) => k = m
  BY <1>2, Zenon DEF Inv, OneActive
<1>4. ActiveOf(handle, o) = {m}
  BY <1>2, <1>3, Zenon DEF ActiveOf, HeldBy, ActiveRow
<1> QED
  BY <1>4, Zenon

\* ProvisionOwner and Rename, on either engine, for any owners, names, requests
\* and replicas: an owner who was not in the table found has exactly one active
\* handle from the moment they have any.
THEOREM OwnersKeepAName == Spec => []ExactlyOneActive
<1>1. Spec => []Inv
  BY InvInit, InvStep, PTL DEF Spec
<1> QED
  BY <1>1, OneIsExactlyOne, PTL

\* Rename, Release, Register: no step gives a name to another owner before the
\* window of the rename that vacated it is over.
THEOREM HoldIsKept == Spec => HoldProtectsName
<1> DEFINE Keeps ==
      \A n \in Name :
        handle'[n].id # 0 /\ vacated[n].owner \notin {None, handle'[n].owner}
          /\ handle'[n].owner # handle[n].owner
        => now >= vacated[n].at + QuarantineWindow
<1>1. Inv /\ [Next]_vars => Keeps
  <2> SUFFICES ASSUME Inv, [Next]_vars, NEW n \in Name, handle'[n].id # 0,
                      vacated[n].owner # None, vacated[n].owner # handle'[n].owner,
                      handle'[n].owner # handle[n].owner
               PROVE  now >= vacated[n].at + QuarantineWindow
    BY Zenon
  <2>1. handle[n].owner # vacated[n].owner => now >= vacated[n].at + QuarantineWindow
    BY Zenon DEF Inv, HoldStands
  <2>2. handle[n].id = 0 => handle[n].owner = None
    BY Zenon DEF Inv, RowsKnown
  <2>3. handle[n].id = 0
    <3>1. RowStep(n)
      BY StepMoves, Zenon DEF RowsMove
    <3>2. \A p \in Tx : n \in DOMAIN pend[p] /\ handle[n].id # 0 => pend[p][n].owner = handle[n].owner
      BY Zenon DEF Inv, Locks
    <3> QED
      BY <3>1, <3>2, RowNone, Zenon DEF RowStep
  <2> QED
    BY <2>1, <2>2, <2>3, Zenon
<1>2. Spec => []Inv
  BY InvInit, InvStep, PTL DEF Spec
<1>3. Inv /\ [Next]_vars => [Keeps]_vars
  BY <1>1, Zenon
<1> HIDE DEF Keeps
<1>4. Spec => [][Keeps]_vars
  BY <1>2, <1>3, PTL DEF Spec
<1> QED
  BY <1>4, Zenon DEF HoldProtectsName, Keeps
=================================================================================
