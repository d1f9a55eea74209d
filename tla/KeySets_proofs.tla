----------------------------- MODULE KeySets_proofs -----------------------------
(***************************************************************************)
(* The owner's sets stay intact for every number of requests, sets and     *)
(* names: on SQLite under every operation, on Postgres under the ones that *)
(* lock the owner or read nothing they write back.                         *)
(*                                                                         *)
(* The property speaks of committed rows; the invariant adds what each     *)
(* transaction in flight has written so far (Written), what it remembers   *)
(* of the row it read (Knows), and that whoever is about to write a        *)
(* default holds the owner's row, or the whole database (Locks), so that   *)
(* beside one such transaction only deletions of other rows commit.        *)
(***************************************************************************)
EXTENDS KeySets, TLAPS

(***************************************************************************)
(* The invariant.                                                          *)
(***************************************************************************)
\* Where a transaction is open; where it may hold the owner's row; where it has
\* drawn an id.
Locking == {"count", "insert", "copy", "update", "select", "clear", "mark", "commit"}
Inserted == {"copy", "update", "select", "clear", "mark", "commit"}
Reading == {"get", "lock", "members", "check", "remove"}
Stage == {"idle", "emit"} \cup Reading \cup Locking
Busy(p) == pc[p] \notin {"idle", "emit"}

Kind == {"create", "rename", "delete", "default", "visibility"}

\* What the statements are statements of.
Serves(stage, kind) ==
  /\ stage = "get" => kind # "create"
  /\ stage \in {"lock", "count", "insert"} => kind \in {"create", "rename"}
  /\ stage = "copy" => kind = "rename"
  /\ stage = "update" => kind \in {"rename", "visibility"}
  /\ stage \in {"select", "clear", "mark"} => kind \in {"rename", "default"}
  /\ stage \in {"members", "check", "remove"} => kind = "delete"

KeySetRow ==
  [name : Name, vis : Visibility, def : BOOLEAN, state : {"active", "quarantined"},
   until : Nat, root : Nat, keys : BOOLEAN]

\* Each variable is of its type.
Shape ==
  /\ now \in Nat
  /\ nextId \in 3 .. MaxId + 1
  /\ wanted \in [1 .. MaxId -> Visibility]
  /\ pc \in [Req -> Stage]
  /\ DOMAIN op = Req /\ DOMAIN old = Req /\ DOMAIN new = Req
  /\ DOMAIN pend = Req /\ DOMAIN snap = Req

\* A request asks for something; on Postgres not for a default or a visibility.
Asked(p) ==
  Busy(p) =>
    /\ op[p].kind \in Kind
    /\ Serves(pc[p], op[p].kind)
    /\ op[p].id \in 0 .. nextId - 1
    /\ op[p].at \in Nat
    /\ op[p].kind \in {"create", "rename"} => op[p].arg \in Name
    /\ op[p].kind = "visibility" => op[p].arg \in Visibility
    /\ op[p].kind \in {"default", "visibility"} => Serialized

\* A row of a set the owner started with has members.
Member(row) == row.root \in {1, 2} => row.keys

\* A row is no more visible than the owner asked.
Allowed(row) == row.vis = "public" => wanted[row.root] = "public"

RowKnown(row) == row \in KeySetRow /\ row.root \in 1 .. nextId - 1 /\ Member(row)

\* The committed rows.
RowsKnown ==
  \A i \in DOMAIN sets :
    /\ i \in 1 .. nextId - 1
    /\ RowKnown(sets[i])
    /\ sets[i].state = "active" => Allowed(sets[i])

OneDefault ==
  \E d \in DOMAIN sets :
    /\ sets[d].def /\ sets[d].state = "active"
    /\ \A i \in DOMAIN sets : sets[i].def => i = d

\* A set has one active row where a rename reads and writes without a break.
DistinctRoots ==
  Serialized =>
    \A i, j \in DOMAIN sets :
      sets[i].state = "active" /\ sets[j].state = "active" /\ sets[i].root = sets[j].root => i = j

\* Nobody has chosen a visibility for a set that is not there.
Unchosen == \A i \in nextId .. MaxId : wanted[i] = "protected"

\* A transaction that has drawn an id or can write defaults holds the owner's row;
\* a row is written by one transaction at a time.
Locks ==
  /\ \A p \in Req : ~Busy(p) => DOMAIN pend[p] = {} /\ owner # p
  /\ \A p \in Req : DOMAIN pend[p] \subseteq 1 .. nextId - 1
  /\ \A p, q \in Req : p # q => DOMAIN pend[p] \cap DOMAIN pend[q] = {}
  /\ \A p \in Req : pc[p] \in Locking /\ op[p].kind \in {"create", "rename"} => owner = p
  /\ Serialized => \A p, q \in Req : Busy(p) /\ Busy(q) => p = q

\* A request that has read the row it is about.
HasRead(p) == Busy(p) /\ pc[p] # "get" /\ op[p].kind # "create"

\* What a request remembers of its row is true of it still: exactly on SQLite, and
\* on Postgres for what does not change or changes one way.
Knows(p) ==
  HasRead(p) =>
    /\ RowKnown(old[p]) /\ old[p].state = "active" /\ Allowed(old[p])
    /\ op[p].id \in DOMAIN sets =>
         sets[op[p].id].root = old[p].root /\ (sets[op[p].id].def => old[p].def)
    /\ Serialized => op[p].id \in DOMAIN sets /\ sets[op[p].id] = old[p]

\* A request has drawn an id.
HasDrawn(p) == pc[p] \in Inserted /\ op[p].kind \in {"create", "rename"}

\* The id a request has drawn is nobody's row.
Drawn ==
  \A p \in Req : HasDrawn(p) =>
    /\ new[p] \in 3 .. nextId - 1
    /\ new[p] \notin DOMAIN sets
    /\ \A q \in Req : HasRead(q) => op[q].id # new[p]

\* Uncommitted row j of p is the committed one but for the default flag.
Same(p, j) ==
  /\ j \in DOMAIN sets
  /\ pend[p][j].vis = sets[j].vis /\ pend[p][j].state = sets[j].state
  /\ pend[p][j].root = sets[j].root /\ pend[p][j].keys = sets[j].keys

Default(i) == i \in DOMAIN sets /\ sets[i].def

\* The new row of a rename continues the old one.
Continues(p) ==
  /\ pend[p][new[p]].state = "active"
  /\ pend[p][new[p]].vis = old[p].vis
  /\ pend[p][new[p]].root = old[p].root

\* What a rename has written when it has updated the old row.
Replaces(p) ==
  /\ {new[p], op[p].id} \subseteq DOMAIN pend[p]
  /\ op[p].id \in DOMAIN sets
  /\ Continues(p)
  /\ Member(pend[p][new[p]])
  /\ pend[p][op[p].id].state = "quarantined"
  /\ pend[p][op[p].id].root = old[p].root
  /\ Member(pend[p][op[p].id])
  /\ \A j \in DOMAIN pend[p] \ {new[p], op[p].id} : Same(p, j)

RenameWrites(p) ==
  /\ pc[p] \in {"copy", "update"} =>
       DOMAIN pend[p] = {new[p]} /\ Continues(p) /\ ~pend[p][new[p]].def
  /\ pc[p] = "update" /\ op[p].id \in DOMAIN sets => Member(pend[p][new[p]])
  /\ pc[p] \in {"select", "clear", "mark", "commit"} => Replaces(p)
  /\ pc[p] \in {"select", "clear"} =>
       /\ DOMAIN pend[p] = {new[p], op[p].id}
       /\ ~pend[p][new[p]].def
       /\ pend[p][op[p].id].def = sets[op[p].id].def

CreateWrites(p) ==
  pc[p] = "commit" =>
    /\ DOMAIN pend[p] = {new[p]}
    /\ pend[p][new[p]].vis = "protected" /\ pend[p][new[p]].root = new[p]
    /\ wanted[new[p]] = "protected"
    /\ Serialized => \A j \in DOMAIN sets : sets[j].root # new[p]

DefaultWrites(p) ==
  /\ pc[p] \in {"select", "clear"} => DOMAIN pend[p] = {}
  /\ \A j \in DOMAIN pend[p] : Same(p, j)

VisibilityWrites(p) ==
  /\ pc[p] = "update" => DOMAIN pend[p] = {}
  /\ pc[p] = "commit" =>
       /\ DOMAIN pend[p] = {op[p].id}
       /\ pend[p][op[p].id].vis = op[p].arg
       /\ pend[p][op[p].id].root = old[p].root
       /\ Member(pend[p][op[p].id])

DeleteWrites(p) ==
  /\ pc[p] \in {"remove", "commit"} => ~Default(op[p].id)
  /\ pc[p] = "commit" => DOMAIN pend[p] = {op[p].id} /\ pend[p][op[p].id] = Gone

\* The commit of p leaves the default where it is, or moves it to m.
Keeps(p) ==
  \A j \in DOMAIN pend[p] :
    /\ pend[p][j].def <=> Default(j)
    /\ pend[p][j].def => pend[p][j].state = "active"

Moves(p, m) ==
  /\ m \in DOMAIN pend[p] /\ pend[p][m].def /\ pend[p][m].state = "active"
  /\ \A j \in DOMAIN pend[p] \ {m} : ~pend[p][j].def
  /\ \A d \in DOMAIN sets : sets[d].def => d \in DOMAIN pend[p]

Marked(p) == IF op[p].kind = "rename" THEN new[p] ELSE op[p].id

\* What the flags of the uncommitted rows are on the way to a new default.
Flags(p) ==
  /\ pc[p] = "clear" => snap[p] = {i \in DOMAIN sets : sets[i].def}
  /\ pc[p] = "mark" =>
       /\ \A j \in DOMAIN pend[p] : ~pend[p][j].def
       /\ \A d \in DOMAIN sets : sets[d].def => d \in DOMAIN pend[p]
  /\ pc[p] = "commit" => Keeps(p) \/ (op[p].kind \in {"rename", "default"} /\ Moves(p, Marked(p)))

\* What a transaction has written, by the statement it has reached.
Written(p) ==
  /\ pc[p] \in Reading \cup {"count", "insert"} => DOMAIN pend[p] = {}
  /\ Busy(p) /\ op[p].kind # "delete" =>
       /\ \A j \in DOMAIN pend[p] : pend[p][j] \in KeySetRow
       /\ Flags(p)
  /\ Busy(p) /\ op[p].kind = "rename" => RenameWrites(p)
  /\ Busy(p) /\ op[p].kind = "create" => CreateWrites(p)
  /\ Busy(p) /\ op[p].kind = "default" => DefaultWrites(p)
  /\ Busy(p) /\ op[p].kind = "visibility" => VisibilityWrites(p)
  /\ Busy(p) /\ op[p].kind = "delete" => DeleteWrites(p)

Table == RowsKnown /\ OneDefault /\ DistinctRoots /\ Unchosen
Local(p) == Asked(p) /\ Knows(p) /\ Written(p)
Inv == Shape /\ Table /\ Locks /\ Drawn /\ \A p \in Req : Local(p)

(***************************************************************************)
(* What a step of p leaves alone.                                          *)
(***************************************************************************)
Only(p) ==
  \A q \in Req \ {p} :
    /\ pc'[q] = pc[q] /\ op'[q] = op[q] /\ old'[q] = old[q]
    /\ new'[q] = new[q] /\ pend'[q] = pend[q] /\ snap'[q] = snap[q]

\* Nothing is committed.
Quiet == sets' = sets /\ wanted' = wanted /\ nextId' \in {nextId, nextId + 1}

\* The locks of the others are not touched, and p takes none that is taken.
LockStep(p) ==
  /\ ~Busy(p)' => DOMAIN pend'[p] = {} /\ owner' # p
  /\ DOMAIN pend'[p] \subseteq 1 .. nextId' - 1
  /\ \A q \in Req \ {p} : DOMAIN pend'[p] \cap DOMAIN pend[q] = {}
  /\ pc'[p] \in Locking /\ op'[p].kind \in {"create", "rename"} => owner' = p
  /\ \/ owner' = owner
     \/ owner' = p /\ owner = None
     \/ owner = p /\ owner' = None
  /\ Serialized /\ Busy(p)' => \A q \in Req \ {p} : ~Busy(q)

DrawStep(p) ==
  /\ HasDrawn(p)' => /\ new'[p] \in 3 .. nextId' - 1
                     /\ new'[p] \notin DOMAIN sets'
                     /\ \A q \in Req : HasRead(q)' => op'[q].id # new'[p]
  /\ HasRead(p)' => \A q \in Req \ {p} : HasDrawn(q) => op'[p].id # new[q]

\* Ids only grow.
LEMMA IdsGrow ==
  ASSUME Shape, nextId' \in {nextId, nextId + 1}
  PROVE  /\ nextId \in Nat /\ nextId >= 3 /\ nextId <= MaxId + 1 /\ MaxId \in Nat
         /\ nextId' \in Nat /\ nextId' >= nextId
         /\ 1 .. nextId - 1 \subseteq 1 .. nextId' - 1
         /\ 3 .. nextId - 1 \subseteq 3 .. nextId' - 1
         /\ 0 .. nextId - 1 \subseteq 0 .. nextId' - 1
<1>1. MaxId \in Nat
  BY KeySetsAssumptions, Zenon
<1>2. nextId \in Nat /\ nextId >= 3 /\ nextId <= MaxId + 1
  BY <1>1, SMT DEF Shape
<1>3. nextId' \in Nat /\ nextId' >= nextId
  BY <1>2, SMT
<1>4. \A m \in Nat : m >= nextId => /\ 0 .. nextId - 1 \subseteq 0 .. m - 1
                                  /\ 1 .. nextId - 1 \subseteq 1 .. m - 1
                                  /\ 3 .. nextId - 1 \subseteq 3 .. m - 1
  BY <1>2, SMT
<1> QED
  BY <1>1, <1>2, <1>3, <1>4, Zenon

\* The locks are kept when one request moves by LockStep.
LEMMA LocksKept ==
  ASSUME NEW p \in Req, Shape, Locks, Only(p), nextId' \in {nextId, nextId + 1}, LockStep(p)
  PROVE  Locks'
<1>1. 1 .. nextId - 1 \subseteq 1 .. nextId' - 1
  BY IdsGrow, Zenon
<1>2. \A q \in Req \ {p} : (Busy(q)' <=> Busy(q)) /\ pend'[q] = pend[q] /\ pc'[q] = pc[q] /\ op'[q] = op[q]
  BY Zenon DEF Only, Busy
<1>3. (\A q \in Req : ~Busy(q) => DOMAIN pend[q] = {} /\ owner # q)'
  <2> SUFFICES ASSUME NEW q \in Req, ~Busy(q)' PROVE DOMAIN pend'[q] = {} /\ owner' # q
    BY Zenon
  <2>1. CASE q = p
    BY <2>1, Zenon DEF LockStep
  <2>2. CASE q # p
    <3>1. ~Busy(q) /\ pend'[q] = pend[q]
      BY <1>2, <2>2, Zenon
    <3> QED
      BY <3>1, <2>2, KeySetsAssumptions, Zenon DEF Locks, LockStep
  <2> QED
    BY <2>1, <2>2, Zenon
<1>4. (\A q \in Req : DOMAIN pend[q] \subseteq 1 .. nextId - 1)'
  BY <1>1, <1>2, Zenon DEF Locks, LockStep
<1>5. (\A q, r \in Req : q # r => DOMAIN pend[q] \cap DOMAIN pend[r] = {})'
  <2> SUFFICES ASSUME NEW q \in Req, NEW r \in Req, q # r PROVE DOMAIN pend'[q] \cap DOMAIN pend'[r] = {}
    BY Zenon
  <2>1. CASE q = p
    BY <2>1, <1>2, SMT DEF LockStep
  <2>2. CASE r = p
    BY <2>2, <1>2, Zenon DEF LockStep
  <2>3. CASE q # p /\ r # p
    BY <2>3, <1>2, Zenon DEF Locks
  <2> QED
    BY <2>1, <2>2, <2>3, Zenon
<1>6. (\A q \in Req : pc[q] \in Locking /\ op[q].kind \in {"create", "rename"} => owner = q)'
  <2> SUFFICES ASSUME NEW q \in Req, pc'[q] \in Locking, op'[q].kind \in {"create", "rename"}
               PROVE  owner' = q
    BY Zenon
  <2>1. CASE q = p
    BY <2>1, Zenon DEF LockStep
  <2>2. CASE q # p
    <3>1. owner = q
      BY <1>2, <2>2, Zenon DEF Locks
    <3> QED
      BY <3>1, <2>2, KeySetsAssumptions, Zenon DEF LockStep
  <2> QED
    BY <2>1, <2>2, Zenon
<1>7. (Serialized => \A q, r \in Req : Busy(q) /\ Busy(r) => q = r)'
  BY <1>2, Zenon DEF Locks, LockStep
<1> QED
  BY <1>3, <1>4, <1>5, <1>6, <1>7, Zenon DEF Locks

\* So are the drawn ids when nothing is committed and p moves by DrawStep.
LEMMA DrawnKept ==
  ASSUME NEW p \in Req, Shape, Drawn, Only(p), Quiet, DrawStep(p)
  PROVE  Drawn'
<1>1. \A q \in Req \ {p} : (HasDrawn(q)' <=> HasDrawn(q)) /\ (HasRead(q)' <=> HasRead(q))
  BY Zenon DEF Only, HasDrawn, HasRead, Busy
<1>2. \A q \in Req \ {p} : new'[q] = new[q] /\ op'[q] = op[q]
  BY Zenon DEF Only
<1>3. 3 .. nextId - 1 \subseteq 3 .. nextId' - 1 /\ sets' = sets
  BY IdsGrow, Zenon DEF Quiet
<1> SUFFICES ASSUME NEW q \in Req, HasDrawn(q)'
             PROVE  /\ new'[q] \in 3 .. nextId' - 1 /\ new'[q] \notin DOMAIN sets'
                    /\ \A r \in Req : HasRead(r)' => op'[r].id # new'[q]
  BY Zenon DEF Drawn
<1>4. CASE q = p
  BY <1>4, Zenon DEF DrawStep
<1>5. CASE q # p
  <2>1. HasDrawn(q) /\ new'[q] = new[q]
    BY <1>1, <1>2, <1>5, Zenon
  <2>2. new[q] \in 3 .. nextId - 1 /\ new[q] \notin DOMAIN sets
    BY <2>1, Zenon DEF Drawn
  <2>3. ASSUME NEW r \in Req, HasRead(r)' PROVE op'[r].id # new[q]
    <3>1. CASE r = p
      BY <2>3, <2>1, <1>5, <3>1, Zenon DEF DrawStep
    <3>2. CASE r # p
      BY <2>3, <2>1, <1>1, <1>2, <3>2, Zenon DEF Drawn
    <3> QED
      BY <3>1, <3>2, Zenon
  <2> QED
    BY <2>1, <2>2, <2>3, <1>3, Zenon
<1> QED
  BY <1>4, <1>5, Zenon

\* A request that asks for the same and has read and drawn nothing new.
LEMMA SameDraw ==
  ASSUME NEW p \in Req, Drawn, Only(p), Quiet,
         HasRead(p)' => HasRead(p), HasDrawn(p)' => HasDrawn(p),
         Busy(p)' => op'[p] = op[p] /\ new'[p] = new[p],
         Shape
  PROVE  DrawStep(p)
<1>1. \A q \in Req \ {p} : (HasRead(q)' <=> HasRead(q)) /\ op'[q] = op[q]
  BY Zenon DEF Only, HasRead, Busy
<1>2. 3 .. nextId - 1 \subseteq 3 .. nextId' - 1 /\ sets' = sets
  BY IdsGrow, Zenon DEF Quiet
<1>3. (HasDrawn(p)' => Busy(p)') /\ (HasRead(p)' => Busy(p)')
  BY Zenon DEF HasDrawn, HasRead, Busy, Inserted
<1>4. ASSUME HasDrawn(p)'
      PROVE  /\ new'[p] \in 3 .. nextId' - 1 /\ new'[p] \notin DOMAIN sets'
             /\ \A q \in Req : HasRead(q)' => op'[q].id # new'[p]
  <2>1. HasDrawn(p) /\ new'[p] = new[p] /\ op'[p] = op[p]
    BY <1>3, <1>4, Zenon
  <2>2. new[p] \in 3 .. nextId - 1 /\ new[p] \notin DOMAIN sets
    BY <2>1, Zenon DEF Drawn
  <2>3. \A q \in Req : HasRead(q)' => op'[q].id # new[p]
    BY <2>1, <1>1, Zenon DEF Drawn
  <2> QED
    BY <2>1, <2>2, <2>3, <1>2, Zenon
<1>5. ASSUME HasRead(p)', NEW q \in Req \ {p}, HasDrawn(q) PROVE op'[p].id # new[q]
  BY <1>5, <1>3, Zenon DEF Drawn
<1> QED
  BY <1>4, <1>5, Zenon DEF DrawStep

\* A request in no transaction knows and has written nothing.
LEMMA RestingLocal ==
  ASSUME NEW q \in Req, ~Busy(q)'
  PROVE  Local(q)'
<1>1. pc'[q] \notin Reading \cup {"count", "insert"}
  BY Zenon DEF Busy, Reading
<1> QED
  BY <1>1, Zenon DEF Local, Asked, Knows, HasRead, Written

\* What a request knows stays true while nobody commits, whoever else moves.
LEMMA OthersKept ==
  ASSUME NEW p \in Req, NEW q \in Req \ {p}, Shape, Only(p), Quiet, Local(q)
  PROVE  Local(q)'
<1>1. /\ pc'[q] = pc[q] /\ op'[q] = op[q] /\ old'[q] = old[q]
      /\ new'[q] = new[q] /\ pend'[q] = pend[q] /\ snap'[q] = snap[q]
  BY Zenon DEF Only
<1>2. sets' = sets /\ wanted' = wanted
  BY Zenon DEF Quiet
<1>3. 1 .. nextId - 1 \subseteq 1 .. nextId' - 1 /\ 0 .. nextId - 1 \subseteq 0 .. nextId' - 1
  BY IdsGrow, Zenon DEF Quiet
<1>4. Asked(q)'
  BY <1>1, <1>3, Zenon DEF Local, Asked, Busy
<1>5. Knows(q)'
  <2>1. RowKnown(old[q]) => RowKnown(old[q])'
    BY <1>1, <1>3, Zenon DEF RowKnown
  <2>2. Allowed(old[q]) => Allowed(old[q])'
    BY <1>1, <1>2, Zenon DEF Allowed
  <2> QED
    BY <1>1, <1>2, <2>1, <2>2, Zenon DEF Local, Knows, HasRead, Busy
<1>6. Flags(q) => Flags(q)'
  BY <1>1, <1>2, ZenonT(60) DEF Flags, Keeps, Moves, Marked, Default
<1>7. RenameWrites(q) => RenameWrites(q)'
  <2>1. Replaces(q) <=> Replaces(q)'
    BY <1>1, <1>2, SMT DEF Replaces, Continues, Same, Member
  <2> QED
    BY <1>1, <1>2, <2>1, Zenon DEF RenameWrites, Continues, Member
<1>8. CreateWrites(q) => CreateWrites(q)'
  BY <1>1, <1>2, Zenon DEF CreateWrites
<1>9. DefaultWrites(q) => DefaultWrites(q)'
  BY <1>1, <1>2, ZenonT(60) DEF DefaultWrites, Same
<1>10. VisibilityWrites(q) => VisibilityWrites(q)'
  BY <1>1, <1>2, Zenon DEF VisibilityWrites
<1>11. DeleteWrites(q) => DeleteWrites(q)'
  BY <1>1, <1>2, Zenon DEF DeleteWrites, Default
<1>12. Written(q)'
  BY <1>1, <1>6, <1>7, <1>8, <1>9, <1>10, <1>11, Zenon DEF Local, Written, Busy
<1> QED
  BY <1>4, <1>5, <1>12, Zenon DEF Local

\* The table is as it was while nobody commits.
LEMMA TableKept ==
  ASSUME Shape, Table, Quiet
  PROVE  Table'
<1>1. sets' = sets /\ wanted' = wanted
  BY Zenon DEF Quiet
<1>2. 1 .. nextId - 1 \subseteq 1 .. nextId' - 1
  BY IdsGrow, Zenon DEF Quiet
<1>3. RowsKnown'
  BY <1>1, <1>2, Zenon DEF Table, RowsKnown, RowKnown, Allowed
<1>4. nextId' .. MaxId \subseteq nextId .. MaxId
  <2>1. nextId \in Nat /\ MaxId \in Nat
    BY IdsGrow, Zenon DEF Quiet
  <2>2. \A m \in Nat : m >= nextId => m .. MaxId \subseteq nextId .. MaxId
    BY <2>1, SMT
  <2> QED
    BY <2>2, IdsGrow, Zenon DEF Quiet
<1>5. Unchosen'
  BY <1>1, <1>4, Zenon DEF Table, Unchosen
<1> QED
  BY <1>1, <1>3, <1>5, Zenon DEF Table, OneDefault, DistinctRoots

\* The fields of a row.
LEMMA RowFields ==
  ASSUME NEW row \in KeySetRow
  PROVE  row.state \in {"active", "quarantined"} /\ row.state # "gone" /\ row.def \in BOOLEAN
BY Zenon DEF KeySetRow

\* A row with another flag (Flagged).
LEMMA FlaggedFields ==
  ASSUME NEW row \in KeySetRow, NEW b
  PROVE  /\ b \in BOOLEAN => Flagged(row, b) \in KeySetRow
         /\ Flagged(row, b).def = b
         /\ Flagged(row, b).state = row.state /\ Flagged(row, b).vis = row.vis
         /\ Flagged(row, b).root = row.root /\ Flagged(row, b).keys = row.keys
BY Zenon DEF KeySetRow, Flagged

\* The row the first statement of SetDefault writes.
LEMMA RowCleared ==
  ASSUME NEW row \in KeySetRow, NEW r, r = Flagged(row, FALSE)
  PROVE  /\ r \in KeySetRow /\ ~r.def
         /\ r.state = row.state /\ r.vis = row.vis /\ r.root = row.root /\ r.keys = row.keys
<1>1. ASSUME NEW b, b = FALSE
      PROVE  /\ Flagged(row, b) \in KeySetRow /\ ~Flagged(row, b).def
             /\ Flagged(row, b).state = row.state /\ Flagged(row, b).vis = row.vis
             /\ Flagged(row, b).root = row.root /\ Flagged(row, b).keys = row.keys
  BY <1>1, FlaggedFields, Zenon
<1>2. /\ Flagged(row, FALSE) \in KeySetRow /\ ~Flagged(row, FALSE).def
      /\ Flagged(row, FALSE).state = row.state /\ Flagged(row, FALSE).vis = row.vis
      /\ Flagged(row, FALSE).root = row.root /\ Flagged(row, FALSE).keys = row.keys
  BY <1>1, Zenon
<1> QED
  BY <1>2, Zenon

\* The row the second one writes.
LEMMA RowMarked ==
  ASSUME NEW row \in KeySetRow, NEW r, r = Flagged(row, TRUE)
  PROVE  /\ r \in KeySetRow /\ r.def
         /\ r.state = row.state /\ r.vis = row.vis /\ r.root = row.root /\ r.keys = row.keys
<1>1. ASSUME NEW b, b = TRUE
      PROVE  /\ Flagged(row, b) \in KeySetRow /\ Flagged(row, b).def
             /\ Flagged(row, b).state = row.state /\ Flagged(row, b).vis = row.vis
             /\ Flagged(row, b).root = row.root /\ Flagged(row, b).keys = row.keys
  BY <1>1, FlaggedFields, Zenon
<1>2. /\ Flagged(row, TRUE) \in KeySetRow /\ Flagged(row, TRUE).def
      /\ Flagged(row, TRUE).state = row.state /\ Flagged(row, TRUE).vis = row.vis
      /\ Flagged(row, TRUE).root = row.root /\ Flagged(row, TRUE).keys = row.keys
  BY <1>1, Zenon
<1> QED
  BY <1>2, Zenon

\* The row a change of visibility writes (Updated).
LEMMA RowPublished ==
  ASSUME NEW row \in KeySetRow, NEW vis \in Visibility, NEW r, r = [row EXCEPT !.vis = vis]
  PROVE  r \in KeySetRow /\ r.root = row.root /\ r.keys = row.keys /\ r.state = row.state /\ r.vis = vis
BY Zenon DEF KeySetRow

\* A request that deletes nothing sees its own rows over the committed ones.
LEMMA SeenIs ==
  ASSUME NEW p \in Req, RowsKnown, \A j \in DOMAIN pend[p] : pend[p][j] \in KeySetRow
  PROVE  /\ DOMAIN Seen(p) = DOMAIN pend[p] \cup DOMAIN sets
         /\ \A j \in DOMAIN pend[p] : Seen(p)[j] = pend[p][j]
         /\ \A j \in DOMAIN sets \ DOMAIN pend[p] : Seen(p)[j] = sets[j]
         /\ \A j \in DOMAIN Seen(p) : Seen(p)[j] \in KeySetRow
<1> DEFINE all == Overlay(pend[p], sets)
<1>1. /\ DOMAIN all = DOMAIN pend[p] \cup DOMAIN sets
      /\ \A j \in DOMAIN pend[p] : all[j] = pend[p][j]
      /\ \A j \in DOMAIN sets \ DOMAIN pend[p] : all[j] = sets[j]
  BY Zenon DEF Overlay
<1>2. \A j \in DOMAIN all : all[j] \in KeySetRow
  BY <1>1, Zenon DEF RowsKnown, RowKnown
<1>3. \A j \in DOMAIN all : all[j].state # "gone"
  BY <1>2, RowFields, Zenon
<1> HIDE DEF all
<1>4. {j \in DOMAIN all : all[j].state # "gone"} = DOMAIN all
  BY <1>3, Zenon
<1>5. Seen(p) = [i \in DOMAIN all |-> all[i]]
  BY <1>4, Zenon DEF Seen, all
<1> QED
  BY <1>1, <1>2, <1>5, Zenon

\* What a write leaves of the uncommitted rows.
LEMMA WriteIs ==
  ASSUME NEW p \in Req, Shape, NEW i, NEW row, Write(p, i, row)
  PROVE  /\ DOMAIN pend'[p] = DOMAIN pend[p] \cup {i}
         /\ pend'[p][i] = row
         /\ \A j \in DOMAIN pend[p] \ {i} : pend'[p][j] = pend[p][j]
         /\ DOMAIN pend' = Req
         /\ \A q \in Req \ {p} : pend'[q] = pend[q]
<1>1. pend'[p] = Overlay([j \in {i} |-> row], pend[p])
  BY Zenon DEF Write, Shape
<1>2. DOMAIN pend' = Req /\ \A q \in Req \ {p} : pend'[q] = pend[q]
  BY Zenon DEF Write, Shape
<1> QED
  BY <1>1, <1>2, Zenon DEF Overlay

(***************************************************************************)
(* Steps that commit nothing.                                              *)
(***************************************************************************)
Sound(p) == Shape' /\ Only(p) /\ Quiet /\ LockStep(p) /\ DrawStep(p) /\ Local(p)'

\* A sound step of one request keeps the invariant.
LEMMA SoundStep ==
  ASSUME NEW p \in Req, Inv, Sound(p)
  PROVE  Inv'
<1>1. Table' /\ Locks' /\ Drawn'
  BY TableKept, LocksKept, DrawnKept, Zenon DEF Inv, Sound, Quiet
<1>2. ASSUME NEW q \in Req \ {p} PROVE Local(q)'
  BY <1>2, OthersKept, Zenon DEF Inv, Sound
<1> QED
  BY <1>1, <1>2, Zenon DEF Inv, Sound

\* A refusal ends the transaction and gives back what it held (Refused).
LEMMA RefusedSound ==
  ASSUME NEW p \in Req, Inv, Refused(p), now' = now, nextId' = nextId, wanted' = wanted
  PROVE  Sound(p)
<1>1. /\ pc' = [pc EXCEPT ![p] = "idle"] /\ op' = [op EXCEPT ![p] = None]
      /\ old' = [old EXCEPT ![p] = Gone] /\ new' = [new EXCEPT ![p] = 0]
      /\ snap' = [snap EXCEPT ![p] = {}] /\ pend' = [pend EXCEPT ![p] = Empty]
      /\ owner' = IF owner = p THEN None ELSE owner
      /\ sets' = sets
  BY Zenon DEF Refused, Return, Goto
<1>2. Shape
  BY Zenon DEF Inv
<1>3. Shape'
  BY <1>1, <1>2, Zenon DEF Shape, Stage
<1>4. Only(p)
  BY <1>1, <1>2, Zenon DEF Shape, Only
<1>5. Quiet
  BY <1>1, Zenon DEF Quiet
<1>6. pc'[p] = "idle" /\ DOMAIN pend'[p] = {}
  BY <1>1, <1>2, Zenon DEF Shape, Empty
<1>7. ~Busy(p)'
  BY <1>6, Zenon DEF Busy
<1>8. LockStep(p)
  <2>1. pc'[p] \notin Locking
    BY <1>6, Zenon DEF Locking
  <2>2. owner' # p
    BY <1>1, KeySetsAssumptions, Zenon
  <2> QED
    BY <2>1, <2>2, <1>1, <1>6, <1>7, Zenon DEF LockStep
<1>9. DrawStep(p)
  BY <1>6, <1>7, Zenon DEF DrawStep, HasRead, HasDrawn, Inserted
<1>10. Local(p)'
  BY <1>7, RestingLocal, Zenon
<1> QED
  BY <1>3, <1>4, <1>5, <1>8, <1>9, <1>10, Zenon DEF Sound

\* A statement that writes nothing takes no lock.
LEMMA SameLocks ==
  ASSUME NEW p \in Req, Inv, Busy(p), Busy(p)', pend' = pend, owner' = owner, nextId' = nextId,
         op' = op, pc'[p] \in Locking /\ op[p].kind \in {"create", "rename"} => pc[p] \in Locking
  PROVE  LockStep(p)
BY Zenon DEF Inv, Locks, LockStep

\* A statement that writes a row nobody else has written takes that row.
LEMMA WriteLocks ==
  ASSUME NEW p \in Req, Inv, Busy(p), Busy(p)', NEW i, NEW row, Write(p, i, row),
         i \in 1 .. nextId' - 1, \A q \in Req \ {p} : i \notin DOMAIN pend[q],
         owner' = owner, nextId' \in {nextId, nextId + 1}, op' = op,
         pc'[p] \in Locking /\ op[p].kind \in {"create", "rename"} => pc[p] \in Locking
  PROVE  LockStep(p)
<1>1. DOMAIN pend'[p] = DOMAIN pend[p] \cup {i}
  BY WriteIs, Zenon DEF Inv
<1>2. DOMAIN pend'[p] \subseteq 1 .. nextId' - 1
  <2>1. DOMAIN pend[p] \subseteq 1 .. nextId' - 1
    BY IdsGrow, Zenon DEF Inv, Locks
  <2> QED
    BY <1>1, <2>1, Zenon
<1>3. \A q \in Req \ {p} : DOMAIN pend'[p] \cap DOMAIN pend[q] = {}
  BY <1>1, SMT DEF Inv, Locks
<1> QED
  BY <1>2, <1>3, Zenon DEF Inv, Locks, LockStep

\* A request arrives (Ask), at an id there may be a row of.
LEMMA AskSound ==
  ASSUME NEW p \in Req, Inv, NEW kind \in Kind, NEW id \in 0 .. nextId - 1, NEW arg,
         kind \in {"create", "rename"} => arg \in Name,
         kind = "visibility" => arg \in Visibility,
         kind \in {"default", "visibility"} => Serialized,
         Ask(p, kind, id, arg)
  PROVE  Sound(p)
<1> DEFINE there == IF kind = "create" THEN "lock" ELSE "get"
<1>1. /\ pc[p] = "idle" /\ pc' = [pc EXCEPT ![p] = there]
      /\ op' = [op EXCEPT ![p] = [kind |-> kind, id |-> id, arg |-> arg, at |-> now]]
      /\ UNCHANGED <<sets, owner, now, nextId, old, new, pend, snap, wanted>>
      /\ Serialized => \A q \in Req : pc[q] = "idle" \/ pc[q] = "emit"
  BY Zenon DEF Ask, Goto, Idle
<1>2. Shape
  BY Zenon DEF Inv
<1>3. there \in {"lock", "get"} /\ (there = "lock" <=> kind = "create")
  BY Zenon
<1> HIDE DEF there
<1>4. Shape'
  BY <1>1, <1>2, <1>3, Zenon DEF Shape, Stage, Reading
<1>5. Only(p)
  BY <1>1, <1>2, Zenon DEF Shape, Only
<1>6. Quiet
  BY <1>1, Zenon DEF Quiet
<1>7. /\ pc'[p] = there /\ Busy(p)' /\ op'[p].kind = kind /\ op'[p].id = id
      /\ op'[p].arg = arg /\ op'[p].at = now
  BY <1>1, <1>2, <1>3, Zenon DEF Shape, Busy
<1>8. DOMAIN pend'[p] = {}
  BY <1>1, Zenon DEF Inv, Locks, Busy
<1>9. LockStep(p)
  <2>1. pc'[p] \notin Locking
    BY <1>3, <1>7, Zenon DEF Locking
  <2>2. Serialized => \A q \in Req : ~Busy(q)
    BY <1>1, Zenon DEF Busy
  <2> QED
    BY <2>1, <2>2, <1>1, <1>7, <1>8, Zenon DEF LockStep
<1>10. ~HasRead(p)' /\ ~HasDrawn(p)'
  BY <1>3, <1>7, Zenon DEF HasRead, HasDrawn, Inserted
<1>11. DrawStep(p)
  BY <1>10, Zenon DEF DrawStep
<1>12. Asked(p)'
  <2>1. Serves(there, kind)
    BY <1>3, Zenon DEF Serves, Kind
  <2> QED
    BY <2>1, <1>1, <1>2, <1>7, Zenon DEF Asked, Shape
<1>13. Written(p)'
  <2>1. there \notin {"select", "clear", "mark", "commit", "copy", "update", "remove"}
    BY <1>3, Zenon
  <2> QED
    BY <2>1, <1>7, <1>8, Zenon DEF Written, Flags, RenameWrites, CreateWrites, DefaultWrites,
          VisibilityWrites, DeleteWrites
<1> QED
  BY <1>4, <1>5, <1>6, <1>9, <1>10, <1>11, <1>12, <1>13, Zenon DEF Sound, Local, Knows

\* The operations, where the ones that overwrite what they read need SQLite.
LEMMA RequestSound ==
  ASSUME NEW p \in Req, Inv, Serialized \/ Ops \cap {"default", "visibility"} = {}, Request(p)
  PROVE  Sound(p)
<1>1. 0 \in 0 .. nextId - 1 /\ 1 .. nextId - 1 \subseteq 0 .. nextId - 1
  <2>1. nextId \in Nat /\ nextId >= 3
    BY KeySetsAssumptions, SMT DEF Inv, Shape
  <2> QED
    BY <2>1, SMT
<1>2. {"create", "rename", "delete", "default", "visibility"} \subseteq Kind
  BY Zenon DEF Kind
<1>3. ASSUME Create(p) PROVE Sound(p)
  BY <1>1, <1>2, <1>3, AskSound, Zenon DEF Create
<1>4. ASSUME Rename(p) PROVE Sound(p)
  BY <1>1, <1>2, <1>4, AskSound, Zenon DEF Rename
<1>5. ASSUME Delete(p) PROVE Sound(p)
  BY <1>1, <1>2, <1>5, AskSound, Zenon DEF Delete
<1>6. ASSUME SetDefault(p) PROVE Sound(p)
  BY <1>1, <1>2, <1>6, AskSound, Zenon DEF SetDefault
<1>7. ASSUME SetVisibility(p) PROVE Sound(p)
  BY <1>1, <1>2, <1>7, AskSound, Zenon DEF SetVisibility
<1> QED
  BY <1>3, <1>4, <1>5, <1>6, <1>7, Zenon DEF Request

\* A transaction that has written nothing reads the committed rows.
LEMMA ReadsCommitted ==
  ASSUME NEW p \in Req, Inv, DOMAIN pend[p] = {}
  PROVE  DOMAIN Seen(p) = DOMAIN sets /\ \A j \in DOMAIN sets : Seen(p)[j] = sets[j]
BY SeenIs, Zenon DEF Inv, Table

\* The row the request is about is read (Get).
LEMMA GetSound ==
  ASSUME NEW p \in Req, Inv, Get(p)
  PROVE  Sound(p)
<1>1. /\ pc[p] = "get" /\ nextId' = nextId /\ wanted' = wanted /\ now' = now
      /\ Shape /\ Local(p) /\ Busy(p)
  BY Zenon DEF Get, At, Inv, Busy
<1>2. op[p].kind \in {"rename", "delete", "default", "visibility"}
  BY <1>1, Zenon DEF Local, Asked, Serves, Kind
<1>3. DOMAIN pend[p] = {}
  BY <1>1, Zenon DEF Local, Written, Reading
<1>4. CASE Refused(p)
  BY <1>1, <1>4, RefusedSound, Zenon
<1>5. CASE ~Refused(p)
  <2> DEFINE i == op[p].id
  <2> DEFINE there == AfterGet[op[p].kind]
  <2>1. /\ i \in DOMAIN sets /\ sets[i].state = "active" /\ old' = [old EXCEPT ![p] = sets[i]]
        /\ pc' = [pc EXCEPT ![p] = there]
        /\ UNCHANGED <<sets, owner, op, new, pend, snap>>
    BY <1>3, <1>5, ReadsCommitted, Zenon DEF Get, Goto
  <2>2. /\ there \in {"lock", "members", "select", "update"}
        /\ there = "lock" <=> op[p].kind = "rename"
        /\ there = "members" <=> op[p].kind = "delete"
        /\ there = "select" <=> op[p].kind = "default"
        /\ there = "update" <=> op[p].kind = "visibility"
    BY <1>2, SMT DEF AfterGet
  <2> HIDE DEF there
  <2>3. Shape'
    BY <1>1, <2>1, <2>2, Zenon DEF Shape, Stage, Reading, Locking
  <2>4. Only(p)
    BY <1>1, <2>1, Zenon DEF Shape, Only
  <2>5. Quiet
    BY <1>1, <2>1, Zenon DEF Quiet
  <2>6. pc'[p] = there /\ old'[p] = sets[i] /\ Busy(p)'
    BY <1>1, <2>1, <2>2, Zenon DEF Shape, Busy
  <2>7. LockStep(p)
    BY <1>1, <2>1, <2>2, <2>6, SameLocks, Zenon DEF Locking
  <2>8. DrawStep(p)
    <3>1. ~HasDrawn(p)'
      BY <2>1, <2>2, <2>6, Zenon DEF HasDrawn, Inserted
    <3>2. \A q \in Req \ {p} : HasDrawn(q) => op'[p].id # new[q]
      BY <2>1, Zenon DEF Inv, Drawn
    <3> QED
      BY <3>1, <3>2, Zenon DEF DrawStep
  <2>9. Asked(p)'
    BY <1>1, <1>2, <2>1, <2>2, <2>6, Zenon DEF Local, Asked, Serves
  <2>10. Knows(p)'
    <3>1. RowKnown(sets[i])' /\ Allowed(sets[i])'
      BY <1>1, <2>1, Zenon DEF Inv, Table, RowsKnown, RowKnown, Allowed
    <3>2. old'[p] = sets'[i] /\ sets'[i].state = "active" /\ i \in DOMAIN sets' /\ i = op'[p].id
      BY <2>1, <2>6, Zenon
    <3>3. RowKnown(old[p])' /\ Allowed(old[p])'
      BY <3>1, <3>2, Zenon DEF RowKnown, Allowed
    <3> QED
      BY <3>2, <3>3, Zenon DEF Knows
  <2>11. Written(p)'
    BY <1>2, <1>3, <2>1, <2>2, <2>6, Zenon DEF Written, Flags, RenameWrites, CreateWrites,
          DefaultWrites, VisibilityWrites, DeleteWrites, Same
  <2> QED
    BY <2>3, <2>4, <2>5, <2>7, <2>8, <2>9, <2>10, <2>11, Zenon DEF Sound, Local
<1> QED
  BY <1>4, <1>5, Zenon

\* What holds after a statement that moves on, whatever it writes.
LEMMA MovesOn ==
  ASSUME NEW p \in Req, Inv, NEW there \in Stage, pc' = [pc EXCEPT ![p] = there], Busy(p), pc[p] # "get",
         there \notin {"idle", "emit", "get"}, Serves(there, op[p].kind),
         there \in Inserted /\ op[p].kind \in {"create", "rename"} => pc[p] \in Inserted,
         UNCHANGED <<sets, now, nextId, op, old, new, wanted>>,
         pend' = pend \/ \E f : pend' = [pend EXCEPT ![p] = f],
         snap' = snap \/ \E S : snap' = [snap EXCEPT ![p] = S]
  PROVE  /\ Shape' /\ Only(p) /\ Quiet /\ DrawStep(p) /\ Asked(p)' /\ Knows(p)'
         /\ Busy(p)' /\ pc'[p] = there
<1>1. Shape /\ Local(p)
  BY Zenon DEF Inv
<1>2. Shape'
  BY <1>1, Zenon DEF Shape
<1>3. Only(p)
  BY <1>1, Zenon DEF Shape, Only
<1>4. Quiet
  BY Zenon DEF Quiet
<1>5. pc'[p] = there /\ Busy(p)'
  BY <1>1, Zenon DEF Shape, Busy
<1>6. DrawStep(p)
  <2>1. HasRead(p)' => HasRead(p)
    BY Zenon DEF HasRead
  <2>2. HasDrawn(p)' => HasDrawn(p)
    BY <1>5, Zenon DEF HasDrawn
  <2> QED
    BY <2>1, <2>2, <1>1, <1>3, <1>4, SameDraw, Zenon DEF Inv
<1>7. Asked(p)'
  BY <1>1, <1>5, Zenon DEF Local, Asked
<1>8. Knows(p)'
  BY <1>1, <1>5, Zenon DEF Local, Knows, HasRead, RowKnown, Allowed
<1> QED
  BY <1>2, <1>3, <1>4, <1>5, <1>6, <1>7, <1>8, Zenon

\* The owner's row is locked (LockOwner).
LEMMA LockOwnerSound ==
  ASSUME NEW p \in Req, Inv, LockOwner(p)
  PROVE  Sound(p)
<1>1. /\ pc[p] = "lock" /\ pc' = [pc EXCEPT ![p] = "count"] /\ owner \in {p, None} /\ owner' = p
      /\ UNCHANGED <<sets, now, nextId, op, old, new, pend, snap, wanted>>
  BY Zenon DEF LockOwner, At, Goto
<1>2. Busy(p) /\ Local(p) /\ "count" \in Stage /\ "count" \notin Inserted
  BY <1>1, Zenon DEF Inv, Busy, Stage, Locking, Inserted
<1>3. op[p].kind \in {"create", "rename"} /\ Serves("count", op[p].kind)
  BY <1>1, <1>2, Zenon DEF Local, Asked, Serves
<1>4. /\ Shape' /\ Only(p) /\ Quiet /\ DrawStep(p) /\ Asked(p)' /\ Knows(p)'
      /\ Busy(p)' /\ pc'[p] = "count"
  BY <1>1, <1>2, <1>3, MovesOn, Zenon
<1>5. LockStep(p)
  BY <1>1, <1>2, <1>4, Zenon DEF Inv, Locks, LockStep
<1>6. DOMAIN pend'[p] = {}
  BY <1>1, <1>2, Zenon DEF Local, Written, Reading
<1>7. Written(p)'
  BY <1>1, <1>3, <1>4, <1>6, Zenon DEF Written, Flags, RenameWrites, CreateWrites
<1> QED
  BY <1>4, <1>5, <1>7, Zenon DEF Sound, Local

\* The sets are counted (Count).
LEMMA CountSound ==
  ASSUME NEW p \in Req, Inv, Count(p)
  PROVE  Sound(p)
<1>1. pc[p] = "count" /\ UNCHANGED <<now, nextId, wanted>>
  BY Zenon DEF Count, At
<1>2. CASE Refused(p)
  BY <1>1, <1>2, RefusedSound, Zenon
<1>3. CASE ~Refused(p)
  <2>1. pc' = [pc EXCEPT ![p] = "insert"] /\ UNCHANGED <<sets, owner, op, old, new, pend, snap>>
    BY <1>3, Zenon DEF Count, Goto
  <2>2. Busy(p) /\ Local(p) /\ "insert" \in Stage /\ "insert" \notin Inserted
    BY <1>1, Zenon DEF Inv, Busy, Stage, Locking, Inserted
  <2>3. op[p].kind \in {"create", "rename"} /\ Serves("insert", op[p].kind)
    BY <1>1, <2>2, Zenon DEF Local, Asked, Serves
  <2>4. /\ Shape' /\ Only(p) /\ Quiet /\ DrawStep(p) /\ Asked(p)' /\ Knows(p)'
        /\ Busy(p)' /\ pc'[p] = "insert"
    BY <1>1, <2>1, <2>2, <2>3, MovesOn, Zenon
  <2>5. LockStep(p)
    BY <1>1, <2>1, <2>2, <2>4, SameLocks, Zenon DEF Locking
  <2>6. DOMAIN pend'[p] = {}
    BY <1>1, <2>1, <2>2, Zenon DEF Local, Written
  <2>7. Written(p)'
    BY <2>1, <2>3, <2>4, <2>6, Zenon DEF Written, Flags, RenameWrites, CreateWrites
  <2> QED
    BY <2>4, <2>5, <2>7, Zenon DEF Sound, Local
<1> QED
  BY <1>2, <1>3, Zenon

\* A deletion asks whether it is confirmed and whether the row is the default
\* (Confirm, CheckDefault).
LEMMA DeleteChecksSound ==
  ASSUME NEW p \in Req, Inv, Confirm(p) \/ CheckDefault(p)
  PROVE  Sound(p)
<1>1. /\ pc[p] \in {"members", "check"} /\ UNCHANGED <<now, nextId, wanted>>
      /\ Confirm(p) => pc[p] = "members"
      /\ CheckDefault(p) => pc[p] = "check"
  BY Zenon DEF Confirm, CheckDefault, At
<1>2. CASE Refused(p)
  BY <1>1, <1>2, RefusedSound, Zenon
<1>3. CASE ~Refused(p)
  <2> DEFINE there == IF Confirm(p) THEN "check" ELSE "remove"
  <2>1. Busy(p) /\ Local(p) /\ {"check", "remove"} \subseteq Stage /\ {"check", "remove"} \cap Inserted = {}
    BY <1>1, Zenon DEF Inv, Busy, Stage, Reading, Inserted
  <2>2. op[p].kind = "delete" /\ Serves("check", "delete") /\ Serves("remove", "delete")
    BY <1>1, <2>1, Zenon DEF Local, Asked, Serves
  <2>3. DOMAIN pend[p] = {}
    BY <1>1, <2>1, Zenon DEF Local, Written, Reading
  <2>4. pc' = [pc EXCEPT ![p] = there] /\ UNCHANGED <<sets, owner, op, old, new, pend, snap>>
    BY <1>3, Zenon DEF Confirm, CheckDefault, Goto
  <2>5. there = "remove" => ~Default(op[p].id)
    <3>1. CASE Confirm(p)
      BY <3>1, Zenon
    <3>2. CASE ~Confirm(p)
      BY <3>2, <1>3, <2>3, ReadsCommitted, Zenon DEF CheckDefault, Default
    <3> QED
      BY <3>1, <3>2, Zenon
  <2>6. there \in {"check", "remove"}
    BY Zenon
  <2> HIDE DEF there
  <2>7. /\ Shape' /\ Only(p) /\ Quiet /\ DrawStep(p) /\ Asked(p)' /\ Knows(p)'
        /\ Busy(p)' /\ pc'[p] = there
    <3>1. there \in Stage /\ there \notin {"idle", "emit", "get"} /\ Serves(there, op[p].kind) /\ there \notin Inserted
      BY <2>1, <2>2, <2>6, Zenon
    <3>2. pc[p] # "get"
      BY <1>1, Zenon
    <3> QED
      BY <1>1, <2>1, <2>4, <3>1, <3>2, MovesOn, Zenon
  <2>8. LockStep(p)
    BY <1>1, <2>1, <2>2, <2>4, <2>7, SameLocks, Zenon
  <2>9. Written(p)'
    <3>1. there \notin {"commit"} /\ ~Default(op[p].id)' <=> ~Default(op[p].id)
      BY <2>4, <2>6, Zenon DEF Default
    <3> QED
      BY <3>1, <2>2, <2>3, <2>4, <2>5, <2>6, <2>7, Zenon DEF Written, DeleteWrites
  <2> QED
    BY <2>7, <2>8, <2>9, Zenon DEF Sound, Local
<1> QED
  BY <1>2, <1>3, Zenon

\* The defaults are selected (Select): the committed ones.
LEMMA SelectSound ==
  ASSUME NEW p \in Req, Inv, Select(p)
  PROVE  Sound(p)
<1> DEFINE defaults == {i \in DOMAIN Seen(p) : Seen(p)[i].def}
<1>1. /\ pc[p] = "select" /\ pc' = [pc EXCEPT ![p] = "clear"] /\ snap' = [snap EXCEPT ![p] = defaults]
      /\ UNCHANGED <<sets, owner, now, nextId, op, old, new, pend, wanted>>
  BY Zenon DEF Select, At, Goto
<1>2. Busy(p) /\ Local(p) /\ "clear" \in Stage /\ {"select", "clear"} \subseteq Inserted
  BY <1>1, Zenon DEF Inv, Busy, Stage, Locking, Inserted
<1>3. op[p].kind \in {"rename", "default"} /\ Serves("clear", op[p].kind)
  BY <1>1, <1>2, Zenon DEF Local, Asked, Serves
<1>4. \A j \in DOMAIN pend[p] : pend[p][j] \in KeySetRow
  BY <1>2, <1>3, Zenon DEF Local, Written
<1>5. /\ DOMAIN Seen(p) = DOMAIN pend[p] \cup DOMAIN sets
      /\ \A j \in DOMAIN pend[p] : Seen(p)[j] = pend[p][j]
      /\ \A j \in DOMAIN sets \ DOMAIN pend[p] : Seen(p)[j] = sets[j]
  BY <1>4, SeenIs, Zenon DEF Inv, Table
<1>6. defaults = {i \in DOMAIN sets : sets[i].def}
  <2>1. CASE op[p].kind = "default"
    <3>1. DOMAIN pend[p] = {}
      BY <1>1, <1>2, <2>1, ZenonT(60) DEF Local, Written, DefaultWrites
    <3> QED
      BY <3>1, <1>5, Zenon
  <2>2. CASE op[p].kind = "rename"
    <3>1. /\ DOMAIN pend[p] = {new[p], op[p].id} /\ ~pend[p][new[p]].def
          /\ pend[p][op[p].id].def = sets[op[p].id].def /\ op[p].id \in DOMAIN sets
      BY <1>1, <1>2, <2>2, Zenon DEF Local, Written, RenameWrites, Replaces
    <3>2. new[p] \notin DOMAIN sets
      BY <1>1, <1>2, <2>2, Zenon DEF Inv, Drawn, HasDrawn
    <3> QED
      BY <3>1, <3>2, <1>5, SMT
  <2> QED
    BY <1>3, <2>1, <2>2, Zenon
<1> HIDE DEF defaults
<1>7. /\ Shape' /\ Only(p) /\ Quiet /\ DrawStep(p) /\ Asked(p)' /\ Knows(p)'
      /\ Busy(p)' /\ pc'[p] = "clear"
  BY <1>1, <1>2, <1>3, MovesOn, Zenon
<1>8. LockStep(p)
  BY <1>1, <1>2, <1>7, SameLocks, Zenon DEF Locking
<1>9. snap'[p] = defaults
  BY <1>1, Zenon DEF Inv, Shape
<1>10. Written(p)'
  <2>1. Flags(p)'
    BY <1>1, <1>6, <1>7, <1>9, Zenon DEF Flags
  <2>2. CASE op[p].kind = "default"
    <3>1. DefaultWrites(p)'
      BY <1>1, <1>2, <1>7, <2>2, Zenon DEF Local, Written, DefaultWrites, Same
    <3> QED
      BY <2>1, <2>2, <3>1, <1>1, <1>4, <1>7, Zenon DEF Written, Reading
  <2>3. CASE op[p].kind = "rename"
    <3>1. RenameWrites(p)
      BY <1>2, <2>3, Zenon DEF Local, Written
    <3>2. Replaces(p) => Replaces(p)'
      BY <1>1, ZenonT(60) DEF Replaces, Continues, Same, Member
    <3>3. RenameWrites(p)'
      BY <1>1, <1>7, <3>1, <3>2, Zenon DEF RenameWrites
    <3> QED
      BY <2>1, <2>3, <3>3, <1>1, <1>4, <1>7, Zenon DEF Written, Reading
  <2> QED
    BY <1>3, <2>2, <2>3, Zenon
<1> QED
  BY <1>7, <1>8, <1>10, Zenon DEF Sound, Local

\* The audit record, and a lost connection (Emit, Abort).
LEMMA EndSound ==
  ASSUME NEW p \in Req, Inv, Emit(p) \/ Abort(p)
  PROVE  Sound(p)
<1>1. CASE Abort(p)
  BY <1>1, RefusedSound, Zenon DEF Abort, At
<1>2. CASE Emit(p)
  <2>1. ~Busy(p) /\ owner # p /\ DOMAIN pend[p] = {} /\ Shape
    BY <1>2, Zenon DEF Emit, At, Busy, Inv, Locks
  <2>2. /\ UNCHANGED <<sets, owner, pend, now, nextId, wanted>>
        /\ pc' = [pc EXCEPT ![p] = "idle"] /\ op' = [op EXCEPT ![p] = None]
        /\ old' = [old EXCEPT ![p] = Gone] /\ new' = [new EXCEPT ![p] = 0]
        /\ snap' = [snap EXCEPT ![p] = {}]
    BY <1>2, Zenon DEF Emit, At, Return, Goto
  <2>3. Shape' /\ Only(p)
    BY <2>1, <2>2, Zenon DEF Shape, Only, Stage
  <2>4. pc'[p] = "idle" /\ ~Busy(p)'
    BY <2>1, <2>2, Zenon DEF Shape, Busy
  <2>5. LockStep(p)
    BY <2>1, <2>2, <2>4, Zenon DEF LockStep, Locking
  <2>6. DrawStep(p)
    BY <2>4, Zenon DEF DrawStep, HasRead, HasDrawn, Inserted
  <2> QED
    BY <2>2, <2>3, <2>4, <2>5, <2>6, RestingLocal, Zenon DEF Sound, Quiet
<1> QED
  BY <1>1, <1>2, Zenon

\* The new row is inserted under a new id (Insert).
LEMMA InsertSound ==
  ASSUME NEW p \in Req, Inv, Insert(p)
  PROVE  Sound(p)
<1>1. pc[p] = "insert" /\ nextId <= MaxId /\ UNCHANGED <<now, wanted>> /\ Busy(p) /\ Local(p) /\ Shape
  BY Zenon DEF Insert, Busy, Inv
<1>2. CASE Refused(p)
  <2>1. nextId' = nextId \/ Goto(p, "commit") \/ Goto(p, "copy")
    BY Zenon DEF Insert
  <2>2. Goto(p, "idle")
    BY <1>2, Zenon DEF Refused, Return
  <2>3. nextId' = nextId
    BY <1>1, <2>1, <2>2, Zenon DEF Goto, Shape
  <2> QED
    BY <1>1, <1>2, <2>3, RefusedSound, Zenon
<1>3. CASE ~Refused(p)
  <2> DEFINE n == nextId
  <2> DEFINE creates == op[p].kind = "create"
  <2> DEFINE row == IF creates THEN Row(op[p].arg, "protected", FALSE, n, FALSE)
                               ELSE Row(op[p].arg, old[p].vis, FALSE, old[p].root, FALSE)
  <2> DEFINE there == IF creates THEN "commit" ELSE "copy"
  <2>1. /\ new' = [new EXCEPT ![p] = n] /\ nextId' = n + 1 /\ Write(p, n, row)
        /\ pc' = [pc EXCEPT ![p] = there] /\ UNCHANGED <<sets, owner, op, old, snap>>
    BY <1>3, Zenon DEF Insert, Goto, CarriedVisibility
  <2>2. n \in Nat /\ n >= 3 /\ n <= MaxId /\ MaxId \in Nat
    BY <1>1, <2>1, IdsGrow, Zenon
  <2>3. op[p].kind \in {"create", "rename"} /\ op[p].arg \in Name /\ DOMAIN pend[p] = {}
    BY <1>1, Zenon DEF Local, Asked, Serves, Written
  <2>4. op[p].kind = "rename" => HasRead(p) /\ RowKnown(old[p])
    BY <1>1, Zenon DEF Local, Knows, HasRead
  <2>5. /\ row \in KeySetRow /\ row.def = FALSE /\ row.state = "active"
        /\ creates => row.vis = "protected" /\ row.root = n
        /\ ~creates => row.vis = old[p].vis /\ row.root = old[p].root
    <3>1. CASE creates
      BY <3>1, <2>2, <2>3, Zenon DEF Row, KeySetRow, Visibility
    <3>2. CASE ~creates
      <4>1. old[p] \in KeySetRow
        BY <3>2, <2>3, <2>4, Zenon DEF RowKnown
      <4>2. old[p].vis \in Visibility /\ old[p].root \in Nat
        BY <4>1, Zenon DEF KeySetRow
      <4> QED
        BY <3>2, <4>2, <2>3, Zenon DEF Row, KeySetRow
    <3> QED
      BY <3>1, <3>2, Zenon
  <2>6. there \in {"commit", "copy"} /\ (there = "commit" <=> creates)
    BY Zenon
  <2> HIDE DEF row, there
  <2>7. /\ DOMAIN pend'[p] = {n} /\ pend'[p][n] = row /\ DOMAIN pend' = Req
        /\ \A q \in Req \ {p} : pend'[q] = pend[q]
    BY <1>1, <2>1, <2>3, WriteIs, ZenonT(60)
  <2>8. pc'[p] = there /\ new'[p] = n /\ Busy(p)'
    BY <1>1, <2>1, <2>6, Zenon DEF Shape, Busy
  <2>9. n + 1 \in 3 .. MaxId + 1 /\ n \in 3 .. (n + 1) - 1 /\ n \in 1 .. (n + 1) - 1 /\ n \notin 1 .. n - 1
        /\ n \notin 0 .. n - 1
    BY <2>2, SMT
  <2>10. Shape'
    <3>1. nextId' \in 3 .. MaxId + 1
      BY <2>1, <2>9, Zenon
    <3> QED
      BY <1>1, <2>1, <2>6, <2>7, <3>1, Zenon DEF Shape, Stage, Locking
  <2>11. Only(p)
    BY <1>1, <2>1, <2>7, Zenon DEF Shape, Only
  <2>12. Quiet
    BY <1>1, <2>1, Zenon DEF Quiet
  <2>13. n \notin DOMAIN sets /\ \A q \in Req : n \notin DOMAIN pend[q]
    BY <2>9, Zenon DEF Inv, Table, RowsKnown, Locks
  <2>14. LockStep(p)
    <3>1. n \in 1 .. nextId' - 1
      BY <2>1, <2>9, Zenon
    <3>2. pc[p] \in Locking
      BY <1>1, Zenon DEF Locking
    <3> QED
      BY <3>1, <3>2, <1>1, <2>1, <2>8, <2>13, WriteLocks, Zenon
  <2>15. DrawStep(p)
    <3>1. \A q \in Req : HasRead(q)' => HasRead(q) /\ op'[q] = op[q]
      <4>1. HasRead(p)' => HasRead(p)
        BY <1>1, <2>1, Zenon DEF HasRead
      <4> QED
        BY <4>1, <2>1, <2>11, Zenon DEF Only, HasRead, Busy
    <3>2. \A q \in Req : HasRead(q) => op[q].id \in 0 .. n - 1
      BY Zenon DEF Inv, Local, Asked, HasRead
    <3>3. \A q \in Req : HasRead(q)' => op'[q].id # n
      BY <3>1, <3>2, <2>9, Zenon
    <3>4. \A q \in Req \ {p} : HasRead(p) /\ HasDrawn(q) => op[p].id # new[q]
      BY Zenon DEF Inv, Drawn
    <3> QED
      BY <3>1, <3>3, <3>4, <2>1, <2>8, <2>9, <2>13, Zenon DEF DrawStep
  <2>16. Asked(p)'
    <3>1. op[p].id \in 0 .. nextId' - 1
      BY <1>1, <2>1, IdsGrow, Zenon DEF Local, Asked
    <3>2. Serves(there, op[p].kind)
      BY <2>3, <2>6, Zenon DEF Serves
    <3> QED
      BY <3>1, <3>2, <1>1, <2>1, <2>8, Zenon DEF Local, Asked
  <2>17. Knows(p)'
    <3>1. RowKnown(old[p]) => RowKnown(old[p])'
      BY <1>1, <2>1, IdsGrow, Zenon DEF RowKnown
    <3>2. Allowed(old[p]) => Allowed(old[p])'
      BY <1>1, <2>1, Zenon DEF Allowed
    <3>3. HasRead(p)' => HasRead(p)
      BY <1>1, <2>1, Zenon DEF HasRead
    <3> QED
      BY <3>1, <3>2, <3>3, <1>1, <2>1, Zenon DEF Local, Knows
  <2>18. Written(p)'
    <3>1. there \notin Reading \cup {"count", "insert"} /\ there \notin {"select", "clear", "mark", "update"}
      BY <2>6, Zenon DEF Reading
    <3>2. CASE creates
      <4>1. ~Default(new[p])'
        BY <2>1, <2>8, <2>13, Zenon DEF Default
      <4>2. Flags(p)'
        BY <4>1, <3>1, <2>5, <2>7, <2>8, Zenon DEF Flags, Keeps, Default
      <4>3. wanted'[n] = "protected"
        BY <1>1, <2>2, SMT DEF Inv, Table, Unchosen
      <4>4. \A j \in DOMAIN sets : sets[j].root # n
        BY <2>9, Zenon DEF Inv, Table, RowsKnown, RowKnown
      <4>5. CreateWrites(p)'
        BY <3>2, <4>3, <4>4, <2>1, <2>5, <2>7, <2>8, Zenon DEF CreateWrites
      <4> QED
        BY <3>1, <3>2, <4>2, <4>5, <2>1, <2>5, <2>7, <2>8, Zenon DEF Written
    <3>3. CASE ~creates
      <4>1. there = "copy" /\ op[p].kind = "rename"
        BY <3>3, <2>3, <2>6, Zenon
      <4>2. Flags(p)'
        BY <4>1, <2>8, Zenon DEF Flags
      <4>3. RenameWrites(p)'
        BY <4>1, <3>3, <2>1, <2>5, <2>7, <2>8, Zenon DEF RenameWrites, Continues
      <4> QED
        BY <3>1, <4>1, <4>2, <4>3, <2>1, <2>5, <2>7, <2>8, Zenon DEF Written
    <3> QED
      BY <3>2, <3>3, Zenon
  <2> QED
    BY <2>10, <2>11, <2>12, <2>14, <2>15, <2>16, <2>17, <2>18, Zenon DEF Sound, Local
<1> QED
  BY <1>2, <1>3, Zenon

\* The members of the old row are copied (CopyMembers).
LEMMA CopyMembersSound ==
  ASSUME NEW p \in Req, Inv, CopyMembers(p)
  PROVE  Sound(p)
<1> DEFINE i == op[p].id
<1> DEFINE n == new[p]
<1> DEFINE b == i \in DOMAIN Seen(p) /\ Seen(p)[i].keys
<1> DEFINE row == [pend[p][n] EXCEPT !.keys = b]
<1>1. /\ pc[p] = "copy" /\ pc' = [pc EXCEPT ![p] = "update"] /\ Write(p, n, row)
      /\ UNCHANGED <<sets, owner, now, nextId, op, old, new, snap, wanted>>
  BY Zenon DEF CopyMembers, At, Goto
<1>2. Busy(p) /\ Local(p) /\ Shape /\ "update" \in Stage /\ {"copy", "update"} \subseteq Inserted
  BY <1>1, Zenon DEF Inv, Busy, Stage, Locking, Inserted
<1>3. op[p].kind = "rename" /\ Serves("update", op[p].kind)
  BY <1>1, <1>2, Zenon DEF Local, Asked, Serves
<1>4. /\ Shape' /\ Only(p) /\ Quiet /\ DrawStep(p) /\ Asked(p)' /\ Knows(p)'
      /\ Busy(p)' /\ pc'[p] = "update"
  <2>1. \E f : pend' = [pend EXCEPT ![p] = f]
    BY <1>1, Zenon DEF Write
  <2> QED
    BY <2>1, <1>1, <1>2, <1>3, MovesOn, Zenon
<1>5. DOMAIN pend[p] = {n} /\ pend[p][n] \in KeySetRow /\ Continues(p) /\ ~pend[p][n].def
  BY <1>1, <1>2, <1>3, Zenon DEF Local, Written, RenameWrites
<1>6. HasRead(p) /\ HasDrawn(p) /\ i # n /\ n \in 3 .. nextId - 1
  <2>1. HasRead(p) /\ HasDrawn(p)
    BY <1>1, <1>2, <1>3, Zenon DEF HasRead, HasDrawn
  <2> QED
    BY <2>1, Zenon DEF Inv, Drawn
<1>7. i \in DOMAIN sets => Seen(p)[i] = sets[i] /\ i \in DOMAIN Seen(p)
  <2>1. \A j \in DOMAIN pend[p] : pend[p][j] \in KeySetRow
    BY <1>5, Zenon
  <2>2. i \notin DOMAIN pend[p]
    BY <1>5, <1>6, Zenon
  <2> QED
    BY <2>1, <2>2, SeenIs, Zenon DEF Inv, Table
<1>8. b \in BOOLEAN /\ (i \in DOMAIN sets => b = sets[i].keys)
  <2>1. \A j \in DOMAIN pend[p] : pend[p][j] \in KeySetRow
    BY <1>5, Zenon
  <2>2. i \in DOMAIN Seen(p) => Seen(p)[i] \in KeySetRow
    BY <2>1, SeenIs, Zenon DEF Inv, Table
  <2>3. i \in DOMAIN Seen(p) => Seen(p)[i].keys \in BOOLEAN
    BY <2>2, Zenon DEF KeySetRow
  <2> QED
    BY <2>3, <1>7, Zenon
<1>9. /\ row \in KeySetRow /\ row.keys = b /\ row.def = pend[p][n].def /\ row.state = pend[p][n].state
      /\ row.vis = pend[p][n].vis /\ row.root = pend[p][n].root
  <2> HIDE DEF b
  <2> QED
    BY <1>5, <1>8, Zenon DEF KeySetRow
<1>10. i \in DOMAIN sets => Member(row)
  <2>1. SUFFICES ASSUME i \in DOMAIN sets PROVE Member(row)
    BY Zenon
  <2>2. row.root = sets[i].root /\ Member(sets[i])
    BY <2>1, <1>2, <1>5, <1>6, <1>9, Zenon DEF Local, Knows, Continues, Inv, Table, RowsKnown, RowKnown
  <2> QED
    BY <2>1, <2>2, <1>8, <1>9, Zenon DEF Member
<1> HIDE DEF row, b
<1>11. DOMAIN pend'[p] = {n} /\ pend'[p][n] = row
  BY <1>1, <1>2, <1>5, WriteIs, SMT
<1>12. LockStep(p)
  <2>1. n \in 1 .. nextId - 1 /\ nextId' = nextId
    BY <1>1, <1>2, <1>5, Zenon DEF Inv, Locks
  <2>2. \A q \in Req \ {p} : n \notin DOMAIN pend[q]
    BY <1>5, Zenon DEF Inv, Locks
  <2>3. pc[p] \in Locking
    BY <1>1, Zenon DEF Locking
  <2> QED
    BY <2>1, <2>2, <2>3, <1>1, <1>2, <1>4, WriteLocks, Zenon
<1>13. Written(p)'
  <2>1. Flags(p)'
    BY <1>4, Zenon DEF Flags
  <2>2. Continues(p)'
    BY <1>1, <1>5, <1>9, <1>11, Zenon DEF Continues
  <2>3. op[p].id \in DOMAIN sets => Member(pend[p][new[p]])'
    BY <1>1, <1>10, <1>11, Zenon DEF Member
  <2>4. RenameWrites(p)'
    BY <2>2, <2>3, <1>1, <1>4, <1>5, <1>9, <1>11, Zenon DEF RenameWrites
  <2> QED
    BY <2>1, <2>4, <1>1, <1>3, <1>4, <1>9, <1>11, Zenon DEF Written, Reading
<1> QED
  BY <1>4, <1>12, <1>13, Zenon DEF Sound, Local

\* The row the request read is overwritten (Update).
LEMMA UpdateSound ==
  ASSUME NEW p \in Req, Inv, Update(p)
  PROVE  Sound(p)
<1> DEFINE i == op[p].id
<1> DEFINE n == new[p]
<1>1. pc[p] = "update" /\ UNCHANGED <<now, nextId, wanted>> /\ ~Locked(p, i)
  BY Zenon DEF Update, At
<1>2. Busy(p) /\ Local(p) /\ Shape /\ HasRead(p) /\ op[p].kind \in {"rename", "visibility"}
  BY <1>1, Zenon DEF Inv, Busy, HasRead, Local, Asked, Serves
<1>3. CASE Refused(p)
  BY <1>1, <1>3, RefusedSound, Zenon
<1>4. CASE ~Refused(p)
  <2> DEFINE there == IF op[p].kind = "rename" /\ old[p].def THEN "select" ELSE "commit"
  <2> DEFINE d == Seen(p)[i].def
  <2> DEFINE row == Flagged(Updated(p), d)
  <2>1. /\ i \in DOMAIN Seen(p) /\ Write(p, i, row) /\ pc' = [pc EXCEPT ![p] = there]
        /\ UNCHANGED <<sets, owner, op, old, new, snap>>
    BY <1>4, Zenon DEF Update, Goto
  <2>2. /\ \A j \in DOMAIN pend[p] : pend[p][j] \in KeySetRow
        /\ op[p].kind = "visibility" => DOMAIN pend[p] = {}
        /\ op[p].kind = "rename" => DOMAIN pend[p] = {n} /\ i # n /\ n \notin DOMAIN sets
    <3>1. op[p].kind = "rename" => HasDrawn(p)
      BY <1>1, Zenon DEF HasDrawn, Inserted
    <3> QED
      BY <3>1, <1>1, <1>2, Zenon DEF Local, Written, RenameWrites, VisibilityWrites, Inv, Drawn
  <2>3. i \in DOMAIN sets /\ d = sets[i].def /\ i \notin DOMAIN pend[p]
    <3>1. i \notin DOMAIN pend[p]
      BY <1>2, <2>2, Zenon
    <3> QED
      BY <3>1, <2>1, <2>2, SeenIs, Zenon DEF Inv, Table
  <2>4. /\ old[p] \in KeySetRow /\ old[p].state = "active" /\ Member(old[p])
        /\ sets[i].root = old[p].root /\ (sets[i].def => old[p].def) /\ sets[i].def \in BOOLEAN
    <3>1. sets[i].def \in BOOLEAN
      BY <2>3, Zenon DEF Inv, Table, RowsKnown, RowKnown, KeySetRow
    <3> QED
      BY <3>1, <1>2, <2>3, Zenon DEF Local, Knows, RowKnown
  <2>5. /\ row \in KeySetRow /\ row.def = sets[i].def /\ row.root = old[p].root /\ row.keys = old[p].keys
        /\ op[p].kind = "rename" => row.state = "quarantined"
        /\ op[p].kind = "visibility" => row.state = "active" /\ row.vis = op[p].arg
    <3>1. op[p].at + QuarantineWindow \in Nat
      <4>1. op[p].at \in Nat /\ QuarantineWindow \in Nat
        BY <1>2, KeySetsAssumptions, Zenon DEF Local, Asked
      <4> QED
        BY <4>1, SMT
    <3>2. op[p].kind = "visibility" => op[p].arg \in Visibility
      BY <1>2, Zenon DEF Local, Asked
    <3>d. d \in BOOLEAN
      BY <2>3, <2>4, Zenon
    <3> HIDE DEF d
    <3> DEFINE r == Updated(p)
    <3>3. CASE op[p].kind = "rename"
      <4>1. r = [old[p] EXCEPT !.state = "quarantined", !.until = op[p].at + QuarantineWindow]
        BY <3>3, Zenon DEF Updated
      <4>2. r \in KeySetRow /\ r.root = old[p].root /\ r.keys = old[p].keys /\ r.state = "quarantined"
        <5> DEFINE s == [old[p] EXCEPT !.state = "quarantined"]
        <5>1. s \in KeySetRow /\ s.root = old[p].root /\ s.keys = old[p].keys /\ s.state = "quarantined"
          BY <2>4, Zenon DEF KeySetRow
        <5>2. r = [s EXCEPT !.until = op[p].at + QuarantineWindow]
          BY <4>1, Zenon
        <5> HIDE DEF s
        <5> QED
          BY <5>1, <5>2, <3>1, Zenon DEF KeySetRow
      <4> QED
        BY <4>2, <3>d, <3>3, <2>3, FlaggedFields, ZenonT(60)
    <3>4. CASE op[p].kind = "visibility"
      <4>1. r = [old[p] EXCEPT !.vis = op[p].arg]
        BY <3>4, Zenon DEF Updated
      <4>2. /\ r \in KeySetRow /\ r.root = old[p].root /\ r.keys = old[p].keys
            /\ r.state = "active" /\ r.vis = op[p].arg
        BY <4>1, <3>2, <3>4, <2>4, RowPublished, SMT
      <4> QED
        BY <4>2, <3>d, <3>4, <2>3, FlaggedFields, ZenonT(60)
    <3> QED
      BY <1>2, <3>3, <3>4, Zenon
  <2>6. Member(row)
    BY <2>4, <2>5, Zenon DEF Member
  <2>7. there \in {"select", "commit"} /\ (there = "select" <=> op[p].kind = "rename" /\ old[p].def)
    BY Zenon
  <2> HIDE DEF row, there, d
  <2>8. /\ DOMAIN pend'[p] = DOMAIN pend[p] \cup {i} /\ pend'[p][i] = row
        /\ \A j \in DOMAIN pend[p] \ {i} : pend'[p][j] = pend[p][j]
    <3>1. Shape /\ Write(p, i, row)
      BY <1>2, <2>1, Zenon
    <3> HIDE DEF i
    <3> QED
      BY <3>1, WriteIs, ZenonT(30)
  <2>9. /\ Shape' /\ Only(p) /\ Quiet /\ DrawStep(p) /\ Asked(p)' /\ Knows(p)'
        /\ Busy(p)' /\ pc'[p] = there
    <3>1. \E f : pend' = [pend EXCEPT ![p] = f]
      BY <2>1, Zenon DEF Write
    <3>2. /\ there \in Stage /\ there \notin {"idle", "emit", "get"} /\ Serves(there, op[p].kind)
          /\ pc[p] \in Inserted /\ pc[p] # "get"
      BY <1>1, <1>2, <2>7, Zenon DEF Stage, Locking, Serves, Inserted
    <3> QED
      BY <3>1, <3>2, <1>1, <1>2, <2>1, MovesOn, Zenon
  <2>10. LockStep(p)
    <3>1. i \in 1 .. nextId' - 1
      BY <1>1, <2>3, Zenon DEF Inv, Table, RowsKnown
    <3>2. \A q \in Req \ {p} : i \notin DOMAIN pend[q]
      BY <1>1, Zenon DEF Locked
    <3>3. pc[p] \in Locking
      BY <1>1, Zenon DEF Locking
    <3> QED
      BY <3>1, <3>2, <3>3, <1>1, <1>2, <2>1, <2>9, WriteLocks, Zenon
  <2>11. there \notin Reading \cup {"count", "insert", "copy", "update", "clear", "mark"}
    BY <2>7, Zenon DEF Reading
  <2>12. \A j \in DOMAIN pend'[p] : pend'[p][j] \in KeySetRow
    BY <2>2, <2>5, <2>8, Zenon
  <2>13. CASE op[p].kind = "visibility"
    <3>1. Keeps(p)'
      BY <2>13, <2>1, <2>2, <2>3, <2>5, <2>8, Zenon DEF Keeps, Default
    <3>2. Flags(p)'
      BY <3>1, <2>9, <2>11, Zenon DEF Flags
    <3>3. Member(pend[p][op[p].id])'
      BY <2>1, <2>6, <2>8, Zenon DEF Member
    <3>4. VisibilityWrites(p)'
      BY <3>3, <2>13, <2>1, <2>2, <2>5, <2>8, <2>9, <2>11, Zenon DEF VisibilityWrites
    <3>5. Written(p)'
      BY <3>2, <3>4, <2>13, <2>1, <2>9, <2>11, <2>12, Zenon DEF Written
    <3> QED
      BY <3>5, <2>9, <2>10, Zenon DEF Sound, Local
  <2>14. CASE op[p].kind = "rename"
    <3>1. /\ DOMAIN pend'[p] = {n, i} /\ pend'[p][n] = pend[p][n] /\ ~pend[p][n].def
          /\ Continues(p) /\ Member(pend[p][n])
      BY <2>14, <1>1, <1>2, <2>2, <2>3, <2>8, Zenon DEF Local, Written, RenameWrites
    <3>2. Replaces(p)'
      <4>1. Continues(p)' /\ Member(pend[p][new[p]])' /\ Member(pend[p][op[p].id])'
        BY <3>1, <2>1, <2>6, <2>8, Zenon DEF Continues, Member
      <4> QED
        BY <4>1, <3>1, <2>1, <2>3, <2>5, <2>8, <2>14, Zenon DEF Replaces
    <3>3. there = "commit" => Keeps(p)'
      <4>1. there = "commit" => ~sets[i].def
        BY <2>4, <2>7, <2>14, Zenon
      <4>2. ~Default(n)
        BY <2>2, <2>14, Zenon DEF Default
      <4> QED
        BY <4>1, <4>2, <3>1, <2>1, <2>3, <2>5, <2>8, Zenon DEF Keeps, Default
    <3>4. Flags(p)'
      BY <3>3, <2>9, <2>11, Zenon DEF Flags
    <3>5. RenameWrites(p)'
      BY <3>1, <3>2, <2>1, <2>5, <2>8, <2>9, <2>11, Zenon DEF RenameWrites
    <3>6. Written(p)'
      BY <3>4, <3>5, <2>14, <2>1, <2>9, <2>11, <2>12, Zenon DEF Written
    <3> QED
      BY <3>6, <2>9, <2>10, Zenon DEF Sound, Local
  <2> QED
    BY <1>2, <2>13, <2>14, Zenon
<1> QED
  BY <1>3, <1>4, Zenon

\* The defaults are cleared (Clear): none is left among the rows p sees.
LEMMA ClearSound ==
  ASSUME NEW p \in Req, Inv, Clear(p)
  PROVE  Sound(p)
<1> DEFINE i == op[p].id
<1> DEFINE n == new[p]
<1> DEFINE still == {j \in snap[p] \cap DOMAIN Seen(p) : Seen(p)[j].def}
<1> DEFINE f == [j \in still |-> Flagged(Seen(p)[j], FALSE)]
<1>1. /\ pc[p] = "clear" /\ pc' = [pc EXCEPT ![p] = "mark"] /\ pend' = [pend EXCEPT ![p] = Overlay(f, pend[p])]
      /\ UNCHANGED <<sets, owner, now, nextId, op, old, new, snap, wanted>>
      /\ \A j \in snap[p] : ~Locked(p, j)
  BY Zenon DEF Clear, At, Goto
<1>2. Busy(p) /\ Local(p) /\ Shape /\ "mark" \in Stage /\ {"clear", "mark"} \subseteq Inserted
  BY <1>1, Zenon DEF Inv, Busy, Stage, Locking, Inserted
<1>3. op[p].kind \in {"rename", "default"} /\ Serves("mark", op[p].kind)
  BY <1>1, <1>2, Zenon DEF Local, Asked, Serves
<1>4. \A j \in DOMAIN pend[p] : pend[p][j] \in KeySetRow
  BY <1>2, <1>3, Zenon DEF Local, Written
<1>5. /\ DOMAIN Seen(p) = DOMAIN pend[p] \cup DOMAIN sets
      /\ \A j \in DOMAIN pend[p] : Seen(p)[j] = pend[p][j]
      /\ \A j \in DOMAIN sets \ DOMAIN pend[p] : Seen(p)[j] = sets[j]
      /\ \A j \in DOMAIN Seen(p) : Seen(p)[j] \in KeySetRow
  BY <1>4, SeenIs, Zenon DEF Inv, Table
<1>6. snap[p] = {j \in DOMAIN sets : sets[j].def}
  BY <1>1, <1>2, <1>3, Zenon DEF Local, Written, Flags
<1>7. still \subseteq DOMAIN Seen(p) /\ still \subseteq DOMAIN sets /\ still \subseteq snap[p]
  BY <1>6, Zenon
<1>8. ASSUME NEW j \in still
      PROVE  /\ f[j] \in KeySetRow /\ ~f[j].def /\ f[j].state = Seen(p)[j].state
             /\ f[j].vis = Seen(p)[j].vis /\ f[j].root = Seen(p)[j].root /\ f[j].keys = Seen(p)[j].keys
  <2>1. f[j] = Flagged(Seen(p)[j], FALSE) /\ Seen(p)[j] \in KeySetRow
    <3> HIDE DEF still
    <3> QED
      BY <1>5, <1>7, <1>8, Zenon
  <2> HIDE DEF f
  <2> QED
    BY <2>1, RowCleared, ZenonT(30)
<1>9. DOMAIN f = still
  BY Zenon
<1> HIDE DEF f
<1>10. /\ DOMAIN pend'[p] = still \cup DOMAIN pend[p]
       /\ \A j \in still : pend'[p][j] = f[j]
       /\ \A j \in DOMAIN pend[p] \ still : pend'[p][j] = pend[p][j]
  <2>1. pend'[p] = Overlay(f, pend[p])
    BY <1>1, <1>2, Zenon DEF Shape
  <2> QED
    BY <2>1, <1>9, Zenon DEF Overlay
<1>11. \A j \in DOMAIN sets \ DOMAIN pend[p] : sets[j].def => j \in still
  BY <1>5, <1>6, Zenon
<1>12. \A j \in DOMAIN pend[p] \cap DOMAIN sets : pend[p][j].def /\ sets[j].def => j \in still
  BY <1>5, <1>6, Zenon
<1> HIDE DEF still
<1>13. /\ Shape' /\ Only(p) /\ Quiet /\ DrawStep(p) /\ Asked(p)' /\ Knows(p)'
       /\ Busy(p)' /\ pc'[p] = "mark"
  <2>1. \E g : pend' = [pend EXCEPT ![p] = g]
    BY <1>1, Zenon
  <2> QED
    BY <2>1, <1>1, <1>2, <1>3, MovesOn, Zenon
<1>14. LockStep(p)
  <2>1. DOMAIN pend'[p] \subseteq 1 .. nextId' - 1
    <3>1. still \subseteq 1 .. nextId - 1
      BY <1>7, Zenon DEF Inv, Table, RowsKnown
    <3> QED
      BY <3>1, <1>1, <1>10, Zenon DEF Inv, Locks
  <2>2. \A q \in Req \ {p} : DOMAIN pend'[p] \cap DOMAIN pend[q] = {}
    <3>1. \A q \in Req \ {p} : still \cap DOMAIN pend[q] = {}
      BY <1>1, <1>7, Zenon DEF Locked
    <3>2. \A q \in Req \ {p} : DOMAIN pend[p] \cap DOMAIN pend[q] = {}
      BY Zenon DEF Inv, Locks
    <3> QED
      BY <3>1, <3>2, <1>10, Zenon
  <2>3. pc[p] \in Locking
    BY <1>1, Zenon DEF Locking
  <2> QED
    BY <2>1, <2>2, <2>3, <1>1, <1>2, <1>13, Zenon DEF Inv, Locks, LockStep
<1>15. \A j \in DOMAIN pend'[p] : pend'[p][j] \in KeySetRow
  BY <1>4, <1>8, <1>10, Zenon
<1>16. CASE op[p].kind = "default"
  <2>1. DOMAIN pend[p] = {}
    BY <1>1, <1>2, <1>16, Zenon DEF Local, Written, DefaultWrites
  <2>2. ASSUME NEW j \in DOMAIN pend'[p] PROVE ~pend'[p][j].def /\ Same(p, j)'
    <3>1. j \in still /\ pend'[p][j] = f[j] /\ j \in DOMAIN sets /\ Seen(p)[j] = sets[j]
      BY <2>1, <1>5, <1>7, <1>10, Zenon
    <3> QED
      BY <3>1, <1>1, <1>8, Zenon DEF Same
  <2>3. \A d \in DOMAIN sets : sets[d].def => d \in DOMAIN pend'[p]
    BY <2>1, <1>10, <1>11, Zenon
  <2>4. Flags(p)'
    BY <2>2, <2>3, <1>1, <1>13, Zenon DEF Flags
  <2>5. DefaultWrites(p)'
    BY <2>2, <1>13, Zenon DEF DefaultWrites
  <2>6. Written(p)'
    BY <2>4, <2>5, <1>16, <1>1, <1>13, <1>15, Zenon DEF Written, Reading
  <2> QED
    BY <2>6, <1>13, <1>14, Zenon DEF Sound, Local
<1>17. CASE op[p].kind = "rename"
  <2>1. /\ Replaces(p) /\ DOMAIN pend[p] = {n, i} /\ ~pend[p][n].def /\ pend[p][i].def = sets[i].def
        /\ i \in DOMAIN sets
    BY <1>1, <1>2, <1>17, Zenon DEF Local, Written, RenameWrites, Replaces
  <2>2. n \notin DOMAIN sets
    <3>1. HasDrawn(p)
      BY <1>1, <1>2, <1>17, Zenon DEF HasDrawn
    <3> QED
      BY <3>1, Zenon DEF Inv, Drawn
  <2>3. n \notin still /\ pend'[p][n] = pend[p][n] /\ n # i
    BY <2>1, <2>2, <1>7, <1>10, Zenon
  <2>4. /\ ~pend'[p][i].def /\ pend'[p][i].state = pend[p][i].state /\ pend'[p][i].root = pend[p][i].root
        /\ pend'[p][i].keys = pend[p][i].keys
    <3>1. CASE i \in still
      BY <3>1, <2>1, <1>5, <1>8, <1>10, ZenonT(30)
    <3>2. CASE i \notin still
      BY <3>2, <2>1, <1>10, <1>12, Zenon
    <3> QED
      BY <3>1, <3>2, Zenon
  <2>5. ASSUME NEW j \in DOMAIN pend'[p] \ {n, i} PROVE ~pend'[p][j].def /\ Same(p, j)'
    <3>1. j \in still /\ pend'[p][j] = f[j] /\ j \in DOMAIN sets /\ Seen(p)[j] = sets[j]
      BY <2>1, <1>5, <1>7, <1>10, Zenon
    <3> QED
      BY <3>1, <1>1, <1>8, Zenon DEF Same
  <2>6. \A j \in DOMAIN pend'[p] : ~pend'[p][j].def
    BY <2>1, <2>3, <2>4, <2>5, Zenon
  <2>7. \A d \in DOMAIN sets : sets[d].def => d \in DOMAIN pend'[p]
    BY <1>10, <1>11, Zenon
  <2>8. Flags(p)'
    BY <2>6, <2>7, <1>1, <1>13, Zenon DEF Flags
  <2>9. Replaces(p)'
    <3>1. Continues(p)' /\ Member(pend[p][new[p]])' /\ Member(pend[p][op[p].id])'
      BY <2>1, <2>3, <2>4, <1>1, ZenonT(60) DEF Replaces, Continues, Member
    <3>2. {n, i} \subseteq DOMAIN pend'[p]
      BY <2>1, <1>10, Zenon
    <3> QED
      BY <3>1, <3>2, <2>1, <2>4, <2>5, <1>1, Zenon DEF Replaces
  <2>10. RenameWrites(p)'
    BY <2>9, <1>13, Zenon DEF RenameWrites
  <2>11. Written(p)'
    BY <2>8, <2>10, <1>17, <1>1, <1>13, <1>15, Zenon DEF Written, Reading
  <2> QED
    BY <2>11, <1>13, <1>14, Zenon DEF Sound, Local
<1> QED
  BY <1>3, <1>16, <1>17, Zenon

\* The new default is marked (Mark).
LEMMA MarkSound ==
  ASSUME NEW p \in Req, Inv, Mark(p)
  PROVE  Sound(p)
<1> DEFINE i == op[p].id
<1> DEFINE n == new[p]
<1> DEFINE m == Marked(p)
<1>1. pc[p] = "mark" /\ UNCHANGED <<now, nextId, wanted>> /\ ~Locked(p, m)
  BY Zenon DEF Mark, At, Marked
<1>2. Busy(p) /\ Local(p) /\ Shape /\ op[p].kind \in {"rename", "default"} /\ Serves("commit", op[p].kind)
  BY <1>1, Zenon DEF Inv, Busy, Local, Asked, Serves
<1>3. CASE Refused(p)
  BY <1>1, <1>3, RefusedSound, Zenon
<1>4. CASE ~Refused(p)
  <2> DEFINE row == Flagged(Seen(p)[m], TRUE)
  <2>1. /\ m \in DOMAIN Seen(p) /\ Write(p, m, row) /\ pc' = [pc EXCEPT ![p] = "commit"]
        /\ UNCHANGED <<sets, owner, op, old, new, snap>>
    BY <1>4, Zenon DEF Mark, Goto, Marked
  <2>2. \A j \in DOMAIN pend[p] : pend[p][j] \in KeySetRow /\ ~pend[p][j].def
    BY <1>1, <1>2, Zenon DEF Local, Written, Flags
  <2>3. /\ DOMAIN Seen(p) = DOMAIN pend[p] \cup DOMAIN sets
        /\ \A j \in DOMAIN pend[p] : Seen(p)[j] = pend[p][j]
        /\ \A j \in DOMAIN sets \ DOMAIN pend[p] : Seen(p)[j] = sets[j]
        /\ \A j \in DOMAIN Seen(p) : Seen(p)[j] \in KeySetRow
    BY <2>2, SeenIs, Zenon DEF Inv, Table
  <2>4. /\ row \in KeySetRow /\ row.def /\ row.state = Seen(p)[m].state
        /\ row.vis = Seen(p)[m].vis /\ row.root = Seen(p)[m].root /\ row.keys = Seen(p)[m].keys
    BY <2>1, <2>3, RowMarked, Zenon
  <2> HIDE DEF row, m
  <2>5. /\ DOMAIN pend'[p] = DOMAIN pend[p] \cup {m} /\ pend'[p][m] = row
        /\ \A j \in DOMAIN pend[p] \ {m} : pend'[p][j] = pend[p][j]
    <3>1. Shape /\ Write(p, m, row)
      BY <1>2, <2>1, Zenon
    <3> QED
      BY <3>1, WriteIs, ZenonT(30)
  <2>6. /\ Shape' /\ Only(p) /\ Quiet /\ DrawStep(p) /\ Asked(p)' /\ Knows(p)'
        /\ Busy(p)' /\ pc'[p] = "commit"
    <3>1. \E f : pend' = [pend EXCEPT ![p] = f]
      BY <2>1, Zenon DEF Write
    <3>2. "commit" \in Stage /\ "commit" \notin {"idle", "emit", "get"} /\ pc[p] \in Inserted /\ pc[p] # "get"
      BY <1>1, Zenon DEF Stage, Locking, Inserted
    <3> QED
      BY <3>1, <3>2, <1>1, <1>2, <2>1, MovesOn, Zenon
  <2>7. LockStep(p)
    <3>1. m \in 1 .. nextId' - 1
      BY <1>1, <2>1, <2>3, Zenon DEF Inv, Table, RowsKnown, Locks
    <3>2. \A q \in Req \ {p} : m \notin DOMAIN pend[q]
      BY <1>1, Zenon DEF Locked
    <3>3. pc[p] \in Locking
      BY <1>1, Zenon DEF Locking
    <3> QED
      BY <3>1, <3>2, <3>3, <1>1, <1>2, <2>1, <2>6, WriteLocks, Zenon
  <2>8. \A j \in DOMAIN pend'[p] : pend'[p][j] \in KeySetRow
    BY <2>2, <2>4, <2>5, Zenon
  <2>9. Marked(p)' = m
    BY <2>1, Zenon DEF Marked, m
  <2>10. /\ \A j \in DOMAIN pend'[p] \ {m} : ~pend'[p][j].def
         /\ \A d \in DOMAIN sets : sets[d].def => d \in DOMAIN pend'[p]
    BY <1>1, <1>2, <2>2, <2>5, Zenon DEF Local, Written, Flags
  <2>11. row.state = "active" => Flags(p)'
    <3>1. SUFFICES ASSUME row.state = "active" PROVE Flags(p)'
      BY Zenon
    <3>2. Moves(p, Marked(p))'
      BY <3>1, <2>1, <2>4, <2>5, <2>9, <2>10, Zenon DEF Moves
    <3> QED
      BY <3>2, <1>2, <2>1, <2>6, Zenon DEF Flags
  <2>12. CASE op[p].kind = "default"
    <3>1. HasRead(p) /\ Serialized
      BY <1>1, <1>2, <2>12, Zenon DEF HasRead, Local, Asked
    <3>2. m = i /\ i \in DOMAIN sets /\ sets[i].state = "active"
      BY <3>1, <1>2, <2>12, Zenon DEF Local, Knows, Marked, m
    <3>3. \A j \in DOMAIN pend[p] : Same(p, j)
      BY <1>2, <2>12, Zenon DEF Local, Written, DefaultWrites
    <3>4. /\ Seen(p)[i].state = sets[i].state /\ Seen(p)[i].vis = sets[i].vis
          /\ Seen(p)[i].root = sets[i].root /\ Seen(p)[i].keys = sets[i].keys
      <4>1. CASE i \in DOMAIN pend[p]
        BY <4>1, <3>3, <2>3, ZenonT(60) DEF Same
      <4>2. CASE i \notin DOMAIN pend[p]
        BY <4>2, <3>2, <2>3, Zenon
      <4> QED
        BY <4>1, <4>2, Zenon
    <3>5. ASSUME NEW j \in DOMAIN pend'[p] PROVE Same(p, j)'
      <4>1. CASE j = i
        BY <4>1, <3>2, <3>4, <2>1, <2>4, <2>5, Zenon DEF Same
      <4>2. CASE j # i
        <5>1. j \in DOMAIN pend[p] /\ pend'[p][j] = pend[p][j]
          BY <4>2, <3>2, <3>5, <2>5, Zenon
        <5> QED
          BY <5>1, <3>3, <2>1, Zenon DEF Same
      <4> QED
        BY <4>1, <4>2, Zenon
    <3>6. DefaultWrites(p)'
      BY <3>5, <2>6, Zenon DEF DefaultWrites
    <3>7. Flags(p)'
      BY <3>2, <3>4, <2>4, <2>11, Zenon
    <3>8. Written(p)'
      BY <3>6, <3>7, <2>12, <2>1, <2>6, <2>8, ZenonT(60) DEF Written, Reading
    <3> QED
      BY <3>8, <2>6, <2>7, Zenon DEF Sound, Local
  <2>13. CASE op[p].kind = "rename"
    <3>1. Replaces(p) /\ HasDrawn(p)
      BY <1>1, <1>2, <2>13, Zenon DEF Local, Written, RenameWrites, HasDrawn, Inserted
    <3>2. m = n /\ n \in DOMAIN pend[p] /\ n # i /\ Seen(p)[n] = pend[p][n]
      <4>1. m = n /\ n \in DOMAIN pend[p]
        BY <3>1, <2>13, Zenon DEF Replaces, Marked, m
      <4>2. n \notin DOMAIN sets
        BY <3>1, Zenon DEF Inv, Drawn
      <4> QED
        BY <4>1, <4>2, <3>1, <2>3, Zenon DEF Replaces
    <3>3. /\ DOMAIN pend'[p] = DOMAIN pend[p]
          /\ \A j \in DOMAIN pend[p] \ {n} : pend'[p][j] = pend[p][j]
      BY <3>2, <2>5, Zenon
    <3>4. Continues(p)' /\ Member(pend[p][new[p]])' /\ row.state = "active"
      <4>1. pend'[p][new[p]] = row /\ new' = new /\ old' = old
        BY <3>2, <2>1, <2>5, Zenon
      <4>2. /\ row.state = pend[p][n].state /\ row.vis = pend[p][n].vis
            /\ row.root = pend[p][n].root /\ row.keys = pend[p][n].keys
        BY <3>2, <2>4, Zenon
      <4>3. /\ pend[p][n].state = "active" /\ pend[p][n].vis = old[p].vis
            /\ pend[p][n].root = old[p].root /\ Member(pend[p][n])
        BY <3>1, Zenon DEF Replaces, Continues
      <4>4. /\ row.state = "active" /\ row.vis = old[p].vis /\ row.root = old[p].root
            /\ Member(row)
        BY <4>2, <4>3, Zenon DEF Member
      <4> QED
        BY <4>1, <4>4, Zenon DEF Continues, Member
    <3>5. pend'[p][i] = pend[p][i] /\ Member(pend[p][op[p].id])'
      BY <3>1, <3>2, <3>3, <2>1, Zenon DEF Replaces, Member
    <3>6. ASSUME NEW j \in DOMAIN pend'[p] \ {n, i} PROVE Same(p, j)'
      BY <3>1, <3>3, <3>6, <2>1, ZenonT(60) DEF Replaces, Same
    <3>7. Replaces(p)'
      BY <3>1, <3>3, <3>4, <3>5, <3>6, <2>1, Zenon DEF Replaces
    <3>8. RenameWrites(p)'
      BY <3>7, <2>6, Zenon DEF RenameWrites
    <3>9. Flags(p)'
      BY <3>4, <2>11, Zenon
    <3>10. Written(p)'
      BY <3>8, <3>9, <2>13, <2>1, <2>6, <2>8, Zenon DEF Written, Reading
    <3> QED
      BY <3>10, <2>6, <2>7, Zenon DEF Sound, Local
  <2> QED
    BY <1>2, <2>12, <2>13, Zenon
<1> QED
  BY <1>3, <1>4, Zenon

\* The row is deleted (Remove).
LEMMA RemoveSound ==
  ASSUME NEW p \in Req, Inv, Remove(p)
  PROVE  Sound(p)
<1> DEFINE i == op[p].id
<1>1. pc[p] = "remove" /\ UNCHANGED <<now, nextId, wanted>> /\ ~Locked(p, i)
  BY Zenon DEF Remove, At
<1>2. Busy(p) /\ Local(p) /\ Shape /\ op[p].kind = "delete" /\ Serves("commit", op[p].kind)
  BY <1>1, Zenon DEF Inv, Busy, Local, Asked, Serves
<1>3. CASE Refused(p)
  BY <1>1, <1>3, RefusedSound, Zenon
<1>4. CASE ~Refused(p)
  <2>1. /\ i \in DOMAIN Seen(p) /\ Write(p, i, Gone) /\ pc' = [pc EXCEPT ![p] = "commit"]
        /\ UNCHANGED <<sets, owner, op, old, new, snap>>
    BY <1>4, Zenon DEF Remove, Goto
  <2>2. DOMAIN pend[p] = {} /\ ~Default(i)
    BY <1>1, <1>2, Zenon DEF Local, Written, Reading, DeleteWrites
  <2>3. i \in DOMAIN sets
    BY <2>1, <2>2, ReadsCommitted, Zenon
  <2>4. DOMAIN pend'[p] = {i} /\ pend'[p][i] = Gone
    BY <1>2, <2>1, <2>2, WriteIs, SMT
  <2>5. /\ Shape' /\ Only(p) /\ Quiet /\ DrawStep(p) /\ Asked(p)' /\ Knows(p)'
        /\ Busy(p)' /\ pc'[p] = "commit"
    <3>1. \E f : pend' = [pend EXCEPT ![p] = f]
      BY <2>1, Zenon DEF Write
    <3>2. /\ "commit" \in Stage /\ "commit" \notin {"idle", "emit", "get"} /\ pc[p] # "get"
          /\ op[p].kind \notin {"create", "rename"}
      BY <1>1, <1>2, Zenon DEF Stage, Locking
    <3> QED
      BY <3>1, <3>2, <1>1, <1>2, <2>1, MovesOn, Zenon
  <2>6. LockStep(p)
    <3>1. i \in 1 .. nextId' - 1
      BY <1>1, <2>3, Zenon DEF Inv, Table, RowsKnown
    <3>2. \A q \in Req \ {p} : i \notin DOMAIN pend[q]
      BY <1>1, Zenon DEF Locked
    <3>3. op[p].kind \notin {"create", "rename"}
      BY <1>2, Zenon
    <3> QED
      BY <3>1, <3>2, <3>3, <1>1, <1>2, <2>1, <2>5, WriteLocks, Zenon
  <2>7. DeleteWrites(p)'
    BY <2>1, <2>2, <2>4, Zenon DEF DeleteWrites, Default
  <2>8. Written(p)'
    BY <2>7, <1>2, <2>1, <2>5, Zenon DEF Written, Reading
  <2> QED
    BY <2>5, <2>6, <2>8, Zenon DEF Sound, Local
<1> QED
  BY <1>3, <1>4, Zenon

(***************************************************************************)
(* Commits.                                                                *)
(***************************************************************************)
\* What every commit does beside installing the rows (Commit).
LEMMA CommitFrame ==
  ASSUME NEW p \in Req, Inv, Commit(p)
  PROVE  /\ Shape' /\ Only(p) /\ Locks' /\ Local(p)' /\ nextId' = nextId /\ sets' = Seen(p)
         /\ Busy(p) /\ Local(p) /\ pc[p] = "commit" /\ Shape /\ ~Busy(p)'
         /\ op[p].kind # "visibility" => wanted' = wanted
         /\ op[p].kind = "visibility" =>
              old[p].root \in 1 .. nextId - 1 /\ wanted' = [wanted EXCEPT ![old[p].root] = op[p].arg]
<1>1. /\ pc[p] = "commit" /\ sets' = Seen(p) /\ pend' = [pend EXCEPT ![p] = Empty]
      /\ owner' = IF owner = p THEN None ELSE owner
      /\ pc' = [pc EXCEPT ![p] = "emit"]
      /\ UNCHANGED <<now, nextId, op, old, new, snap>>
  BY Zenon DEF Commit, Goto
<1>2. Busy(p) /\ Local(p) /\ Shape
  BY <1>1, Zenon DEF Inv, Busy
<1>3. /\ op[p].kind = "visibility" => wanted' = [wanted EXCEPT ![old[p].root] = op[p].arg]
      /\ op[p].kind = "create" => wanted' = [wanted EXCEPT ![new[p]] = "protected"]
      /\ op[p].kind \notin {"visibility", "create"} => wanted' = wanted
  BY Zenon DEF Commit
<1>4. op[p].kind = "create" => wanted' = wanted
  <2>1. SUFFICES ASSUME op[p].kind = "create" PROVE [wanted EXCEPT ![new[p]] = "protected"] = wanted
    BY <1>3, Zenon
  <2>2. wanted[new[p]] = "protected"
    BY <1>1, <1>2, <2>1, Zenon DEF Local, Written, CreateWrites
  <2> QED
    BY <2>2, <1>2, Zenon DEF Shape
<1>5. op[p].kind = "visibility" =>
        /\ old[p].root \in 1 .. nextId - 1 /\ op[p].arg \in Visibility
  BY <1>1, <1>2, Zenon DEF Local, Asked, Knows, HasRead, RowKnown
<1>6. wanted' \in [1 .. MaxId -> Visibility]
  BY <1>2, <1>3, <1>4, <1>5, Zenon DEF Shape
<1>7. Shape' /\ Only(p)
  BY <1>1, <1>2, <1>6, Zenon DEF Shape, Only, Stage
<1>8. pc'[p] = "emit" /\ ~Busy(p)' /\ DOMAIN pend'[p] = {}
  BY <1>1, <1>2, Zenon DEF Shape, Busy, Empty
<1>9. LockStep(p)
  <2>1. pc'[p] \notin Locking
    BY <1>8, Zenon DEF Locking
  <2>2. owner' # p
    BY <1>1, KeySetsAssumptions, Zenon
  <2> QED
    BY <2>1, <2>2, <1>1, <1>8, Zenon DEF LockStep
<1>10. Locks'
  BY <1>1, <1>2, <1>7, <1>9, LocksKept, Zenon DEF Inv
<1> QED
  BY <1>1, <1>2, <1>3, <1>4, <1>5, <1>7, <1>8, <1>10, RestingLocal, Zenon

\* On SQLite nobody else is in a transaction that one commits.
LEMMA AloneOnSqlite ==
  ASSUME NEW p \in Req, Inv, Commit(p), Serialized
  PROVE  Drawn' /\ \A q \in Req \ {p} : Local(q)'
<1>1. Busy(p) /\ ~Busy(p)' /\ Only(p)
  BY CommitFrame, Zenon
<1>2. \A q \in Req : ~Busy(q)'
  <2>1. \A q \in Req \ {p} : ~Busy(q)
    BY <1>1, Zenon DEF Inv, Locks
  <2> QED
    BY <1>1, <2>1, Zenon DEF Only, Busy
<1>3. \A q \in Req : ~HasDrawn(q)'
  BY <1>2, Zenon DEF HasDrawn, Busy, Inserted
<1> QED
  BY <1>2, <1>3, RestingLocal, Zenon DEF Drawn

\* Where a deletion commits, the one row is gone.
LEMMA DeletedIs ==
  ASSUME NEW p \in Req, Inv, Commit(p), op[p].kind = "delete"
  PROVE  /\ DOMAIN sets' = DOMAIN sets \ {op[p].id}
         /\ \A j \in DOMAIN sets' : sets'[j] = sets[j]
         /\ ~Default(op[p].id) /\ DOMAIN pend[p] = {op[p].id}
<1> DEFINE i == op[p].id
<1>1. DOMAIN pend[p] = {i} /\ pend[p][i] = Gone /\ ~Default(i)
  BY CommitFrame, Zenon DEF Local, Written, DeleteWrites
<1> DEFINE all == Overlay(pend[p], sets)
<1>2. DOMAIN all = {i} \cup DOMAIN sets /\ all[i] = Gone /\ \A j \in DOMAIN sets \ {i} : all[j] = sets[j]
  BY <1>1, Zenon DEF Overlay
<1>3. \A j \in DOMAIN sets : sets[j].state # "gone"
  BY RowFields, Zenon DEF Inv, Table, RowsKnown, RowKnown
<1>4. Gone.state = "gone"
  BY Zenon DEF Gone
<1> HIDE DEF all
<1>5. {j \in DOMAIN all : all[j].state # "gone"} = DOMAIN sets \ {i}
  BY <1>2, <1>3, <1>4, Zenon
<1>6. sets' = [j \in DOMAIN sets \ {i} |-> all[j]]
  BY <1>5, CommitFrame, Zenon DEF Seen, all
<1> QED
  BY <1>1, <1>2, <1>6, Zenon

\* Where another operation commits, its rows are over the committed ones.
LEMMA InstalledIs ==
  ASSUME NEW p \in Req, Inv, Commit(p), op[p].kind # "delete"
  PROVE  /\ DOMAIN sets' = DOMAIN pend[p] \cup DOMAIN sets
         /\ \A j \in DOMAIN pend[p] : sets'[j] = pend[p][j] /\ pend[p][j] \in KeySetRow
         /\ \A j \in DOMAIN sets \ DOMAIN pend[p] : sets'[j] = sets[j]
         /\ Keeps(p) \/ (op[p].kind \in {"rename", "default"} /\ Moves(p, Marked(p)))
<1>1. sets' = Seen(p) /\ Busy(p) /\ Local(p) /\ pc[p] = "commit"
  BY CommitFrame, Zenon
<1>2. (\A j \in DOMAIN pend[p] : pend[p][j] \in KeySetRow) /\ Flags(p)
  BY <1>1, Zenon DEF Local, Written
<1> QED
  BY <1>1, <1>2, SeenIs, Zenon DEF Inv, Table, Flags

\* There is one default before and after.
LEMMA DefaultKept ==
  ASSUME NEW p \in Req, Inv, Commit(p)
  PROVE  OneDefault'
<1>1. PICK d \in DOMAIN sets :
        /\ sets[d].def /\ sets[d].state = "active" /\ \A j \in DOMAIN sets : sets[j].def => j = d
  BY Zenon DEF Inv, Table, OneDefault
<1>2. CASE op[p].kind = "delete"
  <2>1. /\ DOMAIN sets' = DOMAIN sets \ {op[p].id} /\ \A j \in DOMAIN sets' : sets'[j] = sets[j]
        /\ ~Default(op[p].id)
    BY <1>2, DeletedIs, Zenon
  <2>2. d \in DOMAIN sets' /\ sets'[d] = sets[d]
    BY <1>1, <2>1, Zenon DEF Default
  <2>3. \A j \in DOMAIN sets' : sets'[j].def => j = d
    BY <1>1, <2>1, Zenon
  <2> QED
    BY <1>1, <2>2, <2>3, Zenon DEF OneDefault
<1>3. CASE op[p].kind # "delete" /\ Keeps(p)
  <2>1. /\ DOMAIN sets' = DOMAIN pend[p] \cup DOMAIN sets
        /\ \A j \in DOMAIN pend[p] : sets'[j] = pend[p][j]
        /\ \A j \in DOMAIN sets \ DOMAIN pend[p] : sets'[j] = sets[j]
    BY <1>3, InstalledIs, Zenon
  <2>2. d \in DOMAIN sets' /\ sets'[d].def /\ sets'[d].state = "active"
    BY <1>1, <1>3, <2>1, Zenon DEF Keeps, Default
  <2>3. \A j \in DOMAIN sets' : sets'[j].def => j = d
    BY <1>1, <1>3, <2>1, Zenon DEF Keeps, Default
  <2> QED
    BY <2>2, <2>3, Zenon DEF OneDefault
<1>4. CASE op[p].kind # "delete" /\ Moves(p, Marked(p))
  <2> DEFINE m == Marked(p)
  <2>1. /\ DOMAIN sets' = DOMAIN pend[p] \cup DOMAIN sets
        /\ \A j \in DOMAIN pend[p] : sets'[j] = pend[p][j]
        /\ \A j \in DOMAIN sets \ DOMAIN pend[p] : sets'[j] = sets[j]
    BY <1>4, InstalledIs, Zenon
  <2> HIDE DEF m
  <2>2. m \in DOMAIN sets' /\ sets'[m].def /\ sets'[m].state = "active"
    BY <1>4, <2>1, Zenon DEF Moves, m
  <2>3. \A j \in DOMAIN sets' : sets'[j].def => j = m
    BY <1>4, <2>1, Zenon DEF Moves, m
  <2> QED
    BY <2>2, <2>3, Zenon DEF OneDefault
<1> QED
  BY <1>2, <1>3, <1>4, InstalledIs, Zenon

\* A row that says of its set what another says is as good.
LEMMA RowLike ==
  ASSUME NEW row \in KeySetRow, NEW other, RowKnown(other), row.root = other.root, row.keys = other.keys
  PROVE  RowKnown(row)
BY Zenon DEF RowKnown, Member

\* The rows a commit installs are known, and none is more visible than wanted.
LEMMA InstalledKnown ==
  ASSUME NEW p \in Req, Inv, Commit(p), op[p].kind # "delete", NEW j \in DOMAIN pend[p]
  PROVE  /\ RowKnown(pend[p][j])
         /\ pend[p][j].state = "active" /\ pend[p][j].vis = "public" => wanted'[pend[p][j].root] = "public"
<1> DEFINE row == pend[p][j]
<1>1. /\ Busy(p) /\ Local(p) /\ pc[p] = "commit" /\ Shape /\ op[p].kind \in Kind
      /\ op[p].kind # "visibility" => wanted' = wanted
      /\ op[p].kind = "visibility" => /\ old[p].root \in 1 .. nextId - 1
                                      /\ wanted' = [wanted EXCEPT ![old[p].root] = op[p].arg]
  BY CommitFrame, Zenon DEF Local, Asked
<1>2. row \in KeySetRow
  BY InstalledIs, Zenon
<1> HIDE DEF row
<1>3. op[p].kind # "create" => RowKnown(old[p]) /\ Allowed(old[p])
  BY <1>1, Zenon DEF Local, Knows, HasRead
<1>4. ASSUME Same(p, j), op[p].kind # "visibility"
      PROVE  RowKnown(row) /\ (row.state = "active" /\ row.vis = "public" => wanted'[row.root] = "public")
  <2>1. RowKnown(sets[j]) /\ (sets[j].state = "active" => Allowed(sets[j]))
    BY <1>4, Zenon DEF Inv, Table, RowsKnown, Same
  <2>2. row.root = sets[j].root /\ row.keys = sets[j].keys /\ row.vis = sets[j].vis /\ row.state = sets[j].state
    BY <1>4, Zenon DEF Same, row
  <2> QED
    BY <1>1, <1>2, <1>4, <2>1, <2>2, RowLike, Zenon DEF Allowed
<1>5. CASE op[p].kind = "create"
  <2>1. row.root = new[p] /\ row.vis = "protected" /\ HasDrawn(p)
    BY <1>1, <1>5, Zenon DEF Local, Written, CreateWrites, HasDrawn, Inserted, row
  <2>2. new[p] \in 3 .. nextId - 1
    BY <2>1, Zenon DEF Inv, Drawn
  <2>3. nextId \in Nat
    BY <1>1, KeySetsAssumptions, SMT DEF Shape
  <2>4. row.root \in 1 .. nextId - 1 /\ row.root \notin {1, 2}
    BY <2>1, <2>2, <2>3, SMT
  <2> QED
    BY <1>2, <2>1, <2>4, Zenon DEF RowKnown, Member, row
<1>6. CASE op[p].kind = "rename"
  <2>1. Replaces(p)
    BY <1>1, <1>6, Zenon DEF Local, Written, RenameWrites
  <2>2. CASE j = new[p]
    <3>1. row.root = old[p].root /\ row.vis = old[p].vis /\ Member(row)
      BY <2>1, <2>2, Zenon DEF Replaces, Continues, row
    <3> QED
      BY <3>1, <1>1, <1>2, <1>3, <1>6, Zenon DEF RowKnown, Allowed, row
  <2>3. CASE j = op[p].id
    <3>1. row.root = old[p].root /\ row.state = "quarantined" /\ Member(row)
      BY <2>1, <2>3, Zenon DEF Replaces, row
    <3> QED
      BY <3>1, <1>2, <1>3, <1>6, Zenon DEF RowKnown, row
  <2>4. CASE j \notin {new[p], op[p].id}
    BY <2>1, <2>4, <1>4, <1>6, Zenon DEF Replaces, row
  <2> QED
    BY <2>2, <2>3, <2>4, Zenon
<1>7. CASE op[p].kind = "default"
  <2>1. Same(p, j)
    BY <1>1, <1>7, Zenon DEF Local, Written, DefaultWrites
  <2> QED
    BY <2>1, <1>4, <1>7, Zenon DEF row
<1>8. CASE op[p].kind = "visibility"
  <2>1. row.vis = op[p].arg /\ row.root = old[p].root /\ Member(row)
    BY <1>1, <1>8, Zenon DEF Local, Written, VisibilityWrites, row
  <2>2. wanted'[old[p].root] = op[p].arg
    <3>1. old[p].root \in 1 .. MaxId
      BY <1>1, <1>8, KeySetsAssumptions, SMT DEF Shape
    <3>2. DOMAIN wanted = 1 .. MaxId
      BY <1>1, Zenon DEF Shape
    <3>3. [wanted EXCEPT ![old[p].root] = op[p].arg][old[p].root] = op[p].arg
      BY <3>1, <3>2, Zenon
    <3> QED
      BY <3>3, <1>1, <1>8, Zenon
  <2> QED
    BY <2>1, <2>2, <1>2, <1>3, <1>8, Zenon DEF RowKnown, row
<1> QED
  BY <1>1, <1>5, <1>6, <1>7, <1>8, Zenon DEF Kind

\* The committed rows it leaves alone are allowed still: a change of visibility
\* writes the only active row of its set.
LEMMA OthersAllowed ==
  ASSUME NEW p \in Req, Inv, Commit(p), NEW j \in DOMAIN sets, j \notin DOMAIN pend[p],
         sets[j].state = "active", sets[j].vis = "public"
  PROVE  wanted'[sets[j].root] = "public"
<1>1. /\ Busy(p) /\ Local(p) /\ pc[p] = "commit" /\ Shape
      /\ op[p].kind # "visibility" => wanted' = wanted
      /\ op[p].kind = "visibility" => /\ old[p].root \in 1 .. nextId - 1
                                      /\ wanted' = [wanted EXCEPT ![old[p].root] = op[p].arg]
  BY CommitFrame, Zenon
<1>2. wanted[sets[j].root] = "public"
  BY Zenon DEF Inv, Table, RowsKnown, Allowed
<1>3. CASE op[p].kind = "visibility"
  <2>1. Serialized /\ HasRead(p) /\ DOMAIN pend[p] = {op[p].id}
    BY <1>1, <1>3, Zenon DEF Local, Asked, HasRead, Written, VisibilityWrites
  <2>2. op[p].id \in DOMAIN sets /\ sets[op[p].id].state = "active" /\ sets[op[p].id].root = old[p].root
    BY <1>1, <2>1, Zenon DEF Local, Knows
  <2>3. sets[j].root # old[p].root
    BY <2>1, <2>2, Zenon DEF Inv, Table, DistinctRoots
  <2>4. DOMAIN wanted = 1 .. MaxId
    BY <1>1, Zenon DEF Shape
  <2>5. sets[j].root \in 1 .. nextId - 1
    BY Zenon DEF Inv, Table, RowsKnown, RowKnown
  <2>6. sets[j].root \in 1 .. MaxId
    BY <2>5, <1>1, KeySetsAssumptions, SMT DEF Shape
  <2>7. [wanted EXCEPT ![old[p].root] = op[p].arg][sets[j].root] = "public"
    BY <2>3, <2>4, <2>6, <1>2, Zenon
  <2> QED
    BY <2>7, <1>1, <1>3, Zenon
<1> QED
  BY <1>1, <1>2, <1>3, Zenon

\* The rows are known after a commit, and none is more visible than wanted.
LEMMA RowsKept ==
  ASSUME NEW p \in Req, Inv, Commit(p)
  PROVE  RowsKnown'
<1>1. nextId' = nextId
  BY CommitFrame, Zenon
<1>2. \A j \in DOMAIN sets : j \in 1 .. nextId - 1 /\ RowKnown(sets[j])
  BY Zenon DEF Inv, Table, RowsKnown
<1>3. SUFFICES ASSUME NEW j \in DOMAIN sets'
               PROVE  /\ j \in 1 .. nextId - 1 /\ RowKnown(sets[j])'
                      /\ sets'[j].state = "active" /\ sets'[j].vis = "public" => wanted'[sets'[j].root] = "public"
  BY <1>1, Zenon DEF RowsKnown, Allowed
<1>4. CASE j \in DOMAIN sets /\ j \notin DOMAIN pend[p]
  <2>1. sets'[j] = sets[j]
    <3>1. CASE op[p].kind = "delete"
      BY <3>1, DeletedIs, Zenon
    <3>2. CASE op[p].kind # "delete"
      <4>1. \A k \in DOMAIN sets \ DOMAIN pend[p] : sets'[k] = sets[k]
        BY <3>2, InstalledIs, Zenon
      <4> QED
        BY <4>1, <1>4, Zenon
    <3> QED
      BY <3>1, <3>2, Zenon
  <2>2. RowKnown(sets[j])'
    BY <2>1, <1>1, <1>2, <1>4, Zenon DEF RowKnown
  <2> QED
    BY <2>1, <2>2, <1>2, <1>4, OthersAllowed, Zenon
<1>5. CASE ~(j \in DOMAIN sets /\ j \notin DOMAIN pend[p])
  <2>1. op[p].kind # "delete"
    <3>1. op[p].kind = "delete" => DOMAIN sets' = DOMAIN sets \ {op[p].id} /\ DOMAIN pend[p] = {op[p].id}
      BY DeletedIs, Zenon
    <3> QED
      BY <3>1, <1>5, Zenon
  <2>2. j \in DOMAIN pend[p] /\ sets'[j] = pend[p][j]
    <3>1. DOMAIN sets' = DOMAIN pend[p] \cup DOMAIN sets /\ \A k \in DOMAIN pend[p] : sets'[k] = pend[p][k]
      BY <2>1, InstalledIs, Zenon
    <3> QED
      BY <3>1, <1>5, Zenon
  <2>3. j \in 1 .. nextId - 1
    BY <2>2, Zenon DEF Inv, Locks
  <2>4. /\ RowKnown(pend[p][j])
        /\ pend[p][j].state = "active" /\ pend[p][j].vis = "public" => wanted'[pend[p][j].root] = "public"
    BY <2>1, <2>2, InstalledKnown, Zenon
  <2>5. RowKnown(sets[j])'
    BY <2>2, <2>4, <1>1, Zenon DEF RowKnown
  <2> QED
    BY <2>2, <2>3, <2>4, <2>5, Zenon
<1> QED
  BY <1>4, <1>5, Zenon

\* A row after a commit is the one that was inserted, or was there before as a row
\* of the same set; none becomes active again, and only SetDefault moves the flag
\* to a row that was there.
LEMMA Inherits ==
  ASSUME NEW p \in Req, Inv, Commit(p), NEW j \in DOMAIN sets',
         ~(op[p].kind \in {"create", "rename"} /\ j = new[p])
  PROVE  /\ j \in DOMAIN sets
         /\ sets'[j].root = sets[j].root
         /\ sets'[j].state = "active" => sets[j].state = "active"
         /\ op[p].kind # "default" /\ sets'[j].def => sets[j].def
<1>1. Busy(p) /\ Local(p) /\ pc[p] = "commit" /\ op[p].kind \in Kind
  BY CommitFrame, Zenon DEF Local, Asked
<1>2. CASE op[p].kind = "delete"
  <2>1. DOMAIN sets' = DOMAIN sets \ {op[p].id} /\ \A k \in DOMAIN sets' : sets'[k] = sets[k]
    BY <1>2, DeletedIs, Zenon
  <2>2. j \in DOMAIN sets /\ sets'[j] = sets[j]
    BY <2>1, Zenon
  <2> QED
    BY <2>2, Zenon
<1>3. CASE op[p].kind # "delete" /\ j \notin DOMAIN pend[p]
  <2>1. /\ DOMAIN sets' = DOMAIN pend[p] \cup DOMAIN sets
        /\ \A k \in DOMAIN sets \ DOMAIN pend[p] : sets'[k] = sets[k]
    BY <1>3, InstalledIs, Zenon
  <2>2. j \in DOMAIN sets /\ sets'[j] = sets[j]
    BY <1>3, <2>1, Zenon
  <2> QED
    BY <2>2, Zenon
<1>4. CASE op[p].kind # "delete" /\ j \in DOMAIN pend[p]
  <2>1. /\ sets'[j] = pend[p][j]
        /\ Keeps(p) \/ (op[p].kind \in {"rename", "default"} /\ Moves(p, Marked(p)))
    BY <1>4, InstalledIs, Zenon
  <2>2. op[p].kind # "default" /\ pend[p][j].def => Default(j)
    <3>1. CASE Keeps(p)
      BY <3>1, <1>4, Zenon DEF Keeps
    <3>2. CASE ~Keeps(p) /\ op[p].kind = "rename"
      <4>1. Moves(p, new[p])
        BY <2>1, <3>2, Zenon DEF Marked
      <4> QED
        BY <4>1, <3>2, <1>4, Zenon DEF Moves
    <3> QED
      BY <3>1, <3>2, <2>1, Zenon
  <2>3. op[p].kind # "create"
    BY <1>1, <1>4, Zenon DEF Local, Written, CreateWrites
  <2>4. /\ op[p].id \in DOMAIN sets => sets[op[p].id].root = old[p].root
        /\ Serialized => op[p].id \in DOMAIN sets /\ sets[op[p].id] = old[p]
        /\ old[p].state = "active"
    BY <1>1, <2>3, Zenon DEF Local, Knows, HasRead
  <2>5. CASE Same(p, j)
    BY <2>1, <2>2, <2>5, Zenon DEF Same, Default
  <2>6. CASE ~Same(p, j) /\ op[p].kind = "rename"
    <3>1. Replaces(p) /\ j # new[p]
      BY <1>1, <2>6, Zenon DEF Local, Written, RenameWrites
    <3>2. j = op[p].id
      BY <3>1, <2>6, <1>4, Zenon DEF Replaces
    <3>3. j \in DOMAIN sets /\ pend[p][j].root = old[p].root /\ pend[p][j].state = "quarantined"
      BY <3>1, <3>2, Zenon DEF Replaces
    <3> QED
      BY <3>2, <3>3, <2>1, <2>2, <2>4, Zenon DEF Default
  <2>7. CASE op[p].kind = "visibility"
    <3>1. Serialized /\ j = op[p].id /\ pend[p][j].root = old[p].root
      BY <1>1, <1>4, <2>7, Zenon DEF Local, Asked, Written, VisibilityWrites
    <3> QED
      BY <3>1, <2>1, <2>2, <2>4, <2>7, Zenon DEF Default
  <2>8. CASE op[p].kind = "default"
    <3>1. Same(p, j)
      BY <1>1, <1>4, <2>8, Zenon DEF Local, Written, DefaultWrites
    <3> QED
      BY <3>1, <2>5
  <2> QED
    BY <1>1, <1>4, <2>3, <2>5, <2>6, <2>7, <2>8, Zenon DEF Kind
<1> QED
  BY <1>2, <1>3, <1>4, Zenon

\* The inserted row is the only active one of its set on SQLite.
LEMMA InsertedAlone ==
  ASSUME NEW p \in Req, Inv, Commit(p), Serialized, op[p].kind \in {"create", "rename"},
         NEW j \in DOMAIN sets', j # new[p], sets'[j].state = "active"
  PROVE  sets'[j].root # sets'[new[p]].root
<1>1. Busy(p) /\ Local(p) /\ pc[p] = "commit" /\ op[p].kind # "delete"
  BY CommitFrame, Zenon
<1>2. j \in DOMAIN sets /\ sets'[j].root = sets[j].root /\ sets[j].state = "active"
  BY Inherits, Zenon
<1>3. \A k \in DOMAIN pend[p] : sets'[k] = pend[p][k]
  BY <1>1, InstalledIs, Zenon
<1>4. CASE op[p].kind = "create"
  <2>1. /\ DOMAIN pend[p] = {new[p]} /\ pend[p][new[p]].root = new[p]
        /\ \A k \in DOMAIN sets : sets[k].root # new[p]
    BY <1>1, <1>4, Zenon DEF Local, Written, CreateWrites
  <2> QED
    BY <2>1, <1>2, <1>3, Zenon
<1>5. CASE op[p].kind = "rename"
  <2>1. Replaces(p) /\ HasRead(p)
    BY <1>1, <1>5, Zenon DEF Local, Written, RenameWrites, HasRead
  <2>2. op[p].id \in DOMAIN sets /\ sets[op[p].id] = old[p] /\ old[p].state = "active"
    BY <1>1, <2>1, Zenon DEF Local, Knows
  <2>3. sets'[new[p]].root = old[p].root /\ sets'[op[p].id].state = "quarantined"
    BY <2>1, <1>3, Zenon DEF Replaces, Continues
  <2>4. j # op[p].id
    BY <2>3, Zenon
  <2>5. sets[j].root # sets[op[p].id].root
    BY <2>2, <2>4, <1>2, Zenon DEF Inv, Table, DistinctRoots
  <2> QED
    BY <2>2, <2>3, <2>5, <1>2, Zenon
<1> QED
  BY <1>4, <1>5, Zenon

\* The table is in order after a commit.
LEMMA TableAfter ==
  ASSUME NEW p \in Req, Inv, Commit(p)
  PROVE  Table'
<1>1. DistinctRoots'
  <2> SUFFICES ASSUME Serialized, NEW i \in DOMAIN sets', NEW j \in DOMAIN sets', i # j,
                      sets'[i].state = "active", sets'[j].state = "active"
               PROVE  sets'[i].root # sets'[j].root
    BY Zenon DEF DistinctRoots
  <2>1. CASE op[p].kind \in {"create", "rename"} /\ i = new[p]
    <3>1. j # new[p]
      BY <2>1, Zenon
    <3>2. sets'[j].root # sets'[new[p]].root
      BY <2>1, <3>1, InsertedAlone, Zenon
    <3> QED
      BY <2>1, <3>2, Zenon
  <2>2. CASE op[p].kind \in {"create", "rename"} /\ j = new[p]
    <3>1. i # new[p]
      BY <2>2, Zenon
    <3>2. sets'[i].root # sets'[new[p]].root
      BY <2>2, <3>1, InsertedAlone, Zenon
    <3> QED
      BY <2>2, <3>2, Zenon
  <2>3. CASE /\ ~(op[p].kind \in {"create", "rename"} /\ i = new[p])
             /\ ~(op[p].kind \in {"create", "rename"} /\ j = new[p])
    <3>1. i \in DOMAIN sets /\ sets'[i].root = sets[i].root /\ sets[i].state = "active"
      BY <2>3, Inherits, Zenon
    <3>2. j \in DOMAIN sets /\ sets'[j].root = sets[j].root /\ sets[j].state = "active"
      BY <2>3, Inherits, Zenon
    <3> QED
      BY <3>1, <3>2, Zenon DEF Inv, Table, DistinctRoots
  <2> QED
    BY <2>1, <2>2, <2>3, Zenon
<1>2. Unchosen'
  <2>1. /\ nextId' = nextId /\ Shape
        /\ op[p].kind # "visibility" => wanted' = wanted
        /\ op[p].kind = "visibility" => /\ old[p].root \in 1 .. nextId - 1
                                        /\ wanted' = [wanted EXCEPT ![old[p].root] = op[p].arg]
    BY CommitFrame, Zenon
  <2>2. SUFFICES ASSUME NEW i \in nextId .. MaxId PROVE wanted'[i] = "protected"
    BY <2>1, Zenon DEF Unchosen
  <2>3. wanted[i] = "protected"
    BY Zenon DEF Inv, Table, Unchosen
  <2>4. CASE op[p].kind = "visibility"
    <3>1. i \in DOMAIN wanted /\ i # old[p].root
      BY <2>1, <2>2, <2>4, KeySetsAssumptions, SMT DEF Shape
    <3>2. [wanted EXCEPT ![old[p].root] = op[p].arg][i] = "protected"
      BY <3>1, <2>3, Zenon
    <3> QED
      BY <3>2, <2>1, <2>4, Zenon
  <2> QED
    BY <2>1, <2>3, <2>4, Zenon
<1> QED
  BY <1>1, <1>2, RowsKept, DefaultKept, Zenon DEF Table

\* What the others remember on Postgres stays true.
LEMMA OthersRemember ==
  ASSUME NEW p \in Req, Inv, Commit(p), ~Serialized, NEW q \in Req \ {p}, Busy(q)
  PROVE  /\ Asked(q)' /\ Knows(q)'
         /\ op[q].kind \in {"create", "rename", "delete"}
         /\ op[q].kind = "delete" => DeleteWrites(q)'
<1>1. /\ Only(p) /\ nextId' = nextId /\ wanted' = wanted /\ Local(q)
      /\ op[p].kind \in {"create", "rename", "delete"} /\ pc[p] = "commit"
  <2>1. Busy(p) /\ Local(p) /\ op[p].kind \in Kind
    BY CommitFrame, Zenon DEF Local, Asked
  <2>2. op[p].kind \notin {"default", "visibility"}
    BY <2>1, Zenon DEF Local, Asked
  <2>3. op[p].kind # "visibility" /\ op[p].kind \in {"create", "rename", "delete"}
    BY <2>1, <2>2, Zenon DEF Kind
  <2> QED
    BY <2>3, CommitFrame, Zenon DEF Inv
<1>2. /\ pc'[q] = pc[q] /\ op'[q] = op[q] /\ old'[q] = old[q] /\ pend'[q] = pend[q]
      /\ Busy(q)' /\ (HasRead(q)' <=> HasRead(q))
  BY <1>1, Zenon DEF Only, Busy, HasRead
<1>3. Asked(q)' /\ op[q].kind \in {"create", "rename", "delete"}
  <2>1. Asked(q)
    BY <1>1, Zenon DEF Local
  <2>2. Asked(q)'
    BY <2>1, <1>1, <1>2, Zenon DEF Asked
  <2> QED
    BY <2>1, <2>2, Zenon DEF Asked, Kind
<1>4. ASSUME HasRead(q), op[q].id \in DOMAIN sets'
      PROVE  /\ op[q].id \in DOMAIN sets /\ sets'[op[q].id].root = sets[op[q].id].root
             /\ sets'[op[q].id].def => sets[op[q].id].def
  <2>1. op[p].kind \in {"create", "rename"} => op[q].id # new[p]
    <3>1. op[p].kind \in {"create", "rename"} => HasDrawn(p)
      BY <1>1, Zenon DEF HasDrawn, Inserted
    <3> QED
      BY <3>1, <1>4, Zenon DEF Inv, Drawn
  <2>2. op[p].kind # "default"
    BY <1>1, Zenon
  <2> QED
    BY <1>4, <2>1, <2>2, Inherits, Zenon
<1>5. Knows(q)'
  <2>1. SUFFICES ASSUME HasRead(q) PROVE (RowKnown(old[q]) /\ old[q].state = "active" /\ Allowed(old[q])
          /\ (op[q].id \in DOMAIN sets => sets[op[q].id].root = old[q].root /\ (sets[op[q].id].def => old[q].def)))'
    BY <1>2, Zenon DEF Knows
  <2>2. /\ RowKnown(old[q]) /\ old[q].state = "active" /\ Allowed(old[q])
        /\ op[q].id \in DOMAIN sets =>
             sets[op[q].id].root = old[q].root /\ (sets[op[q].id].def => old[q].def)
    BY <1>1, <2>1, Zenon DEF Local, Knows
  <2>3. (RowKnown(old[q]) /\ old[q].state = "active" /\ Allowed(old[q]))'
    BY <2>2, <1>1, <1>2, Zenon DEF RowKnown, Allowed
  <2>4. (op[q].id \in DOMAIN sets => sets[op[q].id].root = old[q].root /\ (sets[op[q].id].def => old[q].def))'
    BY <2>1, <2>2, <1>2, <1>4, Zenon
  <2> QED
    BY <2>3, <2>4, Zenon
<1>6. ASSUME op[q].kind = "delete" PROVE DeleteWrites(q)'
  <2>1. DeleteWrites(q) /\ (pc[q] \in {"remove", "commit"} => HasRead(q))
    BY <1>1, <1>6, Zenon DEF Local, Written, HasRead
  <2>2. pc[q] \in {"remove", "commit"} => ~Default(op[q].id)'
    BY <2>1, <1>2, <1>4, Zenon DEF DeleteWrites, Default
  <2> QED
    BY <2>1, <2>2, <1>2, Zenon DEF DeleteWrites, Default
<1> QED
  BY <1>3, <1>5, <1>6, Zenon

\* What the others have written on Postgres beside a commit that holds the
\* owner's row: nothing but deletions.
LEMMA WrittenBesideOwner ==
  ASSUME NEW p \in Req, Inv, Commit(p), ~Serialized, op[p].kind \in {"create", "rename"},
         NEW q \in Req \ {p}, Busy(q)
  PROVE  Written(q)' /\ ~HasDrawn(q)
<1>1. Only(p) /\ Local(q) /\ pc[p] = "commit"
  BY CommitFrame, Zenon DEF Inv
<1>2. /\ pc'[q] = pc[q] /\ op'[q] = op[q] /\ old'[q] = old[q] /\ pend'[q] = pend[q] /\ new'[q] = new[q]
      /\ snap'[q] = snap[q] /\ Busy(q)'
  BY <1>1, Zenon DEF Only, Busy
<1>3. /\ op[q].kind \in {"create", "rename", "delete"}
      /\ op[q].kind = "delete" => DeleteWrites(q)'
  BY OthersRemember, Zenon
<1>4. owner = p
  BY <1>1, Zenon DEF Inv, Locks, Locking
<1>5. ~(pc[q] \in Locking /\ op[q].kind \in {"create", "rename"})
  BY <1>4, Zenon DEF Inv, Locks
<1>6. ~HasDrawn(q)
  BY <1>5, Zenon DEF HasDrawn, Inserted, Locking
<1>7. Written(q)
  BY <1>1, Zenon DEF Local
<1>8. (pc[q] \in Reading \cup {"count", "insert"} => DOMAIN pend[q] = {})'
  BY <1>2, <1>7, Zenon DEF Written
<1>9. CASE op[q].kind = "delete"
  <2>1. op'[q].kind = "delete"
    BY <1>2, <1>9, Zenon
  <2> QED
    BY <1>3, <1>6, <1>8, <1>9, <2>1, Zenon DEF Written
<1>10. CASE op[q].kind # "delete"
  <2>1. pc[q] \notin Locking /\ \A j \in DOMAIN pend'[q] : pend'[q][j] \in KeySetRow
    BY <1>2, <1>3, <1>5, <1>7, <1>10, Zenon DEF Written
  <2>2. Flags(q)' /\ RenameWrites(q)' /\ CreateWrites(q)'
    BY <1>2, <2>1, Zenon DEF Flags, RenameWrites, CreateWrites, Locking
  <2>3. op'[q].kind \in {"create", "rename"}
    BY <1>2, <1>3, <1>10, Zenon
  <2> QED
    BY <1>6, <1>8, <2>1, <2>2, <2>3, Zenon DEF Written
<1> QED
  BY <1>6, <1>9, <1>10, Zenon

\* And beside a deletion, whose row none of them has written.
LEMMA WrittenBesideDelete ==
  ASSUME NEW p \in Req, Inv, Commit(p), ~Serialized, op[p].kind = "delete",
         NEW q \in Req \ {p}, Busy(q)
  PROVE  Written(q)'
<1>1. Only(p) /\ Local(q) /\ wanted' = wanted
  <2>1. op[p].kind # "visibility"
    OBVIOUS
  <2> QED
    BY <2>1, CommitFrame, Zenon DEF Inv
<1>2. /\ pc'[q] = pc[q] /\ op'[q] = op[q] /\ old'[q] = old[q] /\ pend'[q] = pend[q] /\ new'[q] = new[q]
      /\ snap'[q] = snap[q] /\ Busy(q)'
  BY <1>1, Zenon DEF Only, Busy
<1>3. /\ op[q].kind \in {"create", "rename", "delete"}
      /\ op[q].kind = "delete" => DeleteWrites(q)'
  BY OthersRemember, Zenon
<1>4. /\ DOMAIN sets' = DOMAIN sets \ {op[p].id} /\ \A j \in DOMAIN sets' : sets'[j] = sets[j]
      /\ ~Default(op[p].id) /\ DOMAIN pend[p] = {op[p].id}
  BY DeletedIs, Zenon
<1>5. op[p].id \notin DOMAIN pend[q]
  <2>1. DOMAIN pend[p] \cap DOMAIN pend[q] = {}
    BY Zenon DEF Inv, Locks
  <2> QED
    BY <2>1, <1>4, Zenon
<1>6. \A j \in DOMAIN pend[q] : /\ j \in DOMAIN sets' <=> j \in DOMAIN sets
                                /\ j \in DOMAIN sets => sets'[j] = sets[j]
  BY <1>4, <1>5, Zenon
<1>7. /\ \A j \in DOMAIN sets' : j \in DOMAIN sets
      /\ \A d \in DOMAIN sets : sets[d].def => d \in DOMAIN sets' /\ sets'[d] = sets[d]
  BY <1>4, Zenon DEF Default
<1>8. \A j : Default(j)' <=> Default(j)
  BY <1>4, <1>7, Zenon DEF Default
<1>9. Written(q)
  BY <1>1, Zenon DEF Local
<1>10. pc[q] \in Reading \cup {"count", "insert"} => DOMAIN pend'[q] = {}
  BY <1>2, <1>9, Zenon DEF Written
<1>11. CASE op[q].kind = "delete"
  BY <1>2, <1>3, <1>10, <1>11, Zenon DEF Written
<1>12. CASE op[q].kind # "delete"
  <2>1. Flags(q) /\ \A j \in DOMAIN pend'[q] : pend'[q][j] \in KeySetRow
    BY <1>2, <1>9, <1>12, Zenon DEF Written
  <2>2. Flags(q)'
    <3>1. pc[q] = "clear" => snap'[q] = {i \in DOMAIN sets' : sets'[i].def}
      <4>1. {i \in DOMAIN sets' : sets'[i].def} = {i \in DOMAIN sets : sets[i].def}
        BY <1>4, <1>7, Zenon
      <4> QED
        BY <4>1, <2>1, <1>2, Zenon DEF Flags
    <3>2. pc[q] = "mark" => /\ \A j \in DOMAIN pend'[q] : ~pend'[q][j].def
                            /\ \A d \in DOMAIN sets' : sets'[d].def => d \in DOMAIN pend'[q]
      BY <2>1, <1>2, <1>4, <1>7, Zenon DEF Flags
    <3>3. Keeps(q) => Keeps(q)'
      BY <1>2, <1>8, Zenon DEF Keeps
    <3>4. Moves(q, Marked(q)) => Moves(q, Marked(q))'
      BY <1>2, <1>4, <1>7, Zenon DEF Moves, Marked
    <3> QED
      BY <2>1, <1>2, <3>1, <3>2, <3>3, <3>4, Zenon DEF Flags
  <2>3. CASE op[q].kind = "rename"
    <3>1. RenameWrites(q)
      BY <1>9, <2>3, <1>2, Zenon DEF Written, Busy
    <3>2. Continues(q) => Continues(q)'
      BY <1>2, Zenon DEF Continues
    <3>3. \A j \in DOMAIN pend[q] : Same(q, j) => Same(q, j)'
      BY <1>2, <1>6, Zenon DEF Same
    <3>4. Replaces(q) => Replaces(q)'
      BY <1>2, <1>6, <3>2, <3>3, Zenon DEF Replaces, Member
    <3>5. pc[q] \in {"copy", "update"} => (DOMAIN pend[q] = {new[q]} /\ Continues(q) /\ ~pend[q][new[q]].def)'
      BY <3>1, <3>2, <1>2, Zenon DEF RenameWrites
    <3>6. pc[q] = "update" /\ op[q].id \in DOMAIN sets' => Member(pend[q][new[q]])'
      BY <3>1, <1>2, <1>7, Zenon DEF RenameWrites, Member
    <3>7. pc[q] \in {"select", "clear"} =>
            /\ DOMAIN pend'[q] = {new'[q], op'[q].id}
            /\ ~pend'[q][new'[q]].def
            /\ pend'[q][op'[q].id].def = sets'[op'[q].id].def
      <4>1. SUFFICES ASSUME pc[q] \in {"select", "clear"}
                     PROVE  /\ DOMAIN pend[q] = {new[q], op[q].id}
                            /\ ~pend[q][new[q]].def
                            /\ pend[q][op[q].id].def = sets'[op[q].id].def
        BY <1>2, Zenon
      <4>2. Replaces(q)
        BY <3>1, <4>1, Zenon DEF RenameWrites
      <4>3. sets'[op[q].id] = sets[op[q].id]
        BY <4>2, <1>6, Zenon DEF Replaces
      <4> QED
        BY <3>1, <4>1, <4>3, Zenon DEF RenameWrites
    <3>8. RenameWrites(q)'
      BY <3>1, <3>4, <3>5, <3>6, <3>7, <1>2, Zenon DEF RenameWrites
    <3> QED
      BY <3>8, <2>1, <2>2, <2>3, <1>2, <1>10, Zenon DEF Written
  <2>4. CASE op[q].kind = "create"
    <3>1. CreateWrites(q)'
      BY <1>1, <1>2, <1>9, <2>4, Zenon DEF Written, CreateWrites
    <3> QED
      BY <3>1, <2>1, <2>2, <2>4, <1>2, <1>10, Zenon DEF Written
  <2> QED
    BY <1>3, <1>12, <2>3, <2>4, Zenon
<1> QED
  BY <1>11, <1>12, Zenon

\* A commit keeps the invariant.
LEMMA CommitKeeps ==
  ASSUME NEW p \in Req, Inv, Commit(p)
  PROVE  Inv'
<1>1. /\ Shape' /\ Only(p) /\ Locks' /\ Local(p)' /\ nextId' = nextId /\ ~Busy(p)'
      /\ Busy(p) /\ Local(p) /\ pc[p] = "commit"
  BY CommitFrame, Zenon
<1>2. CASE Serialized
  <2>1. Drawn' /\ \A q \in Req \ {p} : Local(q)'
    BY <1>2, AloneOnSqlite, Zenon
  <2> QED
    BY <1>1, <2>1, TableAfter, Zenon DEF Inv
<1>3. CASE ~Serialized
  <2>1. op[p].kind \in {"create", "rename", "delete"}
    BY <1>1, <1>3, Zenon DEF Local, Asked, Kind
  <2>2. ASSUME NEW q \in Req \ {p} PROVE Local(q)'
    <3>1. CASE Busy(q)
      <4>1. Asked(q)' /\ Knows(q)'
        BY <1>3, <3>1, OthersRemember, Zenon
      <4>2. Written(q)'
        BY <1>3, <2>1, <3>1, WrittenBesideOwner, WrittenBesideDelete, Zenon
      <4> QED
        BY <4>1, <4>2, Zenon DEF Local
    <3>2. CASE ~Busy(q)
      <4>1. ~Busy(q)'
        BY <1>1, <3>2, Zenon DEF Only, Busy
      <4> QED
        BY <4>1, RestingLocal, Zenon
    <3> QED
      BY <3>1, <3>2, Zenon
  <2>3. Drawn'
    <3>1. SUFFICES ASSUME NEW q \in Req, HasDrawn(q)'
                   PROVE  /\ new'[q] \in 3 .. nextId' - 1 /\ new'[q] \notin DOMAIN sets'
                          /\ \A r \in Req : HasRead(r)' => op'[r].id # new'[q]
      BY Zenon DEF Drawn
    <3>2. Busy(q)'
      BY <3>1, Zenon DEF HasDrawn, Busy, Inserted
    <3>3. q # p
      BY <3>2, <1>1, Zenon
    <3>4. HasDrawn(q) /\ Busy(q) /\ new'[q] = new[q]
      BY <3>1, <3>2, <3>3, <1>1, Zenon DEF Only, HasDrawn, Busy
    <3>5. op[p].kind = "delete"
      BY <1>3, <2>1, <3>3, <3>4, WrittenBesideOwner, Zenon
    <3>6. DOMAIN sets' = DOMAIN sets \ {op[p].id}
      BY <3>5, DeletedIs, Zenon
    <3>7. /\ new[q] \in 3 .. nextId - 1 /\ new[q] \notin DOMAIN sets
          /\ \A r \in Req : HasRead(r) => op[r].id # new[q]
      BY <3>4, Zenon DEF Inv, Drawn
    <3>8. \A r \in Req : HasRead(r)' => HasRead(r) /\ op'[r] = op[r]
      BY <1>1, Zenon DEF HasRead, Only, Busy
    <3> QED
      BY <1>1, <3>4, <3>6, <3>7, <3>8, Zenon
  <2> QED
    BY <1>1, <2>2, <2>3, TableAfter, Zenon DEF Inv
<1> QED
  BY <1>2, <1>3, Zenon

(***************************************************************************)
(* The theorem.                                                            *)
(***************************************************************************)
\* A mint of an access key and the clock touch no row (MintAccessKey, Tick).
LEMMA RowsUntouched ==
  ASSUME Inv, now' \in Nat, UNCHANGED <<sets, owner, nextId, txs, wanted>>
  PROVE  Inv'
<1>1. UNCHANGED <<sets, owner, nextId, pc, op, old, new, pend, snap, wanted>>
  BY DEF txs
<1>2. Shape'
  BY <1>1, Zenon DEF Inv, Shape
<1>3. Table'
  BY <1>1, Zenon DEF Inv, Table, RowsKnown, RowKnown, Member, Allowed, OneDefault, DistinctRoots, Unchosen
<1>4. Locks'
  BY <1>1, Zenon DEF Inv, Locks, Busy
<1>5. Drawn'
  BY <1>1, Zenon DEF Inv, Drawn, HasDrawn, HasRead, Busy
<1>6. ASSUME NEW p \in Req PROVE Local(p)'
  <2>1. Asked(p)'
    BY <1>1, <1>6, Zenon DEF Inv, Local, Asked, Busy
  <2>2. Knows(p)'
    BY <1>1, <1>6, ZenonT(60) DEF Inv, Local, Knows, HasRead, Busy, RowKnown, Member, Allowed
  <2>3. /\ Flags(p)' <=> Flags(p)
        /\ RenameWrites(p)' <=> RenameWrites(p)
        /\ CreateWrites(p)' <=> CreateWrites(p)
        /\ DefaultWrites(p)' <=> DefaultWrites(p)
        /\ VisibilityWrites(p)' <=> VisibilityWrites(p)
        /\ DeleteWrites(p)' <=> DeleteWrites(p)
    <3>1. \A j : (Same(p, j)' <=> Same(p, j)) /\ (Default(j)' <=> Default(j))
      BY <1>1, Zenon DEF Same, Default
    <3>2. (Keeps(p)' <=> Keeps(p)) /\ (Moves(p, Marked(p))' <=> Moves(p, Marked(p)))
      BY <1>1, <3>1, Zenon DEF Keeps, Moves, Marked
    <3>3. Flags(p)' <=> Flags(p)
      BY <1>1, <3>2, Zenon DEF Flags
    <3>4. Replaces(p)' <=> Replaces(p)
      BY <1>1, <3>1, Zenon DEF Replaces, Continues, Member
    <3>5. RenameWrites(p)' <=> RenameWrites(p)
      BY <1>1, <3>4, Zenon DEF RenameWrites, Continues, Member
    <3>6. (CreateWrites(p)' <=> CreateWrites(p)) /\ (DefaultWrites(p)' <=> DefaultWrites(p))
      BY <1>1, <3>1, Zenon DEF CreateWrites, DefaultWrites
    <3>7. (VisibilityWrites(p)' <=> VisibilityWrites(p)) /\ (DeleteWrites(p)' <=> DeleteWrites(p))
      BY <1>1, <3>1, Zenon DEF VisibilityWrites, DeleteWrites, Member
    <3> QED
      BY <3>3, <3>5, <3>6, <3>7, Zenon
  <2>4. Written(p)'
    BY <1>1, <1>6, <2>3, Zenon DEF Inv, Local, Written, Busy
  <2> QED
    BY <2>1, <2>2, <2>4, Zenon DEF Local
<1> QED
  BY <1>2, <1>3, <1>4, <1>5, <1>6, Zenon DEF Inv

\* The default set and the other one, and nobody at work.
LEMMA Beginning ==
  ASSUME Init
  PROVE  Inv
<1>1. PICK v \in [{1, 2} -> Visibility] : sets = [i \in {1, 2} |-> Row(i, v[i], i = 1, i, TRUE)]
  BY Zenon DEF Init
<1>2. DOMAIN sets = {1, 2} /\ \A i \in {1, 2} : sets[i] = Row(i, v[i], i = 1, i, TRUE)
  BY <1>1, Zenon
<1>3. ASSUME NEW i \in {1, 2}
      PROVE  /\ sets[i] \in KeySetRow /\ sets[i].root = i /\ sets[i].keys = TRUE
             /\ sets[i].def = (i = 1) /\ sets[i].state = "active" /\ sets[i].vis = v[i]
  <2>1. i \in Name /\ i \in Nat /\ v[i] \in Visibility /\ (i = 1) \in BOOLEAN
    BY <1>3, KeySetsAssumptions, SMT
  <2> DEFINE d == (i = 1)
  <2>2. sets[i] = Row(i, v[i], d, i, TRUE) /\ d \in BOOLEAN
    BY <1>2, <2>1, Zenon
  <2> HIDE DEF d
  <2>3. /\ sets[i] \in KeySetRow /\ sets[i].root = i /\ sets[i].keys = TRUE
        /\ sets[i].def = d /\ sets[i].state = "active" /\ sets[i].vis = v[i]
    BY <2>1, <2>2, SMT DEF Row, KeySetRow
  <2> QED
    BY <2>3, Zenon DEF d
<1>4. /\ MaxId \in Nat /\ MaxId >= 2 /\ nextId = 3 /\ 1 .. nextId - 1 = {1, 2}
  BY KeySetsAssumptions, SMT DEF Init
<1>5. wanted = [i \in 1 .. MaxId |-> IF i \in {1, 2} THEN sets[i].vis ELSE "protected"]
  BY <1>2, Zenon DEF Init
<1>6. wanted \in [1 .. MaxId -> Visibility] /\ wanted[1] = v[1] /\ wanted[2] = v[2]
      /\ \A i \in 3 .. MaxId : wanted[i] = "protected"
  <2>1. \A i \in {1, 2} : sets[i].vis = v[i] /\ v[i] \in Visibility
    BY <1>3, Zenon
  <2>2. {1, 2} \subseteq 1 .. MaxId /\ "protected" \in Visibility
    BY <1>4, SMT DEF Visibility
  <2> QED
    BY <1>4, <1>5, <2>1, <2>2, SMT
<1>7. Shape
  <2>1. "idle" \in Stage
    BY Zenon DEF Stage
  <2> QED
    BY <1>4, <1>6, <2>1, SMT DEF Init, Shape
<1>8. Table
  <2>1. RowsKnown
    <3>1. SUFFICES ASSUME NEW i \in {1, 2} PROVE RowKnown(sets[i]) /\ Allowed(sets[i])
      BY <1>2, <1>4, Zenon DEF RowsKnown
    <3>2. sets[i] \in KeySetRow /\ sets[i].root = i /\ sets[i].keys = TRUE /\ sets[i].vis = v[i]
      BY <1>3, <3>1, Zenon
    <3>3. wanted[i] = v[i]
      BY <1>6, <3>1, Zenon
    <3> QED
      BY <1>4, <3>1, <3>2, <3>3, Zenon DEF RowKnown, Member, Allowed
  <2>2. OneDefault
    <3>1. 1 \in DOMAIN sets /\ sets[1].def /\ sets[1].state = "active"
      BY <1>2, <1>3, Zenon
    <3>2. \A i \in DOMAIN sets : sets[i].def => i = 1
      BY <1>2, <1>3, Zenon
    <3> QED
      BY <3>1, <3>2, Zenon DEF OneDefault
  <2>3. DistinctRoots
    BY <1>2, <1>3, ZenonT(30) DEF DistinctRoots
  <2>4. Unchosen
    BY <1>4, <1>6, Zenon DEF Unchosen
  <2> QED
    BY <2>1, <2>2, <2>3, <2>4, Zenon DEF Table
<1>9. \A p \in Req : pc[p] = "idle" /\ DOMAIN pend[p] = {} /\ owner # p
  BY KeySetsAssumptions, Zenon DEF Init, Empty
<1>10. \A p \in Req : ~Busy(p) /\ ~HasDrawn(p) /\ pc[p] \notin Locking \cup Reading
  BY <1>9, Zenon DEF Busy, HasDrawn, Inserted, Locking, Reading
<1>11. Locks
  BY <1>9, <1>10, Zenon DEF Locks
<1>12. Drawn
  BY <1>10, Zenon DEF Drawn
<1>13. ASSUME NEW p \in Req PROVE Local(p)
  BY <1>9, <1>10, <1>13, Zenon DEF Local, Asked, Knows, HasRead, Written
<1> QED
  BY <1>7, <1>8, <1>11, <1>12, <1>13, Zenon DEF Inv

\* Every step keeps the invariant.
LEMMA Preserved ==
  ASSUME Inv, Serialized \/ Ops \cap {"default", "visibility"} = {}, [Next]_vars
  PROVE  Inv'
<1>1. ASSUME NEW p \in Req, Request(p) PROVE Inv'
  BY <1>1, RequestSound, SoundStep, Zenon
<1>2. ASSUME NEW p \in Req, Step(p) PROVE Inv'
  <2>1. CASE Commit(p)
    BY <2>1, CommitKeeps, Zenon
  <2>2. CASE ~Commit(p)
    <3>1. Sound(p)
      BY <1>2, <2>2, GetSound, LockOwnerSound, CountSound, InsertSound, CopyMembersSound, UpdateSound, SelectSound,
         ClearSound, MarkSound, DeleteChecksSound, RemoveSound, EndSound, Zenon DEF Step
    <3> QED
      BY <1>2, <3>1, SoundStep, Zenon
  <2> QED
    BY <2>1, <2>2, Zenon
<1>3. ASSUME NEW p \in Req, Abort(p) PROVE Inv'
  BY <1>3, EndSound, SoundStep, Zenon
<1>4. now \in Nat
  BY Zenon DEF Inv, Shape
<1>5. ASSUME NEW i \in DOMAIN sets, MintAccessKey(i) PROVE Inv'
  <2>1. UNCHANGED <<sets, owner, now, nextId, txs, wanted>>
    BY <1>5, Zenon DEF MintAccessKey
  <2> QED
    BY <1>4, <2>1, RowsUntouched, Zenon
<1>6. CASE Tick
  <2>1. now' \in Nat /\ UNCHANGED <<sets, owner, nextId, txs, wanted>>
    BY <1>4, <1>6, SMT DEF Tick
  <2> QED
    BY <2>1, RowsUntouched, Zenon
<1>7. CASE UNCHANGED vars
  <2>1. now' = now /\ UNCHANGED <<sets, owner, nextId, txs, wanted>>
    BY <1>7, Zenon DEF vars
  <2> QED
    BY <1>4, <2>1, RowsUntouched, Zenon
<1> QED
  BY <1>1, <1>2, <1>3, <1>5, <1>6, <1>7, Zenon DEF Next

\* An owner's sets are intact at every moment (SetsAreIntact), for every number of
\* requests, rows and names: on SQLite whatever they ask for, on Postgres as long
\* as nobody changes the default set or a visibility meanwhile.  The hypothesis is
\* the boundary between what the owner's row lock covers (CreateSet, Rename) and
\* what SetDefault and SetVisibility do without it.
THEOREM SetsStayIntact ==
  (Serialized \/ Ops \cap {"default", "visibility"} = {}) => (Spec => []SetsAreIntact)
<1> SUFFICES ASSUME Serialized \/ Ops \cap {"default", "visibility"} = {}
             PROVE  Spec => []SetsAreIntact
  OBVIOUS
<1>1. Init => Inv
  BY Beginning, Zenon
<1>2. Inv /\ [Next]_vars => Inv'
  BY Preserved, Zenon
<1>3. Inv => SetsAreIntact
  BY Zenon DEF Inv, Table, RowsKnown, RowKnown, Member, Allowed, OneDefault, SetsAreIntact
<1> QED
  BY <1>1, <1>2, <1>3, PTL DEF Spec
==============================================================================
