-------------------------- MODULE RefreshTokens_proofs --------------------------
(***************************************************************************)
(* Theorems about RefreshTokens for every number of credentials, requests  *)
(* and owners, for both storage engines, and for an unbounded clock.       *)
(***************************************************************************)
EXTENDS RefreshTokens, TLAPS

(***************************************************************************)
(* The inductive invariant.                                                *)
(***************************************************************************)
\* A transaction works on rows that exist.
RowsExist ==
  /\ \A r \in Req : pc[r] # "idle" => status[tok[r]] # "none"
  /\ \A r \in Req : \A c \in rows[r] \cup held[r] \cup toDeny[r] : status[c] # "none"
  /\ \A c \in Cred : status[c] = "none" => denied[c] = 0
  /\ \A c \in Cred : from[c] # NoCred => status[c] # "none"
  /\ \A c \in killed \cup dealtWith : status[c] # "none"

\* A consumed row is no longer active.
ConsumedIsSpent ==
  \A c \in Cred : from[c] # NoCred => status[from[c]] \in {"rotated", "revoked"}

\* No row is locked by two transactions, and one that has updated its credential
\* but not committed holds the row, which is still active.
HoldsLock ==
  /\ \A q, r \in Req : \A c \in held[q] : c \in held[r] => q = r
  /\ \A r \in Req : pc[r] = "mint" => status[tok[r]] = "active" /\ tok[r] \in held[r]

\* The invariant behind OneActivePerLineage and SingleSuccessor.
RotationInv ==
  /\ TypeOK
  /\ RowsExist
  /\ ConsumedIsSpent
  /\ HoldsLock
  /\ DeadlineInherited
  /\ OneActivePerLineage
  /\ SingleSuccessor

(***************************************************************************)
(* Type correctness.                                                       *)
(***************************************************************************)
\* The tables are empty and no request runs.
LEMMA TypeInit == Init => TypeOK
BY ConstantsAssumption DEF Init, TypeOK, Status, Location, InTx

\* What taking a row, or beginning to wait for it, does to the locks.
LEMMA LockEffect ==
  ASSUME TypeOK, NEW r \in Req, NEW c \in Cred, LockRow(r, c) \/ AwaitRow(r, c)
  PROVE  /\ held' \in [Req -> SUBSET Cred]
         /\ want' \in [Req -> Cred \cup {NoCred}]
         /\ held'[r] \in {held[r], held[r] \cup {c}}
         /\ want'[r] \in {NoCred, c}
         /\ \A q \in Req : q # r => held'[q] = held[q] /\ want'[q] = want[q]
<1> USE DEF TypeOK
<1>1. CASE LockRow(r, c)
  <2>1. held' = [held EXCEPT ![r] = held[r] \cup {c}] /\ want' = [want EXCEPT ![r] = NoCred]
    BY <1>1, Zenon DEF LockRow
  <2>2. held[r] \cup {c} \in SUBSET Cred
    BY Zenon
  <2> QED
    BY <2>1, <2>2, Zenon
<1>2. CASE AwaitRow(r, c)
  <2>1. held' = held /\ want' = [want EXCEPT ![r] = c]
    BY <1>2, Zenon DEF AwaitRow
  <2> QED
    BY <2>1, Zenon
<1> QED
  BY <1>1, <1>2, Zenon

\* Where MarkRotated leads, and what it leaves alone.
LEMMA MarkRotatedEffect ==
  ASSUME TypeOK, NEW r \in Req, MarkRotated(r)
  PROVE  /\ pc[r] = "consume" /\ tok[r] \in Cred
         /\ pc' \in [Req -> Location]
         /\ pc'[r] \in {"consume", "mint", "reuse"}
         /\ \A q \in Req : q # r => pc'[q] = pc[q]
         /\ LockRow(r, tok[r]) \/ AwaitRow(r, tok[r]) \/ UNCHANGED <<held, want>>
         /\ UNCHANGED <<now, standing, tables, denied, tok, at, seen, rows, toDeny, ghost>>
<1>1. pc[r] = "consume" /\ tok[r] \in Cred /\ pc \in [Req -> Location]
  BY Zenon DEF TypeOK, MarkRotated
<1>2. UNCHANGED <<now, standing, tables, denied, tok, at, seen, rows, toDeny, ghost>>
  BY Zenon DEF MarkRotated
<1>3. UNCHANGED pc \/ pc' = [pc EXCEPT ![r] = "mint"] \/ pc' = [pc EXCEPT ![r] = "reuse"]
  BY Zenon DEF MarkRotated, Goto
<1>4. LockRow(r, tok[r]) \/ AwaitRow(r, tok[r]) \/ UNCHANGED <<held, want>>
  BY Zenon DEF MarkRotated
<1>5. /\ pc' \in [Req -> Location]
      /\ pc'[r] \in {"consume", "mint", "reuse"}
      /\ \A q \in Req : q # r => pc'[q] = pc[q]
  BY <1>1, <1>3, ZenonT(60) DEF Location, InTx
<1> QED
  BY <1>1, <1>2, <1>4, <1>5, Zenon

\* RevokeRow takes one of the rows found, or begins to wait for it.
LEMMA RevokeRowEffect ==
  ASSUME TypeOK, NEW r \in Req, RevokeRow(r)
  PROVE  /\ UNCHANGED <<status, lineage, tok, pc>> /\ pc[r] = "revoking"
         /\ rows' \in [Req -> SUBSET Cred]
         /\ held' \in [Req -> SUBSET Cred]
         /\ want' \in [Req -> Cred \cup {NoCred}]
         /\ \A q \in Req : rows'[q] \subseteq rows[q]
         /\ \A q \in Req : q # r => rows'[q] = rows[q] /\ held'[q] = held[q] /\ want'[q] = want[q]
         /\ \E c \in rows[r] : held'[r] \in {held[r], held[r] \cup {c}}
<1>1. PICK c \in rows[r] :
        /\ LockRow(r, c) \/ AwaitRow(r, c)
        /\ UNCHANGED rows \/ rows' = [rows EXCEPT ![r] = rows[r] \ {c}]
  BY Zenon DEF RevokeRow
<1>2. rows \in [Req -> SUBSET Cred] /\ c \in Cred
  BY Zenon DEF TypeOK
<1>3. UNCHANGED <<status, lineage, tok, pc>> /\ pc[r] = "revoking"
  BY Zenon DEF RevokeRow, tables
<1>4. /\ held' \in [Req -> SUBSET Cred]
      /\ want' \in [Req -> Cred \cup {NoCred}]
      /\ held'[r] \in {held[r], held[r] \cup {c}}
      /\ \A q \in Req : q # r => held'[q] = held[q] /\ want'[q] = want[q]
  BY <1>1, <1>2, LockEffect, Zenon
<1>5. rows[r] \ {c} \in SUBSET Cred
  BY <1>2, Zenon
<1>6. /\ rows' \in [Req -> SUBSET Cred]
      /\ \A q \in Req : rows'[q] \subseteq rows[q]
      /\ \A q \in Req : q # r => rows'[q] = rows[q]
  BY <1>1, <1>2, <1>5, ZenonT(60)
<1> QED
  BY <1>1, <1>3, <1>4, <1>6, ZenonT(60)

\* Every statement of every request keeps the types.
LEMMA TypeStep == TypeOK /\ [Next]_vars => TypeOK'
<1> SUFFICES ASSUME TypeOK, [Next]_vars PROVE TypeOK'
  BY Zenon
<1> USE ConstantsAssumption DEF TypeOK, Status, Location, InTx
<1>1. ASSUME NEW o \in Owner, NEW c \in Cred, Issue(o, c) PROVE TypeOK'
  BY <1>1 DEF Issue, local, ghost
<1>2. ASSUME NEW r \in Req, NEW c \in Cred, Begin(r, c) PROVE TypeOK'
  BY <1>2, Zenon DEF Begin, Goto, tables, ghost
<1>3. ASSUME NEW r \in Req, Step(r) \/ Rollback(r) \/ DeadlockVictim(r) PROVE TypeOK'
  <2>1. CASE Lookup(r)
    BY <2>1, Zenon DEF Lookup, Goto, tables, ghost
  <2>2. CASE CheckOwner(r)
    <3>1. CASE Return(r)
      BY <2>2, <3>1, Zenon DEF CheckOwner, Return, tables, ghost
    <3>2. CASE /\ \E l \in {"reuse", "consume"} : Goto(r, l)
               /\ UNCHANGED local
               /\ pc[r] = "owner"
      BY <2>2, <3>2 DEF CheckOwner, Goto, tables, local, ghost
    <3> QED
      BY <2>2, <3>1, <3>2, Zenon DEF CheckOwner
  <2>3. CASE MarkRotated(r)
    <3>1. held' \in [Req -> SUBSET Cred] /\ want' \in [Req -> Cred \cup {NoCred}]
      BY <2>3, MarkRotatedEffect, LockEffect, Zenon
    <3>2. \A q \in Req : pc'[q] # "idle" => tok'[q] \in Cred
      BY <2>3, MarkRotatedEffect, Zenon
    <3> QED
      BY <2>3, <3>1, <3>2, MarkRotatedEffect, Zenon DEF tables, ghost
  <2>4. CASE CommitExchange(r)
    BY SMTT(30), <2>4 DEF CommitExchange, Return, ghost
  <2>5. CASE FindLineage(r)
    BY <2>5, Zenon DEF FindLineage, Goto, LineageOf, tables, ghost
  <2>6. CASE RevokeRow(r)
    BY <2>6, RevokeRowEffect, ZenonT(60) DEF RevokeRow, tables, ghost
  <2>7. CASE ListByLineage(r)
    <3>1. LineageOf(r) \in SUBSET Cred /\ {} \in SUBSET Cred
      BY Zenon DEF LineageOf
    <3>2. toDeny' \in [Req -> SUBSET Cred]
      <4>1. PICK S \in {LineageOf(r), {}} : toDeny' = [toDeny EXCEPT ![r] = S]
        BY <2>7, Zenon DEF ListByLineage
      <4>2. S \in SUBSET Cred
        BY <3>1, <4>1, Zenon
      <4> QED
        BY <4>1, <4>2, Zenon
    <3> QED
      BY <2>7, <3>2, Zenon DEF ListByLineage, Goto, tables, ghost
  <2>8. CASE CommitRevocation(r)
    BY <2>8, ZenonT(60) DEF CommitRevocation, Goto
  <2>9. CASE DenylistNext(r)
    <3>1. PICK c \in toDeny[r] :
            /\ \/ denied' = [denied EXCEPT ![c] = IF now < @ THEN @ ELSE now + DenylistEntryTTL]
               \/ UNCHANGED denied
            /\ toDeny' = [toDeny EXCEPT ![r] = @ \ {c}]
      BY <2>9, Zenon DEF DenylistNext, ListOnDenylist
    <3>2. toDeny[r] \in SUBSET Cred /\ c \in Cred
      BY Zenon
    <3>3. now + DenylistEntryTTL \in Nat
      BY DEF DenylistEntryTTL
    <3>4. denied' \in [Cred -> Nat]
      BY <3>1, <3>2, <3>3, ZenonT(60)
    <3>5. toDeny' \in [Req -> SUBSET Cred]
      BY <3>1, <3>2, Zenon
    <3> QED
      BY <2>9, <3>4, <3>5, ZenonT(60) DEF DenylistNext, tables
  <2>10. CASE DenylistEnd(r)
    BY <2>10, Zenon DEF DenylistEnd, Return, tables, ghost
  <2>11. CASE Rollback(r) \/ DeadlockVictim(r)
    <3>1. Return(r) /\ UNCHANGED <<now, standing, tables, denied, killed, dealtWith>>
      BY <2>11, Zenon DEF Rollback, DeadlockVictim
    <3>2. pc[r] \in InTx /\ lineage[tok[r]] \in Cred
      BY <2>11, Zenon DEF Rollback, DeadlockVictim
    <3>3. aborted' \subseteq Cred
      BY <2>11, <3>2, Zenon DEF Rollback, DeadlockVictim
    <3> QED
      BY <3>1, <3>3, Zenon DEF Return, tables
  <2> QED
    BY <1>3, <2>1, <2>2, <2>3, <2>4, <2>5, <2>6, <2>7, <2>8, <2>9, <2>10, <2>11, Zenon DEF Step
<1>4. ASSUME NEW o \in Owner, SetStanding(o) PROVE TypeOK'
  BY <1>4, Zenon DEF SetStanding, tables, local, ghost
<1>5. CASE Tick
  BY <1>5 DEF Tick, tables, local, ghost
<1>6. CASE UNCHANGED vars
  BY <1>6, Zenon DEF vars, tables, local, ghost
<1> QED
  BY <1>1, <1>2, <1>3, <1>4, <1>5, <1>6, Zenon DEF Next

\* Every reachable state of the credential tables, the denylist and the
\* requests is well formed (TypeOK).
THEOREM TypeCorrect == Spec => []TypeOK
BY TypeInit, TypeStep, PTL DEF Spec

(***************************************************************************)
(* Rotation.                                                               *)
(***************************************************************************)
\* A step that leaves the tables alone keeps what the tables alone satisfy.
LEMMA QuietStep ==
  ASSUME ConsumedIsSpent, DeadlineInherited, OneActivePerLineage, SingleSuccessor,
         UNCHANGED tables
  PROVE  /\ ConsumedIsSpent'
         /\ DeadlineInherited'
         /\ OneActivePerLineage'
         /\ SingleSuccessor'
BY Zenon DEF ConsumedIsSpent, DeadlineInherited, OneActivePerLineage, SingleSuccessor, tables

\* The empty tables satisfy the invariant.
LEMMA RotationInit == Init => RotationInv
<1> SUFFICES ASSUME Init PROVE RotationInv
  BY Zenon
<1>1. TypeOK
  BY TypeInit, Zenon
<1>2. RowsExist /\ ConsumedIsSpent
  BY ConstantsAssumption, Zenon DEF Init, RowsExist, ConsumedIsSpent
<1>3. HoldsLock /\ DeadlineInherited /\ OneActivePerLineage /\ SingleSuccessor
  BY Zenon DEF Init, HoldsLock, DeadlineInherited, OneActivePerLineage, SingleSuccessor
<1> QED
  BY <1>1, <1>2, <1>3, Zenon DEF RotationInv

\* Issue inserts the root of a lineage of its own.
LEMMA RotationIssue ==
  ASSUME RotationInv, TypeOK', NEW o \in Owner, NEW c \in Cred, Issue(o, c)
  PROVE  RotationInv'
<1> USE ConstantsAssumption DEF RotationInv, TypeOK, Issue, local, ghost
<1>1. RowsExist'
  BY DEF RowsExist
<1>2. ConsumedIsSpent' /\ SingleSuccessor'
  BY DEF ConsumedIsSpent, SingleSuccessor, RowsExist
<1>3. HoldsLock'
  BY ZenonT(60) DEF HoldsLock
<1>4. DeadlineInherited'
  BY SMTT(30) DEF DeadlineInherited
<1>5. OneActivePerLineage'
  BY DEF OneActivePerLineage, DeadlineInherited
<1> QED
  BY <1>1, <1>2, <1>3, <1>4, <1>5, Zenon

\* The successor CommitExchange creates is the only one of the live credential
\* it consumes: nothing was made from that credential before.
LEMMA OneMoreSuccessor ==
  ASSUME SingleSuccessor, ConsumedIsSpent, DOMAIN from = Cred, NoCred \notin Cred,
         NEW c \in Cred, NEW t \in Cred, status[t] = "active", from' = [from EXCEPT ![c] = t]
  PROVE  SingleSuccessor'
<1>1. \A d \in Cred : from[d] # t
  BY Zenon DEF ConsumedIsSpent
<1>2. from'[c] = t /\ \A d \in Cred : d # c => from'[d] = from[d]
  BY Zenon
<1> QED
  BY <1>1, <1>2, ZenonT(60) DEF SingleSuccessor

\* CommitExchange replaces the one live credential of its lineage.
LEMMA RotationCommitExchange ==
  ASSUME RotationInv, TypeOK', NEW r \in Req, CommitExchange(r)
  PROVE  RotationInv'
<1> USE ConstantsAssumption DEF RotationInv, TypeOK
<1>1. PICK c \in Cred :
        /\ status[c] = "none"
        /\ status' = [status EXCEPT ![tok[r]] = "rotated", ![c] = "active"]
        /\ lineage' = [lineage EXCEPT ![c] = lineage[tok[r]]]
        /\ from' = [from EXCEPT ![c] = tok[r]]
        /\ expiresAt' = [expiresAt EXCEPT ![c] = expiresAt[tok[r]]]
  BY Zenon DEF CommitExchange
<1>2. /\ pc[r] = "mint"
      /\ tok[r] \in Cred
      /\ status[tok[r]] = "active"
      /\ tok[r] # c
  BY <1>1, Zenon DEF CommitExchange, HoldsLock
<1>3. UNCHANGED <<denied, ghost>> /\ Return(r)
  BY ZenonT(60) DEF CommitExchange
<1>4. RowsExist'
  BY <1>1, <1>2, <1>3 DEF RowsExist, Return, ghost
<1>5. ConsumedIsSpent'
  <2>1. ASSUME NEW d \in Cred, from'[d] # NoCred
        PROVE status'[from'[d]] \in {"rotated", "revoked"}
    <3>1. CASE d = c
      BY <1>1, <1>2, <2>1, <3>1
    <3>2. CASE d # c
      <4>1. from'[d] = from[d] /\ from[d] \in Cred
        BY <1>1, <2>1, <3>2
      <4>2. status[from[d]] \in {"rotated", "revoked"}
        BY <2>1, <4>1, Zenon DEF ConsumedIsSpent
      <4>3. QED
        BY <1>1, <4>1, <4>2
    <3>3. QED
      BY <3>1, <3>2, ZenonT(60)
  <2>2. QED
    BY <2>1, Zenon DEF ConsumedIsSpent
<1>6. SingleSuccessor'
  <2>1. DOMAIN from = Cred /\ NoCred \notin Cred /\ ConsumedIsSpent /\ SingleSuccessor
    BY ZenonT(60)
  <2> QED
    BY <1>1, <1>2, <2>1, OneMoreSuccessor, Zenon
<1>7. DeadlineInherited'
  BY <1>1, <1>2 DEF DeadlineInherited
<1>8. OneActivePerLineage'
  <2>1. \A d \in Cred : status'[d] = "active" => d = c \/ (status[d] = "active" /\ d # tok[r])
    BY <1>1, <1>2
  <2>2. \A d \in Cred : status[d] = "active" /\ d # tok[r] => lineage[d] # lineage[tok[r]]
    BY <1>2, Zenon DEF OneActivePerLineage
  <2>3. \A d \in Cred : lineage'[d] = IF d = c THEN lineage[tok[r]] ELSE lineage[d]
    BY <1>1
  <2> QED
    BY <2>1, <2>2, <2>3, ZenonT(60) DEF OneActivePerLineage
<1>9. HoldsLock'
  <2>0. /\ pc' = [pc EXCEPT ![r] = "idle"]
        /\ tok' = [tok EXCEPT ![r] = NoCred]
        /\ held' = [held EXCEPT ![r] = {}]
    BY <1>3, Zenon DEF Return
  <2>1. \A q \in Req : q # r => held'[q] = held[q] /\ pc'[q] = pc[q] /\ tok'[q] = tok[q]
    BY <2>0
  <2>2. held'[r] = {} /\ pc'[r] = "idle"
    BY <2>0
  <2>3. ASSUME NEW q \in Req, pc'[q] = "mint" PROVE status'[tok'[q]] = "active" /\ tok'[q] \in held'[q]
    <3>1. q # r /\ pc[q] = "mint" /\ tok[q] \in Cred
      BY <2>1, <2>2, <2>3, Zenon
    <3>2. tok[q] # tok[r] /\ status[tok[q]] = "active" /\ tok[q] \in held[q]
      BY <1>2, <3>1, Zenon DEF HoldsLock
    <3> QED
      BY <1>1, <2>1, <3>1, <3>2
  <2> QED
    BY <2>1, <2>2, <2>3, Zenon DEF HoldsLock
<1> QED
  BY <1>4, <1>5, <1>6, <1>7, <1>8, <1>9, Zenon

\* CommitRevocation changes rows that no other transaction has updated.
LEMMA RotationCommitRevocation ==
  ASSUME RotationInv, TypeOK', NEW r \in Req, CommitRevocation(r)
  PROVE  RotationInv'
<1> USE DEF RotationInv, TypeOK, CommitRevocation, Goto
<1>1. RowsExist'
  BY DEF RowsExist, DeadlineInherited
<1>2. ConsumedIsSpent' /\ SingleSuccessor'
  BY ZenonT(60) DEF ConsumedIsSpent, SingleSuccessor, RowsExist
<1>3. DeadlineInherited' /\ OneActivePerLineage'
  BY ZenonT(60) DEF DeadlineInherited, OneActivePerLineage, RowsExist
<1>4. HoldsLock'
  <2>1. \A q \in Req : q # r => held'[q] = held[q] /\ pc'[q] = pc[q]
    BY Zenon
  <2>2. held'[r] = {} /\ pc'[r] = "deny"
    BY Zenon
  <2>3. ASSUME NEW q \in Req, pc'[q] = "mint" PROVE status'[tok'[q]] = "active" /\ tok'[q] \in held'[q]
    <3>1. q # r /\ pc[q] = "mint" /\ tok[q] \in Cred /\ tok'[q] = tok[q]
      BY <2>1, <2>2, <2>3, Zenon
    <3>2. status[tok[q]] = "active" /\ tok[q] \in held[q] /\ tok[q] \notin held[r]
      BY <3>1, Zenon DEF HoldsLock
    <3> QED
      BY <2>1, <3>1, <3>2, Zenon
  <2> QED
    BY <2>1, <2>2, <2>3, Zenon DEF HoldsLock
<1> QED
  BY <1>1, <1>2, <1>3, <1>4, ZenonT(60)

\* Every step of every request, of the clock and of the operators preserves
\* the invariant.
LEMMA RotationStep == RotationInv /\ [Next]_vars => RotationInv'
<1> SUFFICES ASSUME RotationInv, [Next]_vars PROVE RotationInv'
  BY Zenon
<1>t. TypeOK'
  BY TypeStep, Zenon DEF RotationInv
<1>q. ASSUME UNCHANGED tables, RowsExist', HoldsLock' PROVE RotationInv'
  BY <1>t, <1>q, QuietStep, Zenon DEF RotationInv
<1> USE DEF RotationInv, TypeOK
<1>1. ASSUME NEW o \in Owner, NEW c \in Cred, Issue(o, c) PROVE RotationInv'
  BY <1>t, <1>1, RotationIssue, Zenon
<1>2. ASSUME NEW r \in Req, NEW c \in Cred, Begin(r, c) PROVE RotationInv'
  <2>1. UNCHANGED tables
    BY <1>2, Zenon DEF Begin
  <2>2. RowsExist' /\ HoldsLock'
    BY <1>2, ZenonT(60) DEF Begin, Goto, RowsExist, HoldsLock, tables, ghost
  <2> QED
    BY <1>q, <2>1, <2>2, Zenon
<1>3. ASSUME NEW r \in Req, Step(r) \/ Rollback(r) \/ DeadlockVictim(r) PROVE RotationInv'
  <2>1. CASE Lookup(r)
    BY <2>1, <1>q, ZenonT(60) DEF Lookup, Goto, RowsExist, HoldsLock, tables, ghost
  <2>2. CASE CheckOwner(r)
    <3>1. UNCHANGED <<tables, denied, ghost>>
      BY <2>2, ZenonT(60) DEF CheckOwner
    <3>2. CASE Return(r)
      BY SMTT(30), <1>q, <3>1, <3>2 DEF Return, RowsExist, HoldsLock, tables, ghost
    <3>3. CASE /\ \E l \in {"reuse", "consume"} : Goto(r, l)
               /\ UNCHANGED local
               /\ pc[r] = "owner"
      BY <1>q, <3>1, <3>3 DEF Goto, RowsExist, HoldsLock, tables, local, ghost
    <3> QED
      BY <2>2, <3>2, <3>3, Zenon DEF CheckOwner
  <2>3. CASE MarkRotated(r)
    <3>1. UNCHANGED tables /\ RowsExist'
      BY <2>3 DEF MarkRotated, LockRow, AwaitRow, RowsExist, Goto, tables, ghost
    <3>2. HoldsLock'
      <4>1. UNCHANGED <<status, tok>>
        BY <2>3, Zenon DEF MarkRotated, tables
      <4>2. CASE UNCHANGED held /\ pc'[r] # "mint" /\ \A q \in Req : q # r => pc'[q] = pc[q]
        BY <4>1, <4>2, Zenon DEF HoldsLock
      <4>3. CASE LockRow(r, tok[r]) /\ (pc'[r] = "mint" => status[tok[r]] = "active")
                 /\ \A q \in Req : q # r => pc'[q] = pc[q]
        <5>1. held'[r] = held[r] \cup {tok[r]} /\ \A q \in Req : q # r => held'[q] = held[q]
          BY <4>3, Zenon DEF LockRow
        <5>2. \A q \in Req : q # r => tok[r] \notin held[q]
          BY <4>3, Zenon DEF LockRow, Locked
        <5>3. \A q, p \in Req : \A d \in held'[q] : d \in held'[p] => q = p
          BY <5>1, <5>2 DEF HoldsLock
        <5>4. \A q \in Req : pc'[q] = "mint" => status'[tok'[q]] = "active" /\ tok'[q] \in held'[q]
          BY <4>1, <4>3, <5>1, Zenon DEF HoldsLock
        <5> QED
          BY <5>3, <5>4, Zenon DEF HoldsLock
      <4> QED
        BY <2>3, <4>2, <4>3, Zenon DEF MarkRotated, AwaitRow, Goto
    <3> QED
      BY <1>q, <3>1, <3>2, Zenon
  <2>4. CASE CommitExchange(r)
    BY <1>t, <2>4, RotationCommitExchange, Zenon
  <2>5. CASE FindLineage(r)
    BY <1>q, <2>5, ZenonT(60) DEF FindLineage, LineageOf, Goto, RowsExist, HoldsLock, tables, ghost
  <2>6. CASE RevokeRow(r)
    <3>1. UNCHANGED tables /\ RowsExist'
      <4>1. UNCHANGED <<tables, denied, pc, tok, toDeny, ghost>>
        BY <2>6, Zenon DEF RevokeRow
      <4>2. \A q \in Req : rows'[q] \cup held'[q] \subseteq rows[q] \cup held[q]
        <5>1. PICK c \in rows[r] :
                \/ AwaitRow(r, c) /\ UNCHANGED rows
                \/ LockRow(r, c) /\ rows' = [rows EXCEPT ![r] = @ \ {c}]
          BY <2>6, Zenon DEF RevokeRow
        <5>2. CASE AwaitRow(r, c) /\ UNCHANGED rows
          BY <5>2, Zenon DEF AwaitRow
        <5>3. CASE LockRow(r, c) /\ rows' = [rows EXCEPT ![r] = @ \ {c}]
          BY SMTT(30), <5>3 DEF LockRow
        <5> QED
          BY <5>1, <5>2, <5>3, Zenon
      <4> QED
        BY <4>1, <4>2, ZenonT(60) DEF RowsExist, tables, ghost
    <3>2. HoldsLock'
      <4>1. UNCHANGED <<status, tok, pc>>
        BY <2>6, Zenon DEF RevokeRow, tables
      <4>2. CASE UNCHANGED held
        BY <4>1, <4>2, Zenon DEF HoldsLock
      <4>3. ASSUME NEW c \in rows[r], LockRow(r, c) PROVE HoldsLock'
        <5>1. held'[r] = held[r] \cup {c} /\ \A q \in Req : q # r => held'[q] = held[q]
          BY <4>3, Zenon DEF LockRow
        <5>2. \A q \in Req : q # r => c \notin held[q]
          BY <4>3, Zenon DEF LockRow, Locked
        <5>3. \A q, p \in Req : \A d \in held'[q] : d \in held'[p] => q = p
          BY <5>1, <5>2 DEF HoldsLock
        <5>4. \A q \in Req : pc'[q] = "mint" => status'[tok'[q]] = "active" /\ tok'[q] \in held'[q]
          BY <4>1, <5>1, Zenon DEF HoldsLock
        <5> QED
          BY <5>3, <5>4, Zenon DEF HoldsLock
      <4> QED
        BY <2>6, <4>2, <4>3, Zenon DEF RevokeRow, AwaitRow
    <3> QED
      BY <1>q, <3>1, <3>2, Zenon
  <2>7. CASE ListByLineage(r)
    <3>1. UNCHANGED tables /\ RowsExist'
      BY <2>7 DEF ListByLineage, LineageOf, Goto, RowsExist, tables, ghost
    <3>2. HoldsLock'
      BY <2>7 DEF ListByLineage, Goto, HoldsLock, tables
    <3> QED
      BY <1>q, <3>1, <3>2, Zenon
  <2>8. CASE CommitRevocation(r)
    BY <1>t, <2>8, RotationCommitRevocation, Zenon
  <2>9. CASE DenylistNext(r)
    <3>1. UNCHANGED tables /\ RowsExist'
      BY <2>9 DEF DenylistNext, ListOnDenylist, RowsExist, tables
    <3>2. HoldsLock'
      BY <2>9, ZenonT(60) DEF DenylistNext, HoldsLock, tables
    <3> QED
      BY <1>q, <3>1, <3>2, Zenon
  <2>10. CASE DenylistEnd(r) \/ Rollback(r) \/ DeadlockVictim(r)
    <3>1. UNCHANGED <<tables, denied, killed, dealtWith>> /\ Return(r)
      BY <2>10, Zenon DEF DenylistEnd, Rollback, DeadlockVictim, ghost
    <3>2. RowsExist'
      BY <3>1, ZenonT(60) DEF Return, RowsExist, tables
    <3>3. HoldsLock'
      BY <3>1, ZenonT(60) DEF Return, HoldsLock, tables
    <3> QED
      BY <1>q, <3>1, <3>2, <3>3, Zenon
  <2> QED
    BY <1>3, <2>1, <2>2, <2>3, <2>4, <2>5, <2>6, <2>7, <2>8, <2>9, <2>10, Zenon DEF Step
<1>4. ASSUME NEW o \in Owner, SetStanding(o) PROVE RotationInv'
  BY <1>q, <1>4, Zenon DEF SetStanding, RowsExist, HoldsLock, tables, local, ghost
<1>5. CASE Tick
  BY <1>q, <1>5, Zenon DEF Tick, RowsExist, HoldsLock, tables, local, ghost
<1>6. CASE UNCHANGED vars
  BY <1>q, <1>6, Zenon DEF vars, RowsExist, HoldsLock, tables, local, ghost
<1> QED
  BY <1>1, <1>2, <1>3, <1>4, <1>5, <1>6, Zenon DEF Next

\* Whatever exchanges and revocations overlap, on either engine, a lineage has
\* at most one live token (OneActivePerLineage).
THEOREM RotationKeepsOneActive == Spec => []OneActivePerLineage
<1>1. RotationInv => OneActivePerLineage
  BY Zenon DEF RotationInv
<1> QED
  BY <1>1, RotationInit, RotationStep, PTL DEF Spec

\* No token is exchanged twice with success, on either engine
\* (SingleSuccessor).
THEOREM TokenConsumedOnce == Spec => []SingleSuccessor
<1>1. RotationInv => SingleSuccessor
  BY Zenon DEF RotationInv
<1> QED
  BY <1>1, RotationInit, RotationStep, PTL DEF Spec

\* Rotating a token never extends its lineage (DeadlineInherited).
THEOREM RotationInheritsDeadline == Spec => []DeadlineInherited
<1>1. RotationInv => DeadlineInherited
  BY Zenon DEF RotationInv
<1> QED
  BY <1>1, RotationInit, RotationStep, PTL DEF Spec

(***************************************************************************)
(* Lineage revocation under serialized write transactions.                 *)
(***************************************************************************)
\* What RevokedIsDeadOnSqlite promises of SQLite.
RevokedIsDead == \A c \in Cred : status[c] = "active" => lineage[c] \notin killed

\* At most one transaction is open, and a revocation in progress has found
\* every live row of its lineage.
SerialInv ==
  /\ \A q, r \in Req : pc[q] \in InTx /\ pc[r] \in InTx => q = r
  /\ \A r \in Req : pc[r] \in {"revoking", "commit"} =>
       \A c \in Cred : status[c] = "active" /\ lineage[c] = lineage[tok[r]] => c \in rows[r] \cup held[r]
  /\ \A r \in Req : pc[r] = "commit" => rows[r] = {}
  /\ RevokedIsDead

\* Serialized steps preserve it.
LEMMA SerialStep ==
  ASSUME Serialized, RotationInv, SerialInv, [Next]_vars
  PROVE  SerialInv'
<1> USE DEF RotationInv, TypeOK, SerialInv, RevokedIsDead, InTx
<1>1. ASSUME NEW o \in Owner, NEW c \in Cred, Issue(o, c) PROVE SerialInv'
  BY <1>1, Zenon DEF Issue, local, ghost, RowsExist
<1>2. ASSUME NEW r \in Req, NEW c \in Cred, Begin(r, c) PROVE SerialInv'
  BY <1>2 DEF Begin, MayBegin, Goto, tables, ghost
<1>3. ASSUME NEW r \in Req, Step(r) \/ Rollback(r) \/ DeadlockVictim(r) PROVE SerialInv'
  <2>1. CASE Lookup(r)
    BY <2>1 DEF Lookup, Goto, tables, ghost
  <2>2. CASE CheckOwner(r)
    <3>1. UNCHANGED <<tables, ghost>> /\ pc[r] = "owner"
      BY <2>2, Zenon DEF CheckOwner
    <3>2. CASE Return(r)
      BY <3>1, <3>2, Zenon DEF Return, tables, ghost
    <3>3. CASE (\E l \in {"reuse", "consume"} : Goto(r, l)) /\ UNCHANGED local
      BY <3>1, <3>3, ZenonT(60) DEF Goto, tables, local, ghost
    <3> QED
      BY <2>2, <3>2, <3>3, Zenon DEF CheckOwner
  <2>3. CASE MarkRotated(r)
    <3>1. pc[r] = "consume" /\ UNCHANGED <<status, lineage, tok, rows, killed>>
      BY <2>3, Zenon DEF MarkRotated, tables, ghost
    <3>2. pc'[r] \in {"consume", "mint", "reuse"} /\ \A q \in Req : q # r => pc'[q] = pc[q]
      BY <2>3, Zenon DEF MarkRotated, Goto
    <3>3. \A q \in Req : q # r => pc[q] \notin InTx
      BY <3>1, Zenon
    <3> QED
      BY <3>1, <3>2, <3>3, ZenonT(60)
  <2>4. CASE CommitExchange(r)
    <3>1. PICK c \in Cred :
            /\ status[c] = "none"
            /\ status' = [status EXCEPT ![tok[r]] = "rotated", ![c] = "active"]
            /\ lineage' = [lineage EXCEPT ![c] = lineage[tok[r]]]
      BY <2>4, Zenon DEF CommitExchange
    <3>2. /\ pc[r] = "mint"
          /\ tok[r] \in Cred
          /\ status[tok[r]] = "active"
          /\ killed' = killed
          /\ Return(r)
      BY <2>4, Zenon DEF CommitExchange, HoldsLock, ghost
    <3>3. \A q \in Req : pc'[q] \notin InTx
      BY <3>2, Zenon DEF Return
    <3>4. RevokedIsDead'
      BY <3>1, <3>2, Zenon
    <3> QED
      BY <3>3, <3>4, Zenon
  <2>5. CASE FindLineage(r)
    BY <2>5, ZenonT(60) DEF FindLineage, LineageOf, Goto, tables, ghost
  <2>6. CASE RevokeRow(r)
    <3>1. UNCHANGED <<status, lineage, tok, pc, killed>> /\ pc[r] = "revoking"
      BY <2>6, Zenon DEF RevokeRow, tables, ghost
    <3>2. rows'[r] \cup held'[r] = rows[r] \cup held[r]
      BY <2>6 DEF RevokeRow, LockRow, AwaitRow
    <3>3. \A q \in Req : q # r => pc[q] \notin InTx
      BY <3>1, Zenon
    <3> QED
      BY <3>1, <3>2, <3>3, Zenon
  <2>7. CASE ListByLineage(r)
    BY <2>7, Zenon DEF ListByLineage, Goto, tables, ghost
  <2>8. CASE CommitRevocation(r)
    BY <2>8, ZenonT(60) DEF CommitRevocation, Goto
  <2>9. CASE DenylistNext(r)
    BY <2>9, Zenon DEF DenylistNext, tables
  <2>10. CASE DenylistEnd(r) \/ Rollback(r) \/ DeadlockVictim(r)
    <3>1. UNCHANGED <<tables, killed>> /\ Return(r)
      BY <2>10, Zenon DEF DenylistEnd, Rollback, DeadlockVictim, ghost
    <3> QED
      BY <3>1, Zenon DEF Return, tables
  <2> QED
    BY <1>3, <2>1, <2>2, <2>3, <2>4, <2>5, <2>6, <2>7, <2>8, <2>9, <2>10, Zenon DEF Step
<1>4. ASSUME NEW o \in Owner, SetStanding(o) PROVE SerialInv'
  BY <1>4, Zenon DEF SetStanding, tables, local, ghost
<1>5. CASE Tick
  BY <1>5, Zenon DEF Tick, tables, local, ghost
<1>6. CASE UNCHANGED vars
  BY <1>6, Zenon DEF vars, tables, local, ghost
<1> QED
  BY <1>1, <1>2, <1>3, <1>4, <1>5, <1>6, Zenon DEF Next

\* On SQLite, once Exchange has answered a replayed token by revoking the
\* lineage, no credential of the lineage is live (RevokedIsDeadOnSqlite).
THEOREM RevocationIsFinalOnSqlite == Spec => []RevokedIsDeadOnSqlite
<1> DEFINE Inv == Serialized => SerialInv
<1>1. Init => Inv
  BY ZenonT(60) DEF Init, SerialInv, RevokedIsDead, InTx
<1>2. RotationInv /\ Inv /\ [Next]_vars => Inv'
  <2>1. [Next]_vars => engine' = engine
    BY Zenon DEF Next, vars
  <2> QED
    BY <2>1, SerialStep, Zenon DEF Serialized
<1>3. Inv => RevokedIsDeadOnSqlite
  BY Zenon DEF SerialInv, RevokedIsDead, RevokedIsDeadOnSqlite
<1> QED
  BY <1>1, <1>2, <1>3, RotationInit, RotationStep, PTL DEF Spec

(***************************************************************************)
(* The denylist.                                                           *)
(***************************************************************************)
\* Clock readings are not ahead of the clock, and an entry outlives every token
\* of its credential.
DenyInv ==
  /\ \A c \in Cred : status[c] # "none" => issuedAt[c] <= now
  /\ \A r \in Req : at[r] <= now
  /\ \A c \in Cred : denied[c] # 0 => issuedAt[c] + DenylistEntryTTL <= denied[c]
  /\ \A c \in dealtWith :
       \/ issuedAt[c] + DenylistEntryTTL <= denied[c]
       \/ issuedAt[c] + DenylistEntryTTL <= now

\* The sum is a number.
LEMMA EntryTTLType == DenylistEntryTTL \in Nat
BY ConstantsAssumption DEF DenylistEntryTTL

\* Every step preserves it.
LEMMA DenyStep ==
  ASSUME RotationInv, DenyInv, [Next]_vars
  PROVE  DenyInv'
<1> USE EntryTTLType DEF RotationInv, TypeOK, DenyInv
<1>1. ASSUME NEW o \in Owner, NEW c \in Cred, Issue(o, c) PROVE DenyInv'
  BY <1>1 DEF Issue, local, ghost, RowsExist
<1>2. ASSUME NEW r \in Req, NEW c \in Cred, Begin(r, c) PROVE DenyInv'
  BY <1>2 DEF Begin, tables, ghost
<1>3. ASSUME NEW r \in Req, Step(r) \/ Rollback(r) \/ DeadlockVictim(r) PROVE DenyInv'
  <2>0. ASSUME UNCHANGED <<now, tables, denied, dealtWith>>, \A q \in Req : at'[q] \in {0, at[q]}
        PROVE  DenyInv'
    BY <2>0 DEF tables
  <2>1. CASE Lookup(r) \/ FindLineage(r) \/ RevokeRow(r) \/ ListByLineage(r)
    BY <2>0, <2>1, Zenon DEF Lookup, FindLineage, RevokeRow, ListByLineage, ghost
  <2>2. CASE CheckOwner(r)
    BY <2>0, <2>2, Zenon DEF CheckOwner, Return, local, ghost
  <2>3. CASE MarkRotated(r)
    BY <2>0, <2>3, Zenon DEF MarkRotated, ghost
  <2>4. CASE CommitExchange(r)
    <3>1. PICK c \in Cred :
            /\ status[c] = "none"
            /\ status' = [status EXCEPT ![tok[r]] = "rotated", ![c] = "active"]
            /\ issuedAt' = [issuedAt EXCEPT ![c] = at[r]]
      BY <2>4, Zenon DEF CommitExchange
    <3>2. /\ tok[r] \in Cred
          /\ status[tok[r]] = "active"
          /\ UNCHANGED <<now, denied, ghost>>
          /\ \A q \in Req : at'[q] \in {0, at[q]}
      BY <2>4 DEF CommitExchange, HoldsLock, Return
    <3>3. c \notin dealtWith /\ denied[c] = 0
      BY <3>1, Zenon DEF RowsExist
    <3> QED
      BY SMTT(30), <3>1, <3>2, <3>3 DEF ghost
  <2>5. CASE CommitRevocation(r)
    BY <2>5, Zenon DEF CommitRevocation, RowsExist
  <2>6. CASE DenylistNext(r)
    <3>1. PICK c \in toDeny[r] :
            /\ \/ /\ issuedAt[c] + DenylistEntryTTL > at[r]
                  /\ ListOnDenylist(c)
               \/ /\ issuedAt[c] + DenylistEntryTTL <= at[r]
                  /\ UNCHANGED denied
            /\ dealtWith' = dealtWith \cup {c}
      BY <2>6, Zenon DEF DenylistNext
    <3>2. UNCHANGED <<now, tables, at>>
      BY <2>6, Zenon DEF DenylistNext
    <3>3. c \in Cred /\ issuedAt[c] <= now
      BY <3>1, Zenon DEF RowsExist
    <3>4. CASE ListOnDenylist(c)
      BY <3>1, <3>2, <3>3, <3>4 DEF ListOnDenylist, tables
    <3>5. CASE issuedAt[c] + DenylistEntryTTL <= at[r] /\ UNCHANGED denied
      BY <3>1, <3>2, <3>3, <3>5 DEF tables
    <3> QED
      BY <3>1, <3>4, <3>5, Zenon
  <2>7. CASE DenylistEnd(r) \/ Rollback(r) \/ DeadlockVictim(r)
    <3>1. UNCHANGED <<now, tables, denied, dealtWith>> /\ at' = [at EXCEPT ![r] = 0]
      BY <2>7, Zenon DEF DenylistEnd, Rollback, DeadlockVictim, Return, ghost
    <3>2. \A q \in Req : at'[q] <= now'
      BY <3>1
    <3> QED
      BY <3>1, <3>2, Zenon DEF tables
  <2> QED
    BY <1>3, <2>1, <2>2, <2>3, <2>4, <2>5, <2>6, <2>7, Zenon DEF Step
<1>4. ASSUME NEW o \in Owner, SetStanding(o) PROVE DenyInv'
  BY <1>4, Zenon DEF SetStanding, tables, local, ghost
<1>5. CASE Tick
  BY <1>5 DEF Tick, tables, local, ghost
<1>6. CASE UNCHANGED vars
  BY <1>6, Zenon DEF vars, tables, local, ghost
<1> QED
  BY <1>1, <1>2, <1>3, <1>4, <1>5, <1>6, Zenon DEF Next

\* For every token lifetime and every skew, no instance whose clock is at most
\* the skew behind accepts an access token of a credential that the denylist
\* pass has listed or skipped (DenylistOutlivesTokens).
THEOREM DenylistIsSound == Spec => []DenylistOutlivesTokens
<1>1. Init => DenyInv
  BY DEF Init, DenyInv
<1>2. RotationInv /\ DenyInv /\ [Next]_vars => DenyInv'
  BY DenyStep, Zenon
<1>3. RotationInv /\ DenyInv => DenylistOutlivesTokens
  <2> SUFFICES ASSUME RotationInv, DenyInv,
                      NEW c \in dealtWith, NEW s \in 0..DenylistSkew,
                      AccessTokenAccepted(c, s)
               PROVE  FALSE
    BY Zenon DEF DenylistOutlivesTokens
  <2>1. c \in Cred /\ issuedAt[c] \in Nat /\ denied[c] \in Nat /\ now \in Nat
    BY Zenon DEF RotationInv, TypeOK
  <2>2. now < issuedAt[c] + DenylistEntryTTL /\ denied[c] <= now
    BY <2>1, ConstantsAssumption DEF AccessTokenAccepted, DenylistEntryTTL
  <2> QED
    BY <2>1, <2>2, EntryTTLType DEF DenyInv
<1> QED
  BY <1>1, <1>2, <1>3, RotationInit, RotationStep, PTL DEF Spec

(***************************************************************************)
(* Refinement of the abstract lineage.                                     *)
(***************************************************************************)
\* A revocation holds rows of its own lineage only.
RowsOfLineage ==
  /\ \A r \in Req : pc[r] = "idle" => rows[r] = {} /\ held[r] = {}
  /\ \A r \in Req : \A c \in rows[r] \cup held[r] : lineage[c] = lineage[tok[r]]

\* Rows never change lineage, and rows found belong to the lineage asked for.
LEMMA RowsOfLineageStep ==
  ASSUME RotationInv, RowsOfLineage, [Next]_vars
  PROVE  RowsOfLineage'
<1>a. ASSUME NEW r \in Req, MarkRotated(r) PROVE RowsOfLineage'
  <2>1. /\ UNCHANGED <<lineage, tok, rows>> /\ pc'[r] # "idle"
        /\ \A q \in Req : q # r => pc'[q] = pc[q]
        /\ held'[r] \in {held[r], held[r] \cup {tok[r]}}
        /\ \A q \in Req : q # r => held'[q] = held[q]
    BY <1>a, MarkRotatedEffect, LockEffect, Zenon DEF RotationInv, tables
  <2>2. \A q \in Req : held'[q] = held[q] \/ held'[q] = held[q] \cup {tok[q]}
    BY <2>1, Zenon
  <2>3. \A q \in Req : pc'[q] = "idle" => q # r
    BY <2>1, Zenon
  <2>4. \A q \in Req : pc'[q] = "idle" => rows'[q] = {} /\ held'[q] = {}
    BY <2>1, <2>3, Zenon DEF RowsOfLineage
  <2>5. ASSUME NEW q \in Req, NEW c \in rows'[q] \cup held'[q] PROVE lineage'[c] = lineage'[tok'[q]]
    <3>1. c \in rows[q] \cup held[q] \/ c = tok[q]
      BY <2>1, <2>2, <2>5, Zenon
    <3> QED
      BY <2>1, <3>1, Zenon DEF RowsOfLineage
  <2> QED
    BY <2>4, <2>5, Zenon DEF RowsOfLineage
<1>b. ASSUME NEW r \in Req, RevokeRow(r) PROVE RowsOfLineage'
  <2>1. /\ UNCHANGED <<lineage, tok, pc>> /\ pc[r] = "revoking"
        /\ \A q \in Req : rows'[q] \subseteq rows[q]
        /\ \A q \in Req : q # r => held'[q] = held[q]
        /\ \E c \in rows[r] : held'[r] \in {held[r], held[r] \cup {c}}
    BY <1>b, RevokeRowEffect, Zenon DEF RotationInv
  <2>2. \A q \in Req : held'[q] \subseteq held[q] \cup rows[q]
    BY <2>1, Zenon
  <2>3. \A q \in Req : pc'[q] = "idle" => rows'[q] = {} /\ held'[q] = {}
    BY <2>1, Zenon DEF RowsOfLineage
  <2>4. \A q \in Req : \A c \in rows'[q] \cup held'[q] : lineage'[c] = lineage'[tok'[q]]
    BY <2>1, <2>2, Zenon DEF RowsOfLineage
  <2> QED
    BY <2>3, <2>4, Zenon DEF RowsOfLineage
<1> USE DEF RotationInv, TypeOK, RowsOfLineage, RowsExist
<1>1. ASSUME NEW o \in Owner, NEW c \in Cred, Issue(o, c) PROVE RowsOfLineage'
  BY <1>1 DEF Issue, local
<1>2. ASSUME NEW r \in Req, NEW c \in Cred, Begin(r, c) PROVE RowsOfLineage'
  BY <1>2, Zenon DEF Begin, Goto, tables
<1>3. ASSUME NEW r \in Req, Step(r) \/ Rollback(r) \/ DeadlockVictim(r) PROVE RowsOfLineage'
  <2>1. CASE Lookup(r)
    BY <2>1, ZenonT(60) DEF Lookup, Goto, tables
  <2>2. CASE CheckOwner(r)
    <3>1. UNCHANGED tables
      BY <2>2, Zenon DEF CheckOwner
    <3>2. CASE Return(r)
      BY <3>1, <3>2, Zenon DEF Return, tables
    <3>3. CASE (\E l \in {"reuse", "consume"} : Goto(r, l)) /\ UNCHANGED local /\ pc[r] = "owner"
      <4>1. pc'[r] # "idle" /\ \A q \in Req : q # r => pc'[q] = pc[q]
        BY <3>3 DEF Goto
      <4> QED
        BY <3>1, <3>3, <4>1, Zenon DEF tables, local
    <3> QED
      BY <2>2, <3>2, <3>3, Zenon DEF CheckOwner
  <2>3. CASE MarkRotated(r)
    BY <2>3, <1>a, Zenon
  <2>4. CASE CommitExchange(r)
    BY <2>4 DEF CommitExchange, HoldsLock, Return
  <2>5. CASE FindLineage(r)
    BY <2>5, Zenon DEF FindLineage, LineageOf, Goto, tables
  <2>6. CASE RevokeRow(r)
    BY <2>6, <1>b, Zenon
  <2>7. CASE ListByLineage(r)
    BY <2>7, Zenon DEF ListByLineage, Goto, tables
  <2>8. CASE CommitRevocation(r)
    BY <2>8, ZenonT(60) DEF CommitRevocation, Goto
  <2>9. CASE DenylistNext(r)
    BY <2>9, Zenon DEF DenylistNext, tables
  <2>10. CASE DenylistEnd(r) \/ Rollback(r) \/ DeadlockVictim(r)
    <3>1. UNCHANGED tables /\ Return(r)
      BY <2>10, Zenon DEF DenylistEnd, Rollback, DeadlockVictim
    <3> QED
      BY <3>1, Zenon DEF Return, tables
  <2> QED
    BY <1>3, <2>1, <2>2, <2>3, <2>4, <2>5, <2>6, <2>7, <2>8, <2>9, <2>10, Zenon DEF Step
<1>4. ASSUME NEW o \in Owner, SetStanding(o) PROVE RowsOfLineage'
  BY <1>4, Zenon DEF SetStanding, tables, local
<1>5. CASE Tick
  BY <1>5, Zenon DEF Tick, tables, local
<1>6. CASE UNCHANGED vars
  BY <1>6, Zenon DEF vars, tables, local
<1> QED
  BY <1>1, <1>2, <1>3, <1>4, <1>5, <1>6, ZenonT(60) DEF Next

\* With one live row per lineage, the choice in CurrentOf is determined.
CurrentIsActive ==
  /\ CurrentOf \in [Cred -> Cred \cup {NoCred}]
  /\ \A c \in Cred : status[c] = "active" => CurrentOf[lineage[c]] = c
  /\ \A l \in Cred : CurrentOf[l] # NoCred =>
       status[CurrentOf[l]] = "active" /\ lineage[CurrentOf[l]] = l

\* It follows from OneActivePerLineage.
LEMMA CurrentDetermined == RotationInv => CurrentIsActive
<1> SUFFICES ASSUME RotationInv PROVE CurrentIsActive
  BY Zenon
<1>1. ASSUME NEW l \in Cred, ActiveOf(l) # {}
      PROVE  /\ CurrentOf[l] \in ActiveOf(l)
             /\ \A c \in ActiveOf(l) : CurrentOf[l] = c
  <2>1. CurrentOf[l] = CHOOSE c \in ActiveOf(l) : TRUE
    BY <1>1, Zenon DEF CurrentOf
  <2>2. CurrentOf[l] \in ActiveOf(l)
    BY <1>1, <2>1, Zenon
  <2> QED
    BY <2>2, Zenon DEF ActiveOf, RotationInv, OneActivePerLineage
<1>2. ASSUME NEW l \in Cred, ActiveOf(l) = {} PROVE CurrentOf[l] = NoCred
  BY <1>2, Zenon DEF CurrentOf
<1>3. \A l \in Cred : CurrentOf[l] \in Cred \cup {NoCred}
  BY <1>1, <1>2, Zenon DEF ActiveOf
<1>4. CurrentOf \in [Cred -> Cred \cup {NoCred}]
  BY <1>3, Zenon DEF CurrentOf
<1>5. \A c \in Cred : status[c] = "active" => CurrentOf[lineage[c]] = c
  BY <1>1, ZenonT(60) DEF ActiveOf, RotationInv, TypeOK
<1> QED
  BY <1>1, <1>2, <1>4, <1>5, Zenon DEF ActiveOf, CurrentIsActive

\* What CommitExchange does to the rows, one row at a time.
SuccessorRow(r, c) ==
  /\ tok[r] \in Cred
  /\ lineage[tok[r]] \in Cred
  /\ status[tok[r]] = "active"
  /\ status[c] = "none"
  /\ \A d \in Cred :
       status'[d] = IF d = c THEN "active" ELSE IF d = tok[r] THEN "rotated" ELSE status[d]
  /\ \A d \in Cred : lineage'[d] = IF d = c THEN lineage[tok[r]] ELSE lineage[d]

\* The rows, from the action.
LEMMA CommitExchangeRows ==
  ASSUME RotationInv, NEW r \in Req, CommitExchange(r)
  PROVE  \E c \in Cred : SuccessorRow(r, c)
<1>1. /\ pc[r] = "mint"
      /\ \E c \in Cred :
           /\ status[c] = "none"
           /\ status' = [status EXCEPT ![tok[r]] = "rotated", ![c] = "active"]
           /\ lineage' = [lineage EXCEPT ![c] = lineage[tok[r]]]
  BY Zenon DEF CommitExchange
<1>2. tok[r] \in Cred /\ status[tok[r]] = "active"
  BY <1>1, Zenon DEF RotationInv, TypeOK, HoldsLock
<1>3. status \in [Cred -> Status] /\ lineage \in [Cred -> Cred]
  BY Zenon DEF RotationInv, TypeOK
<1> QED
  BY <1>1, <1>2, <1>3, Zenon DEF SuccessorRow

\* Every step of the requests is a Start, a Rotate, a Kill or a stutter of the
\* abstract lineage.
LEMMA LineageStep ==
  ASSUME RotationInv, RotationInv', RowsOfLineage, CurrentIsActive, CurrentIsActive', [Next]_vars
  PROVE  [L!Next]_<<CurrentOf, {c \in Cred : status[c] # "none"}>>
<1> DEFINE minted == {c \in Cred : status[c] # "none"}
<1> HIDE DEF minted
<1>t. status \in [Cred -> Status] /\ lineage \in [Cred -> Cred]
  BY Zenon DEF RotationInv, TypeOK
<1>q. ASSUME UNCHANGED <<status, lineage>> PROVE UNCHANGED <<CurrentOf, minted>>
  BY <1>q DEF CurrentOf, ActiveOf, minted
<1>1. ASSUME NEW o \in Owner, NEW c \in Cred, Issue(o, c) PROVE L!Start(c)
  <2>0. /\ status' = [status EXCEPT ![c] = "active"]
        /\ lineage' = [lineage EXCEPT ![c] = c]
    BY <1>1, Zenon DEF Issue
  <2>1. \A d \in Cred : status'[d] = IF d = c THEN "active" ELSE status[d]
    BY <1>t, <2>0, Zenon
  <2>2. \A d \in Cred : lineage'[d] = IF d = c THEN c ELSE lineage[d]
    BY <1>t, <2>0, Zenon
  <2>3. status[c] = "none"
    BY <1>1, Zenon DEF Issue
  <2>4. minted' = minted \cup {c} /\ c \notin minted
    BY <2>1, <2>3, Zenon DEF minted
  <2>5. \A l \in Cred : CurrentOf'[l] = IF l = c THEN c ELSE CurrentOf[l]
    <3>1. CurrentOf'[c] = c
      <4>1. status'[c] = "active" /\ lineage'[c] = c
        BY <2>1, <2>2, Zenon
      <4>2. \A d \in Cred : status'[d] = "active" => CurrentOf'[lineage'[d]] = d
        BY ZenonT(60) DEF CurrentIsActive
      <4> QED
        BY <4>1, <4>2, Zenon
    <3>2. ASSUME NEW l \in Cred, l # c, CurrentOf[l] # NoCred PROVE CurrentOf'[l] = CurrentOf[l]
      <4>1. CurrentOf[l] \in Cred /\ CurrentOf[l] # c
        BY <2>3, <3>2 DEF CurrentIsActive
      <4> QED
        BY <2>1, <2>2, <3>2, <4>1 DEF CurrentIsActive
    <3>3. ASSUME NEW l \in Cred, l # c, CurrentOf'[l] # NoCred PROVE CurrentOf'[l] = CurrentOf[l]
      <4>1. CurrentOf'[l] \in Cred /\ CurrentOf'[l] # c
        BY <2>2, <3>3 DEF CurrentIsActive
      <4> QED
        BY <2>1, <2>2, <3>3, <4>1 DEF CurrentIsActive
    <3> QED
      BY <3>1, <3>2, <3>3, Zenon
  <2>6. CurrentOf' = [CurrentOf EXCEPT ![c] = c]
    BY <2>5 DEF CurrentIsActive
  <2> QED
    BY <2>4, <2>6, Zenon DEF L!Start, minted
<1>2. ASSUME NEW r \in Req, CommitExchange(r)
      PROVE  \E c \in Cred : L!Rotate(lineage[tok[r]], c)
  <2> DEFINE l == lineage[tok[r]]
  <2>1. PICK c \in Cred : SuccessorRow(r, c)
    BY <1>2, CommitExchangeRows, Zenon
  <2>2. tok[r] \in Cred /\ l \in Cred /\ CurrentOf[l] = tok[r]
    BY <2>1, Zenon DEF SuccessorRow, CurrentIsActive
  <2>3. minted' = minted \cup {c} /\ c \notin minted
    BY <2>1, ZenonT(60) DEF SuccessorRow, minted
  <2>4. CurrentOf'[l] = c
    BY <2>1 DEF SuccessorRow, CurrentIsActive
  <2>5. ASSUME NEW k \in Cred, k # l, CurrentOf[k] # NoCred PROVE CurrentOf'[k] = CurrentOf[k]
    <3>1. CurrentOf[k] \in Cred /\ status[CurrentOf[k]] = "active" /\ lineage[CurrentOf[k]] = k
      BY <2>5 DEF CurrentIsActive
    <3>2. status'[CurrentOf[k]] = "active" /\ lineage'[CurrentOf[k]] = k
      BY <2>1, <2>5, <3>1, Zenon DEF SuccessorRow
    <3> QED
      BY <3>1, <3>2, ZenonT(60) DEF CurrentIsActive
  <2>6. ASSUME NEW k \in Cred, k # l, CurrentOf'[k] # NoCred PROVE CurrentOf'[k] = CurrentOf[k]
    <3>1. CurrentOf'[k] \in Cred /\ status'[CurrentOf'[k]] = "active" /\ lineage'[CurrentOf'[k]] = k
      BY <2>6 DEF CurrentIsActive
    <3>2. status[CurrentOf'[k]] = "active" /\ lineage[CurrentOf'[k]] = k
      BY <2>1, <2>6, <3>1, Zenon DEF SuccessorRow
    <3> QED
      BY <3>1, <3>2, ZenonT(60) DEF CurrentIsActive
  <2>7. \A k \in Cred : CurrentOf'[k] = IF k = l THEN c ELSE CurrentOf[k]
    BY <2>4, <2>5, <2>6, Zenon
  <2>8. CurrentOf' = [CurrentOf EXCEPT ![l] = c]
    BY <2>7 DEF CurrentIsActive
  <2> QED
    BY <2>2, <2>3, <2>8, ConstantsAssumption, Zenon DEF L!Rotate, minted
<1>3. ASSUME NEW r \in Req, CommitRevocation(r)
      PROVE  L!Kill(lineage[tok[r]]) \/ UNCHANGED <<CurrentOf, minted>>
  <2> DEFINE l == lineage[tok[r]]
  <2>1. /\ l \in Cred
        /\ held[r] \subseteq Cred
        /\ \A c \in held[r] : lineage[c] = l
        /\ lineage' = lineage
        /\ \A c \in Cred : status'[c] = IF c \in held[r] THEN "revoked" ELSE status[c]
    BY <1>3, Zenon DEF CommitRevocation, RotationInv, TypeOK, RowsOfLineage
  <2>2. minted' = minted
    BY <2>1, Zenon DEF minted, RotationInv, RowsExist
  <2>3. \A k \in Cred : CurrentOf'[k] = IF CurrentOf[k] \in held[r] THEN NoCred ELSE CurrentOf[k]
    <3>1. ASSUME NEW k \in Cred, CurrentOf'[k] # NoCred
          PROVE  CurrentOf'[k] = CurrentOf[k] /\ CurrentOf[k] \notin held[r]
      <4>1. CurrentOf'[k] \in Cred /\ status'[CurrentOf'[k]] = "active" /\ lineage[CurrentOf'[k]] = k
        BY <2>1, <3>1 DEF CurrentIsActive
      <4>2. CurrentOf'[k] \notin held[r] /\ status[CurrentOf'[k]] = "active"
        BY <2>1, <4>1, Zenon
      <4> QED
        BY <4>1, <4>2 DEF CurrentIsActive
    <3>2. ASSUME NEW k \in Cred, CurrentOf[k] # NoCred, CurrentOf[k] \notin held[r]
          PROVE  CurrentOf'[k] = CurrentOf[k]
      <4>1. CurrentOf[k] \in Cred /\ status[CurrentOf[k]] = "active" /\ lineage[CurrentOf[k]] = k
        BY <3>2 DEF CurrentIsActive
      <4> QED
        BY <2>1, <3>2, <4>1 DEF CurrentIsActive
    <3> QED
      BY <3>1, <3>2, Zenon
  <2>4. CASE CurrentOf[l] \in held[r]
    <3>1. \A k \in Cred : CurrentOf[k] \in held[r] <=> k = l
      BY <2>1, <2>4, ConstantsAssumption DEF CurrentIsActive
    <3>2. CurrentOf' = [CurrentOf EXCEPT ![l] = NoCred]
      BY <2>3, <3>1 DEF CurrentIsActive
    <3> QED
      BY <2>1, <2>2, <2>4, <3>2, ConstantsAssumption, Zenon DEF L!Kill, minted
  <2>5. CASE CurrentOf[l] \notin held[r]
    <3>1. \A k \in Cred : CurrentOf[k] \notin held[r]
      BY <2>1, <2>5, ConstantsAssumption DEF CurrentIsActive
    <3>2. CurrentOf' = CurrentOf
      BY <2>3, <3>1 DEF CurrentIsActive
    <3> QED
      BY <2>2, <3>2, Zenon
  <2> QED
    BY <2>4, <2>5, Zenon
<1>4. ASSUME NEW r \in Req, NEW c \in Cred, Begin(r, c) PROVE UNCHANGED <<status, lineage>>
  BY <1>4, Zenon DEF Begin, tables
<1>5. ASSUME NEW r \in Req, Step(r) \/ Rollback(r) \/ DeadlockVictim(r), ~CommitExchange(r), ~CommitRevocation(r)
      PROVE  UNCHANGED <<status, lineage>>
  BY <1>5, Zenon DEF Step, Lookup, CheckOwner, MarkRotated, FindLineage, RevokeRow, ListByLineage,
              DenylistNext, DenylistEnd, Rollback, DeadlockVictim, tables
<1>6. ASSUME NEW o \in Owner, SetStanding(o) PROVE UNCHANGED <<status, lineage>>
  BY <1>6, Zenon DEF SetStanding, tables
<1>7. ASSUME Tick \/ UNCHANGED vars PROVE UNCHANGED <<status, lineage>>
  BY <1>7, Zenon DEF Tick, vars, tables
<1>8. \A r \in Req : CommitExchange(r) \/ CommitRevocation(r) => lineage[tok[r]] \in Cred
  BY Zenon DEF CommitExchange, CommitRevocation, RotationInv, TypeOK
<1> QED
  BY <1>q, <1>1, <1>2, <1>3, <1>4, <1>5, <1>6, <1>7, <1>8, Zenon DEF Next, L!Next, minted

\* On either engine, committed exchanges and revocations are rotations and
\* kills of the abstract lineage: a lineage never regains a live credential it
\* has lost (ImplementsLineage).
THEOREM RefinesLineage == Spec => ImplementsLineage
<1>1. Init => L!Init
  <2> SUFFICES ASSUME Init PROVE L!Init
    BY Zenon
  <2>1. \A l \in Cred : ActiveOf(l) = {}
    BY Zenon DEF Init, ActiveOf
  <2>2. CurrentOf = [l \in Cred |-> NoCred]
    BY <2>1, Zenon DEF CurrentOf
  <2>3. {c \in Cred : status[c] # "none"} = {}
    BY Zenon DEF Init
  <2> QED
    BY <2>2, <2>3, Zenon DEF L!Init
<1>2. Init => RowsOfLineage
  BY Zenon DEF Init, RowsOfLineage
<1>3. RotationInv /\ RowsOfLineage /\ [Next]_vars => RowsOfLineage'
  BY RowsOfLineageStep, Zenon
<1>4. RotationInv /\ RotationInv' /\ RowsOfLineage /\ CurrentIsActive /\ CurrentIsActive' /\ [Next]_vars
        => [L!Next]_<<CurrentOf, {c \in Cred : status[c] # "none"}>>
  BY LineageStep, Zenon
<1> QED
  BY <1>1, <1>2, <1>3, <1>4, CurrentDetermined, RotationInit, RotationStep, PTL
     DEF Spec, ImplementsLineage, L!Spec

(***************************************************************************)
(* Deadlock.                                                               *)
(***************************************************************************)
\* Who waits, and for what: an exchange for the row it presents, before it
\* holds any; a revocation for one of the rows it has found.
WaitInv ==
  /\ \A r \in Req : want[r] # NoCred =>
       \/ pc[r] = "consume" /\ want[r] = tok[r]
       \/ pc[r] = "revoking" /\ want[r] \in rows[r]
  /\ \A r \in Req : pc[r] \in {"idle", "lookup", "owner", "consume"} => held[r] = {}
  /\ \A r \in Req : want[r] \notin held[r]

\* A request that is waited for and waits is at revoking a lineage, and one that
\* waits for it has presented a credential of the same lineage.
LEMMA CycleIsOneLineage ==
  ASSUME RotationInv, RowsOfLineage, WaitInv, NEW r \in Req, NEW q \in Req, Awaits(r, q)
  PROVE  /\ q # r
         /\ want[q] # NoCred => pc[q] = "revoking"
         /\ lineage[tok[q]] = lineage[tok[r]]
<1>1. want[r] # NoCred /\ want[r] \in held[q]
  BY Zenon DEF Awaits
<1>2. q # r
  BY <1>1, Zenon DEF WaitInv
<1>3. want[q] # NoCred => pc[q] = "revoking"
  BY <1>1, Zenon DEF WaitInv
<1>4. lineage[want[r]] = lineage[tok[q]]
  BY <1>1, Zenon DEF RowsOfLineage
<1>5. lineage[want[r]] = lineage[tok[r]]
  BY <1>1, Zenon DEF WaitInv, RowsOfLineage
<1> QED
  BY <1>2, <1>3, <1>4, <1>5, Zenon

\* Every member of a cycle answers a replay, and so does one it waits for, in the
\* same lineage.
LEMMA OthersGoOn ==
  ASSUME RotationInv, RowsOfLineage, WaitInv, NEW r \in Req, Deadlocked(r)
  PROVE  /\ Answering(r)
         /\ \E q \in Req : q # r /\ Answering(q) /\ lineage[tok[q]] = lineage[tok[r]]
<1>1. PICK S \in SUBSET Req :
        /\ r \in S
        /\ \A p \in S : (\E q \in S : Awaits(p, q)) /\ (\E q \in S : Awaits(q, p))
  BY Zenon DEF Deadlocked
<1>2. PICK q \in S : Awaits(r, q)
  BY <1>1, Zenon
<1>3. PICK p \in S : Awaits(p, r)
  BY <1>1, Zenon
<1>4. want[r] # NoCred /\ want[q] # NoCred
  BY <1>1, <1>2, Zenon DEF Awaits
<1>5. pc[r] = "revoking"
  BY <1>1, <1>3, <1>4, CycleIsOneLineage, Zenon
<1>6. q # r /\ pc[q] = "revoking" /\ lineage[tok[q]] = lineage[tok[r]]
  BY <1>1, <1>2, <1>4, CycleIsOneLineage, Zenon
<1> QED
  BY <1>1, <1>5, <1>6, Zenon DEF Answering

\* Nothing else waits: a request gives up its locks when it returns.
LEMMA WaitStep ==
  ASSUME RotationInv, WaitInv, [Next]_vars
  PROVE  WaitInv'
<1>t. TypeOK /\ HoldsLock
  BY Zenon DEF RotationInv
<1>q. ASSUME NEW r \in Req, UNCHANGED <<tok, rows, held, want>>, want[r] = NoCred,
             pc'[r] \in {"idle", "lookup", "owner", "consume"} => held[r] = {},
             \A q \in Req : q # r => pc'[q] = pc[q]
      PROVE  WaitInv'
  BY <1>q, ZenonT(60) DEF WaitInv
<1>r. ASSUME NEW r \in Req, Return(r) PROVE WaitInv'
  <2>1. /\ rows'[r] = {} /\ held'[r] = {} /\ want'[r] = NoCred
        /\ \A q \in Req : q # r => /\ pc'[q] = pc[q]
                                   /\ tok'[q] = tok[q]
                                   /\ rows'[q] = rows[q]
                                   /\ held'[q] = held[q]
                                   /\ want'[q] = want[q]
    BY <1>t, <1>r DEF Return, TypeOK
  <2> QED
    BY <2>1, ZenonT(60) DEF WaitInv
<1>1. ASSUME NEW o \in Owner, NEW c \in Cred, Issue(o, c) PROVE WaitInv'
  BY <1>1, Zenon DEF Issue, local, WaitInv
<1>2. ASSUME NEW r \in Req, NEW c \in Cred, Begin(r, c) PROVE WaitInv'
  <2>1. pc[r] = "idle" /\ want[r] = NoCred /\ held[r] = {}
    BY <1>2, Zenon DEF Begin, WaitInv
  <2>2. /\ UNCHANGED <<rows, held, want>>
        /\ \A q \in Req : q # r => pc'[q] = pc[q] /\ tok'[q] = tok[q]
    BY <1>t, <1>2 DEF Begin, Goto, TypeOK
  <2> QED
    BY <2>1, <2>2, ZenonT(60) DEF WaitInv
<1>3. ASSUME NEW r \in Req, Step(r) \/ Rollback(r) \/ DeadlockVictim(r) PROVE WaitInv'
  <2>1. CASE Lookup(r)
    BY <2>1, <1>t, <1>q DEF Lookup, Goto, TypeOK, WaitInv
  <2>2. CASE CheckOwner(r)
    <3>1. CASE (\E l \in {"reuse", "consume"} : Goto(r, l)) /\ UNCHANGED local /\ pc[r] = "owner"
      <4>1. want[r] = NoCred /\ held[r] = {}
        BY <3>1, Zenon DEF WaitInv
      <4>2. \A q \in Req : q # r => pc'[q] = pc[q]
        BY <1>t, <3>1, Zenon DEF Goto, TypeOK
      <4> QED
        BY <3>1, <4>1, <4>2, <1>q, Zenon DEF local
    <3> QED
      BY <2>2, <3>1, <1>r, Zenon DEF CheckOwner
  <2>3. CASE MarkRotated(r)
    <3>1. /\ pc[r] = "consume" /\ pc'[r] \in {"consume", "mint", "reuse"}
          /\ UNCHANGED <<tok, rows>>
          /\ \A q \in Req : q # r => pc'[q] = pc[q] /\ held'[q] = held[q] /\ want'[q] = want[q]
      BY <2>3, <1>t, MarkRotatedEffect, LockEffect, ZenonT(60)
    <3>2. held[r] = {} /\ held \in [Req -> SUBSET Cred] /\ want \in [Req -> Cred \cup {NoCred}]
      BY <1>t, <3>1, Zenon DEF WaitInv, TypeOK
    <3>3. CASE UNCHANGED <<held, want>> /\ want[r] = NoCred
      BY <3>1, <3>2, <3>3, <1>q, Zenon
    <3>4. CASE AwaitRow(r, tok[r]) /\ UNCHANGED pc
      <4>1. want'[r] = tok[r] /\ held'[r] = {} /\ pc'[r] = "consume"
        BY <3>1, <3>2, <3>4, Zenon DEF AwaitRow
      <4> QED
        BY <3>1, <4>1, ZenonT(60) DEF WaitInv
    <3>5. CASE LockRow(r, tok[r]) /\ pc'[r] \in {"mint", "reuse"}
      <4>1. want'[r] = NoCred /\ held'[r] = {tok[r]} /\ NoCred # tok[r]
        BY <1>t, <3>1, <3>2, <3>5, ConstantsAssumption, Zenon DEF LockRow, TypeOK
      <4> QED
        BY <3>1, <3>5, <4>1, ZenonT(60) DEF WaitInv
    <3> QED
      <4>1. pc \in [Req -> Location]
        BY <1>t, Zenon DEF TypeOK
      <4> QED
        BY <2>3, <3>3, <3>4, <3>5, <4>1, Zenon DEF MarkRotated, Goto
  <2>4. CASE FindLineage(r)
    <3>1. /\ pc[r] = "reuse" /\ pc'[r] = "revoking"
          /\ UNCHANGED <<tok, held, want>>
          /\ \A q \in Req : q # r => pc'[q] = pc[q] /\ rows'[q] = rows[q]
      BY <2>4, <1>t, Zenon DEF FindLineage, Goto, TypeOK
    <3>2. want[r] = NoCred
      BY <3>1, Zenon DEF WaitInv
    <3> QED
      BY <3>1, <3>2, ZenonT(60) DEF WaitInv
  <2>5. CASE RevokeRow(r)
    <3>1. /\ UNCHANGED <<tok, pc>> /\ pc[r] = "revoking"
          /\ \A q \in Req : q # r => rows'[q] = rows[q] /\ held'[q] = held[q] /\ want'[q] = want[q]
      BY <2>5, <1>t, RevokeRowEffect, Zenon
    <3>2. /\ held \in [Req -> SUBSET Cred] /\ want \in [Req -> Cred \cup {NoCred}]
      BY <1>t, Zenon DEF TypeOK
    <3>3. ASSUME NEW c \in rows[r], AwaitRow(r, c), UNCHANGED rows PROVE WaitInv'
      <4>1. want'[r] = c /\ held'[r] = held[r] /\ c \notin held[r]
        BY <1>t, <3>2, <3>3, Zenon DEF AwaitRow, Locked, HoldsLock
      <4> QED
        BY <3>1, <3>3, <4>1, ZenonT(60) DEF WaitInv
    <3>4. ASSUME NEW c \in rows[r], LockRow(r, c) PROVE WaitInv'
      <4>1. want'[r] = NoCred /\ held'[r] = held[r] \cup {c} /\ c \in Cred
        BY <1>t, <3>2, <3>4, Zenon DEF LockRow, TypeOK
      <4>2. NoCred \notin held'[r]
        BY <3>2, <4>1, ConstantsAssumption, Zenon
      <4> QED
        BY <3>1, <4>1, <4>2, ZenonT(60) DEF WaitInv
    <3> QED
      BY <2>5, <3>3, <3>4, Zenon DEF RevokeRow
  <2>6. CASE ListByLineage(r)
    <3>1. /\ pc[r] = "revoking" /\ pc'[r] = "commit" /\ rows[r] = {}
          /\ UNCHANGED <<tok, rows, held, want>>
          /\ \A q \in Req : q # r => pc'[q] = pc[q]
      BY <2>6, <1>t, Zenon DEF ListByLineage, Goto, TypeOK
    <3>2. want[r] = NoCred
      BY <3>1, Zenon DEF WaitInv
    <3> QED
      BY <3>1, <3>2, <1>q, Zenon
  <2>7. CASE CommitRevocation(r)
    <3>1. /\ pc[r] = "commit" /\ pc'[r] = "deny" /\ held'[r] = {}
          /\ UNCHANGED <<tok, rows, want>>
          /\ \A q \in Req : q # r => pc'[q] = pc[q] /\ held'[q] = held[q]
      BY <2>7, <1>t, Zenon DEF CommitRevocation, Goto, TypeOK
    <3>2. want[r] = NoCred
      BY <3>1, Zenon DEF WaitInv
    <3> QED
      BY <3>1, <3>2, ZenonT(60) DEF WaitInv
  <2>8. CASE DenylistNext(r)
    BY <2>8, Zenon DEF DenylistNext, WaitInv
  <2> QED
    BY <1>3, <1>r, <2>1, <2>2, <2>3, <2>4, <2>5, <2>6, <2>7, <2>8, Zenon
       DEF Step, CommitExchange, DenylistEnd, Rollback, DeadlockVictim
<1>4. CASE UNCHANGED <<pc, local>>
  BY <1>4, Zenon DEF local, WaitInv
<1> QED
  BY <1>1, <1>2, <1>3, <1>4, Zenon DEF Next, SetStanding, Tick, vars

\* What the history of deadlocks satisfies: each lineage that lost an answer to
\* one is revoked, or a request still answers.
AnsweredInv ==
  \A l \in aborted :
    l \in killed \/ \E r \in Req : Answering(r) /\ lineage[tok[r]] = l

\* An answer ends with its commit, which revokes the lineage; with an error; or
\* as the victim of a cycle, whose other members go on.
LEMMA AnsweredStep ==
  ASSUME RotationInv, RowsOfLineage, WaitInv, AnsweredInv, [Next]_vars
  PROVE  AnsweredInv'
<1>t. /\ pc \in [Req -> Location] /\ tok \in [Req -> Cred \cup {NoCred}] /\ lineage \in [Cred -> Cred]
      /\ \A r \in Req : pc[r] # "idle" => tok[r] \in Cred /\ status[tok[r]] # "none"
  BY Zenon DEF RotationInv, TypeOK, RowsExist
<1>k. ASSUME NEW r \in Req, aborted' \subseteq aborted, killed \subseteq killed',
             \A q \in Req : q # r => pc'[q] = pc[q] /\ tok'[q] = tok[q],
             \A q \in Req : pc[q] # "idle" => lineage'[tok[q]] = lineage[tok[q]],
             Answering(r) =>
               \/ Answering(r)' /\ tok'[r] = tok[r]
               \/ lineage[tok[r]] \in killed'
               \/ lineage[tok[r]] \notin aborted'
      PROVE  AnsweredInv'
  <2> SUFFICES ASSUME NEW l \in aborted', l \notin killed'
               PROVE  \E q \in Req : Answering(q)' /\ lineage'[tok'[q]] = l
    BY Zenon DEF AnsweredInv
  <2>1. PICK q \in Req : Answering(q) /\ lineage[tok[q]] = l
    BY <1>k, Zenon DEF AnsweredInv
  <2>2. pc[q] # "idle"
    BY <2>1, Zenon DEF Answering
  <2>3. Answering(q)' /\ tok'[q] = tok[q]
    <3>1. CASE q = r
      BY <1>k, <2>1, <3>1, Zenon
    <3>2. CASE q # r
      BY <1>k, <2>1, <3>2, Zenon DEF Answering
    <3> QED
      BY <3>1, <3>2, Zenon
  <2> QED
    BY <1>k, <2>1, <2>2, <2>3, Zenon
<1>q. ASSUME UNCHANGED <<pc, tok, lineage, aborted, killed>> PROVE AnsweredInv'
  BY <1>q, Zenon DEF AnsweredInv, Answering
<1>e. ASSUME NEW r \in Req, ~Answering(r), UNCHANGED <<lineage, aborted, killed>>,
             \A q \in Req : q # r => pc'[q] = pc[q] /\ tok'[q] = tok[q]
      PROVE  AnsweredInv'
  BY <1>e, <1>k, Zenon
<1>1. ASSUME NEW o \in Owner, NEW c \in Cred, Issue(o, c) PROVE AnsweredInv'
  <2>1. /\ status[c] = "none" /\ lineage' = [lineage EXCEPT ![c] = c]
        /\ UNCHANGED <<pc, tok, aborted, killed>>
    BY <1>1, Zenon DEF Issue, local, ghost
  <2>2. \A q \in Req : pc[q] # "idle" => lineage'[tok[q]] = lineage[tok[q]]
    BY <1>t, <2>1, Zenon
  <2> QED
    BY <2>1, <2>2, ZenonT(60) DEF AnsweredInv, Answering
<1>2. ASSUME NEW r \in Req, NEW c \in Cred, Begin(r, c) PROVE AnsweredInv'
  <2>1. /\ ~Answering(r) /\ UNCHANGED <<lineage, aborted, killed>>
        /\ \A q \in Req : q # r => pc'[q] = pc[q] /\ tok'[q] = tok[q]
    BY <1>t, <1>2, Zenon DEF Begin, Answering, Goto, tables, ghost
  <2> QED
    BY <2>1, <1>e, Zenon
<1>3. ASSUME NEW r \in Req, Step(r) \/ Rollback(r) \/ DeadlockVictim(r) PROVE AnsweredInv'
  <2>r. ASSUME Return(r) PROVE \A q \in Req : q # r => pc'[q] = pc[q] /\ tok'[q] = tok[q]
    BY <1>t, <2>r, Zenon DEF Return
  <2>1. CASE Lookup(r) \/ CheckOwner(r) \/ MarkRotated(r) \/ DenylistNext(r) \/ DenylistEnd(r)
    <3>1. ~Answering(r)
      BY <2>1, Zenon DEF Lookup, CheckOwner, MarkRotated, DenylistNext, DenylistEnd, Answering
    <3>2. UNCHANGED <<lineage, aborted, killed>>
      BY <2>1, Zenon DEF Lookup, CheckOwner, MarkRotated, DenylistNext, DenylistEnd, tables, ghost
    <3>3. \A q \in Req : q # r => pc'[q] = pc[q] /\ tok'[q] = tok[q]
      BY <1>t, <2>1, <2>r, ZenonT(60)
         DEF Lookup, CheckOwner, MarkRotated, DenylistNext, DenylistEnd, Goto, local
    <3> QED
      BY <3>1, <3>2, <3>3, <1>e, Zenon
  <2>2. CASE CommitExchange(r)
    <3>1. PICK c \in Cred : status[c] = "none" /\ lineage' = [lineage EXCEPT ![c] = lineage[tok[r]]]
      BY <2>2, Zenon DEF CommitExchange
    <3>2. \A q \in Req : pc[q] # "idle" => lineage'[tok[q]] = lineage[tok[q]]
      BY <1>t, <3>1, Zenon
    <3>3. ~Answering(r) /\ UNCHANGED <<aborted, killed>> /\ Return(r)
      BY <2>2, Zenon DEF CommitExchange, Answering, ghost
    <3> QED
      BY <2>r, <3>2, <3>3, <1>k, Zenon
  <2>3. CASE FindLineage(r) \/ RevokeRow(r) \/ ListByLineage(r)
    <3>1. UNCHANGED <<lineage, tok, aborted, killed>>
      BY <2>3, Zenon DEF FindLineage, RevokeRow, ListByLineage, tables, ghost
    <3>2. Answering(r)' /\ \A q \in Req : q # r => pc'[q] = pc[q]
      BY <1>t, <2>3, Zenon DEF FindLineage, RevokeRow, ListByLineage, Goto, Answering
    <3> QED
      BY <3>1, <3>2, <1>k, Zenon
  <2>4. CASE CommitRevocation(r)
    <3>1. UNCHANGED <<lineage, tok, aborted>> /\ killed' = killed \cup {lineage[tok[r]]}
      BY <2>4, Zenon DEF CommitRevocation
    <3>2. \A q \in Req : q # r => pc'[q] = pc[q]
      BY <1>t, <2>4, Zenon DEF CommitRevocation, Goto
    <3> QED
      BY <3>1, <3>2, <1>k, Zenon
  <2>5. CASE Rollback(r)
    <3>1. UNCHANGED <<lineage, killed>> /\ Return(r)
      BY <2>5, Zenon DEF Rollback, tables
    <3>2. aborted' \subseteq aborted /\ (Answering(r) => lineage[tok[r]] \notin aborted')
      BY <2>5, Zenon DEF Rollback
    <3> QED
      BY <3>1, <3>2, <2>r, <1>k, Zenon
  <2>6. CASE DeadlockVictim(r)
    <3>1. /\ UNCHANGED <<lineage, killed>> /\ Return(r)
          /\ aborted' = aborted \cup {lineage[tok[r]]}
      BY <2>6, Zenon DEF DeadlockVictim, tables
    <3>2. PICK q \in Req : q # r /\ Answering(q) /\ lineage[tok[q]] = lineage[tok[r]]
      BY <2>6, OthersGoOn, Zenon DEF DeadlockVictim
    <3>3. ASSUME NEW p \in Req, p # r, Answering(p) PROVE Answering(p)' /\ lineage'[tok'[p]] = lineage[tok[p]]
      BY <2>r, <3>1, <3>3, Zenon DEF Answering
    <3>4. ASSUME NEW l \in aborted, l \notin killed, l # lineage[tok[r]]
          PROVE  \E p \in Req : Answering(p)' /\ lineage'[tok'[p]] = l
      BY <3>3, <3>4, Zenon DEF AnsweredInv
    <3> QED
      BY <3>1, <3>2, <3>3, <3>4, Zenon DEF AnsweredInv
  <2> QED
    BY <1>3, <2>1, <2>2, <2>3, <2>4, <2>5, <2>6, Zenon DEF Step
<1>4. CASE UNCHANGED <<pc, local, tables, ghost>>
  BY <1>4, <1>q, Zenon DEF local, tables, ghost
<1> QED
  BY <1>1, <1>2, <1>3, <1>4, Zenon DEF Next, SetStanding, Tick, vars

\* For any number of requests and credentials and on either engine, only answers
\* to replays of one lineage wait in a cycle, and rolling one of them back does
\* not lose the revocation (DeadlockLosesNoRevocation).
THEOREM DeadlockIsHarmless == Spec => []DeadlockLosesNoRevocation
<1> DEFINE Inv == RowsOfLineage /\ WaitInv /\ AnsweredInv
<1>1. Init => Inv
  BY Zenon DEF Init, RowsOfLineage, WaitInv, AnsweredInv
<1>2. RotationInv /\ Inv /\ [Next]_vars => Inv'
  <2>1. RotationInv /\ Inv /\ [Next]_vars => RowsOfLineage'
    BY RowsOfLineageStep, Zenon
  <2>2. RotationInv /\ Inv /\ [Next]_vars => WaitInv'
    BY WaitStep, Zenon
  <2>3. RotationInv /\ Inv /\ [Next]_vars => AnsweredInv'
    BY AnsweredStep, Zenon
  <2> QED
    BY <2>1, <2>2, <2>3, Zenon
<1>3. RotationInv /\ Inv => DeadlockLosesNoRevocation
  BY OthersGoOn, Zenon DEF AnsweredInv, DeadlockLosesNoRevocation
<1> QED
  BY <1>1, <1>2, <1>3, RotationInit, RotationStep, PTL DEF Spec
================================================================================
