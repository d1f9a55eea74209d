---------------------------- MODULE AccessKeys_proofs ----------------------------
(***************************************************************************)
(* Theorems about AccessKeys for any number of keys, sets, calls and       *)
(* sweepers, any grace window and an unbounded clock, and about Enrollment *)
(* for any number of pairings, accounts, requests and lineages.            *)
(***************************************************************************)
EXTENDS MCAccessKeys, TLAPS

(***************************************************************************)
(* The inductive invariants.                                               *)
(***************************************************************************)
Rotating == {"rotate_mark", "rotate_commit"}
Emitting == {"rotate_emit_created", "rotate_emit_rotated"}

\* The part of the types the argument rests on.
Shape ==
  /\ now \in Nat
  /\ status \in [Key -> {"none", "active", "grace", "revoked"}]
  /\ grace \in [Key -> Nat]
  /\ replacedBy \in [Key -> Key \cup {NoKey}]
  /\ DOMAIN setOf = Key
  /\ promised \in [Key -> Nat]
  /\ pc \in [Req -> Location]
  /\ key \in [Req -> Key \cup {NoKey}]
  /\ new \in [Req -> Key \cup {NoKey}]
  /\ until \in [Req -> Nat]
  /\ \A r \in Req : pc[r] # "idle" => key[r] \in Key
  /\ \A r \in Req : new[r] # NoKey <=> pc[r] \in Rotating \cup Emitting
  /\ \A w \in Sweeper : batch[w] \subseteq Key
  /\ DOMAIN batch = Sweeper

\* An identifier drawn for a new key has no row yet, and no other call has drawn it.
DrawnOnce ==
  /\ \A r \in Req : pc[r] = "mint_create" => status[key[r]] = "none"
  /\ \A r \in Req : pc[r] \in Rotating => status[new[r]] = "none"
  /\ \A q, r \in Req : q # r /\ new[q] # NoKey => new[q] # new[r]
  /\ \A q, r \in Req : q # r /\ pc[q] = "mint_create" /\ pc[r] = "mint_create" => key[q] # key[r]
  /\ \A q, r \in Req : pc[q] = "mint_create" => new[r] # key[q]

\* A call on a key that exists finds its row.
RowsExist ==
  /\ \A r \in Req : pc[r] \notin {"idle", "mint_create"} => status[key[r]] # "none"
  /\ \A r \in Req : pc[r] \in Emitting => status[new[r]] # "none"
  /\ \A k \in Key : replacedBy[k] # NoKey => status[replacedBy[k]] # "none"
  /\ \A k \in handed : k \in Key /\ status[k] # "none"
  /\ \A w \in Sweeper : \A k \in batch[w] : status[k] # "none"

\* A replacement is known under the key it replaces only, and a minted key
\* replaces none.
ReplacesOne ==
  /\ \A r \in Req : pc[r] \in Emitting =>
       \A j \in Key : replacedBy[j] = new[r] => j = key[r]
  /\ \A r \in Req : pc[r] = "mint_emit" =>
       /\ \A j \in Key : replacedBy[j] # key[r]
       /\ \A q \in Req : new[q] # key[r]
  /\ \A r \in Req : pc[r] = "rotate_emit_rotated" => <<"created", new[r]>> \in trail

DrawInv == Shape /\ DrawnOnce /\ RowsExist

\* A key in its grace window has the deadline it was promised first, and only a
\* key that was superseded or revoked was promised one.
FirstDeadline ==
  \A k \in Key :
    /\ promised[k] # 0 => status[k] \in {"grace", "revoked"}
    /\ promised[k] # 0 /\ status[k] = "grace" => grace[k] \in {0, promised[k]}

\* With one write transaction at a time, what Rotate read is still so when it
\* marks the key and commits.
OneTransaction ==
  /\ \A q, r \in Req : pc[q] \in InTx /\ pc[r] \in InTx => q = r
  /\ \A r \in Req : pc[r] \in InTx \ {"rotate_get"} => status[key[r]] = "active"


\* Every statement keeps the types.
LEMMA ShapeStep ==
  ASSUME Shape, [Next]_vars
  PROVE Shape'
<1> USE KeysAssumption DEF Shape, Location, InTx, Rotating, Emitting,
        row, call, sweep
<1>1. ASSUME NEW r \in Req, NEW s \in KeySet, NEW k \in Key, Mint(r, s, k) PROVE Shape'
  BY <1>1, ZenonT(60) DEF Mint, Goto, Fresh
<1>2. ASSUME NEW r \in Req, NEW k \in Key, Rotate(r, k) PROVE Shape'
  BY <1>2 DEF Rotate, Goto, MayWrite
<1>3. ASSUME NEW r \in Req, NEW k \in Key, Revoke(r, k) PROVE Shape'
  BY <1>3, ZenonT(60) DEF Revoke, Goto
<1>4. ASSUME NEW r \in Req, MintCreate(r) PROVE Shape'
  BY <1>4, ZenonT(60) DEF MintCreate, Goto, MayWrite
<1>5. ASSUME NEW r \in Req, MintEmit(r) PROVE Shape'
  BY <1>5, ZenonT(60) DEF MintEmit, Return
<1>6. ASSUME NEW r \in Req, RotateGet(r) PROVE Shape'
  BY <1>6 DEF RotateGet, Goto, Return
<1>7. ASSUME NEW r \in Req, RotateKeySet(r) PROVE Shape'
  BY <1>7 DEF RotateKeySet, Goto, Return, Fresh
<1>8. ASSUME NEW r \in Req, MarkRotated(r) PROVE Shape'
  BY <1>8 DEF MarkRotated, Goto, Return
<1>9. ASSUME NEW r \in Req, RotateCommit(r) PROVE Shape'
  BY <1>9, ZenonT(60) DEF RotateCommit, Goto
<1>10. ASSUME NEW r \in Req, RotateEmitCreated(r) PROVE Shape'
  BY <1>10, ZenonT(60) DEF RotateEmitCreated, Goto
<1>11. ASSUME NEW r \in Req, RotateEmitRotated(r) PROVE Shape'
  BY <1>11, ZenonT(60) DEF RotateEmitRotated, Return
<1>12. ASSUME NEW r \in Req, RevokeWrite(r) PROVE Shape'
  BY <1>12, ZenonT(60) DEF RevokeWrite, Goto, RevokeRow, MayWrite
<1>13. ASSUME NEW r \in Req, RevokeEmit(r) PROVE Shape'
  BY <1>13, ZenonT(60) DEF RevokeEmit, Return
<1>14. ASSUME NEW r \in Req, Abandon(r) PROVE Shape'
  BY <1>14, ZenonT(60) DEF Abandon, Return
<1>15. ASSUME NEW w \in Sweeper, ListExpiredGrace(w) PROVE Shape'
  BY <1>15 DEF ListExpiredGrace, ExpiredGrace
<1>16. ASSUME NEW w \in Sweeper, SweepRetire(w) PROVE Shape'
  BY <1>16 DEF SweepRetire, RevokeRow, MayWrite
<1>17. ASSUME NEW w \in Sweeper, SweepEmit(w) PROVE Shape'
  BY <1>17, Zenon DEF SweepEmit
<1>18. ASSUME NEW w \in Sweeper, SweepAbandon(w) PROVE Shape'
  BY <1>18, Zenon DEF SweepAbandon
<1>19. ASSUME NEW s \in inService, SetLeavesService(s) PROVE Shape'
  BY <1>19, ZenonT(60) DEF SetLeavesService
<1>20. ASSUME Tick PROVE Shape'
  BY <1>20 DEF Tick
<1>21. CASE UNCHANGED vars
  BY <1>21, Zenon DEF vars
<1>22. QED
  BY <1>1, <1>2, <1>3, <1>4, <1>5, <1>6, <1>7, <1>8, <1>9, <1>10, <1>11,
     <1>12, <1>13, <1>14, <1>15, <1>16, <1>17, <1>18, <1>19, <1>20, <1>21, ZenonT(60)
  DEF Next, CallStep

\* Identifiers are drawn once, and rows never go away.
LEMMA DrawStep ==
  ASSUME DrawInv, [Next]_vars
  PROVE (DrawnOnce /\ RowsExist)'
<1> USE KeysAssumption DEF DrawInv, Shape, Location, InTx, Rotating, Emitting, DrawnOnce, RowsExist,
        row, call, sweep
<1>1. ASSUME NEW r \in Req, NEW s \in KeySet, NEW k \in Key, Mint(r, s, k) PROVE (DrawnOnce /\ RowsExist)'
  BY SMTT(30), <1>1 DEF Mint, Goto, Fresh
<1>2. ASSUME NEW r \in Req, NEW k \in Key, Rotate(r, k) PROVE (DrawnOnce /\ RowsExist)'
  BY SMTT(30), <1>2 DEF Rotate, Goto, MayWrite
<1>3. ASSUME NEW r \in Req, NEW k \in Key, Revoke(r, k) PROVE (DrawnOnce /\ RowsExist)'
  BY <1>3 DEF Revoke, Goto
<1>4. ASSUME NEW r \in Req, MintCreate(r) PROVE (DrawnOnce /\ RowsExist)'
  BY <1>4 DEF MintCreate, Goto, MayWrite
<1>5. ASSUME NEW r \in Req, MintEmit(r) PROVE (DrawnOnce /\ RowsExist)'
  BY <1>5 DEF MintEmit, Return
<1>6. ASSUME NEW r \in Req, RotateGet(r) PROVE (DrawnOnce /\ RowsExist)'
  BY SMTT(20), <1>6 DEF RotateGet, Goto, Return
<1>7. ASSUME NEW r \in Req, RotateKeySet(r) PROVE (DrawnOnce /\ RowsExist)'
  <2>1. CASE setOf[key[r]] \notin inService
    BY SMTT(20), <1>7, <2>1 DEF RotateKeySet, Return
  <2>2. CASE setOf[key[r]] \in inService
    BY SMTT(20), <1>7, <2>2 DEF RotateKeySet, Goto, Fresh
  <2> QED
    BY <2>1, <2>2, Zenon
<1>8. ASSUME NEW r \in Req, MarkRotated(r) PROVE (DrawnOnce /\ RowsExist)'
  <2>1. CASE Return(r)
    BY SMTT(30), <1>8, <2>1 DEF MarkRotated, Return
  <2>2. CASE Goto(r, "rotate_commit") /\ UNCHANGED <<key, new, until>>
    BY <1>8, <2>2 DEF MarkRotated, Goto
  <2> QED
    BY <1>8, <2>1, <2>2, Zenon DEF MarkRotated
<1>9. ASSUME NEW r \in Req, RotateCommit(r) PROVE (DrawnOnce /\ RowsExist)'
  BY SMTT(30), <1>9 DEF RotateCommit, Goto
<1>10. ASSUME NEW r \in Req, RotateEmitCreated(r) PROVE (DrawnOnce /\ RowsExist)'
  BY SMTT(30), <1>10 DEF RotateEmitCreated, Goto
<1>11. ASSUME NEW r \in Req, RotateEmitRotated(r) PROVE (DrawnOnce /\ RowsExist)'
  BY SMTT(30), <1>11 DEF RotateEmitRotated, Return
<1>12. ASSUME NEW r \in Req, RevokeWrite(r) PROVE (DrawnOnce /\ RowsExist)'
  BY SMTT(30), <1>12 DEF RevokeWrite, Goto, RevokeRow, MayWrite
<1>13. ASSUME NEW r \in Req, RevokeEmit(r) PROVE (DrawnOnce /\ RowsExist)'
  BY SMTT(30), <1>13 DEF RevokeEmit, Return
<1>14. ASSUME NEW r \in Req, Abandon(r) PROVE (DrawnOnce /\ RowsExist)'
  BY SMTT(30), <1>14 DEF Abandon, Return
<1>15. ASSUME NEW w \in Sweeper, ListExpiredGrace(w) PROVE (DrawnOnce /\ RowsExist)'
  BY SMTT(30), <1>15 DEF ListExpiredGrace, ExpiredGrace
<1>16. ASSUME NEW w \in Sweeper, SweepRetire(w) PROVE (DrawnOnce /\ RowsExist)'
  BY SMTT(30), <1>16 DEF SweepRetire, RevokeRow, MayWrite
<1>17. ASSUME NEW w \in Sweeper, SweepEmit(w) PROVE (DrawnOnce /\ RowsExist)'
  BY SMTT(30), <1>17 DEF SweepEmit
<1>18. ASSUME NEW w \in Sweeper, SweepAbandon(w) PROVE (DrawnOnce /\ RowsExist)'
  BY <1>18 DEF SweepAbandon
<1>19. ASSUME NEW s \in inService, SetLeavesService(s) PROVE (DrawnOnce /\ RowsExist)'
  BY SMTT(30), <1>19 DEF SetLeavesService
<1>20. ASSUME Tick PROVE (DrawnOnce /\ RowsExist)'
  BY SMTT(30), <1>20 DEF Tick
<1>21. CASE UNCHANGED vars
  BY <1>21 DEF vars
<1>22. QED
  BY <1>1, <1>2, <1>3, <1>4, <1>5, <1>6, <1>7, <1>8, <1>9, <1>10, <1>11,
     <1>12, <1>13, <1>14, <1>15, <1>16, <1>17, <1>18, <1>19, <1>20, <1>21, ZenonT(60)
  DEF Next, CallStep

\* Revoking a key takes its replacement off its row and touches nothing else
\* these two facts are about.
LEMMA Unreplaced ==
  ASSUME Shape, RowsExist, ReplacesOne, HandedIsRecorded, NEW k \in Key,
         replacedBy' = [replacedBy EXCEPT ![k] = NoKey], UNCHANGED <<pc, key, new, trail, handed>>
  PROVE  (ReplacesOne /\ HandedIsRecorded)'
<1>1. NoKey \notin Key
  BY KeysAssumption, Zenon
<1>2. \A j, x \in Key : replacedBy'[j] = x => replacedBy[j] = x
  BY <1>1, Zenon DEF Shape
<1>3. \A r \in Req :
        /\ pc[r] \in Emitting => new[r] \in Key
        /\ pc[r] = "mint_emit" => key[r] \in Key
  BY Zenon DEF Shape
<1>4. \A h \in handed : h \in Key
  BY Zenon DEF RowsExist
<1>5. ReplacesOne'
  <2>1. ASSUME NEW r \in Req, pc[r] \in Emitting, NEW j \in Key, replacedBy'[j] = new[r] PROVE j = key[r]
    <3>1. new[r] \in Key
      BY <1>3, <2>1, Zenon
    <3>2. replacedBy[j] = new[r]
      BY <1>2, <2>1, <3>1, Zenon
    <3> QED
      BY <2>1, <3>2, Zenon DEF ReplacesOne
  <2>2. ASSUME NEW r \in Req, pc[r] = "mint_emit", NEW j \in Key PROVE replacedBy'[j] # key[r]
    <3>1. key[r] \in Key
      BY <1>3, <2>2, Zenon
    <3>2. replacedBy[j] # key[r]
      BY <2>2, Zenon DEF ReplacesOne
    <3> QED
      BY <1>2, <3>1, <3>2, Zenon
  <2>3. ASSUME NEW r \in Req, pc[r] = "mint_emit", NEW q \in Req PROVE new[q] # key[r]
    BY <2>3, Zenon DEF ReplacesOne
  <2>4. ASSUME NEW r \in Req, pc[r] = "rotate_emit_rotated" PROVE <<"created", new[r]>> \in trail
    BY <2>4, Zenon DEF ReplacesOne
  <2>5. pc' = pc /\ key' = key /\ new' = new /\ trail' = trail
    BY Zenon
  <2> QED
    BY <2>1, <2>2, <2>3, <2>4, <2>5, ZenonT(60) DEF ReplacesOne
<1>6. HandedIsRecorded'
  BY <1>2, <1>4, Zenon DEF HandedIsRecorded
<1> QED
  BY <1>5, <1>6, Zenon

\* A call that takes up a key, draws a fresh one or returns, and hands out
\* nothing, leaves what the records say of the handed keys.
LEMMA QuietCall ==
  ASSUME Shape, RowsExist, ReplacesOne, HandedIsRecorded, NEW r \in Req,
         \A q \in Req \ {r} : pc'[q] = pc[q] /\ key'[q] = key[q] /\ new'[q] = new[q],
         pc'[r] \notin Emitting \cup {"mint_emit"},
         new'[r] \in {new[r], NoKey} \/ status[new'[r]] = "none",
         \A j, x \in Key : replacedBy'[j] = x => replacedBy[j] = x,
         trail \subseteq trail', UNCHANGED handed
  PROVE  (ReplacesOne /\ HandedIsRecorded)'
<1>1. NoKey \notin Key
  BY KeysAssumption, Zenon
<1>2. \A q \in Req :
        /\ pc[q] \in Emitting => new[q] \in Key
        /\ pc[q] = "mint_emit" => key[q] \in Key /\ status[key[q]] # "none"
  <2>1. ASSUME NEW q \in Req, pc[q] \in Emitting PROVE new[q] \in Key
    <3>1. new[q] \in Key \cup {NoKey} /\ new[q] # NoKey
      BY <2>1, Zenon DEF Shape
    <3> QED
      BY <3>1, Zenon
  <2>2. \A q \in Req : pc[q] = "mint_emit" => key[q] \in Key
    BY Zenon DEF Shape
  <2>3. \A q \in Req : pc[q] = "mint_emit" => status[key[q]] # "none"
    BY Zenon DEF RowsExist
  <2> QED
    BY <2>1, <2>2, <2>3, Zenon
<1>3. ASSUME NEW q \in Req, pc'[q] \in Emitting, NEW j \in Key, replacedBy'[j] = new'[q]
      PROVE  j = key'[q]
  <2>1. q # r /\ pc[q] \in Emitting /\ new'[q] = new[q] /\ key'[q] = key[q]
    BY <1>3, Zenon
  <2>2. replacedBy[j] = new[q]
    BY <1>2, <1>3, <2>1, Zenon
  <2> QED
    BY <2>1, <2>2, Zenon DEF ReplacesOne
<1>4. ASSUME NEW q \in Req, pc'[q] = "mint_emit"
      PROVE  q # r /\ pc[q] = "mint_emit" /\ key'[q] = key[q] /\ key[q] \in Key /\ status[key[q]] # "none"
  BY <1>2, <1>4, Zenon
<1>5. ASSUME NEW q \in Req, pc'[q] = "mint_emit", NEW j \in Key PROVE replacedBy'[j] # key'[q]
  <2>1. pc[q] = "mint_emit" /\ key'[q] = key[q] /\ key[q] \in Key
    BY <1>4, <1>5, Zenon
  <2>2. replacedBy[j] # key[q]
    BY <2>1, Zenon DEF ReplacesOne
  <2> QED
    BY <2>1, <2>2, Zenon
<1>6. ASSUME NEW q \in Req, pc'[q] = "mint_emit", NEW s \in Req PROVE new'[s] # key'[q]
  <2>1. pc[q] = "mint_emit" /\ key'[q] = key[q] /\ key[q] \in Key /\ status[key[q]] # "none"
    BY <1>4, <1>6, Zenon
  <2>2. new[s] # key[q]
    BY <2>1, ZenonT(60) DEF ReplacesOne
  <2>3. CASE s = r
    BY <1>1, <2>1, <2>2, <2>3, Zenon
  <2>4. CASE s # r
    BY <2>1, <2>2, <2>4, Zenon
  <2> QED
    BY <2>3, <2>4, Zenon
<1>7. ASSUME NEW q \in Req, pc'[q] = "rotate_emit_rotated" PROVE <<"created", new'[q]>> \in trail'
  <2>1. pc[q] = "rotate_emit_rotated" /\ new'[q] = new[q]
    BY <1>7, Zenon DEF Emitting
  <2> QED
    BY <2>1, Zenon DEF ReplacesOne
<1>8. ReplacesOne'
  BY <1>3, <1>5, <1>6, <1>7, Zenon DEF ReplacesOne, Emitting
<1>9. HandedIsRecorded'
  <2>1. \A h \in handed : h \in Key
    BY Zenon DEF RowsExist
  <2> QED
    BY <2>1, ZenonT(60) DEF HandedIsRecorded
<1> QED
  BY <1>8, <1>9, Zenon

\* Those calls: every statement but the one that shows a minted key, the commit of
\* a rotation and the ones that write the records of a new key.
LEMMA QuietCalls ==
  ASSUME DrawInv, ReplacesOne, HandedIsRecorded, NEW r \in Req,
         \/ \E s \in KeySet, k \in Key : Mint(r, s, k)
         \/ \E k \in Key : Rotate(r, k)
         \/ \E k \in Key : Revoke(r, k)
         \/ RotateGet(r)
         \/ RotateKeySet(r)
         \/ MarkRotated(r)
         \/ RevokeWrite(r)
         \/ RevokeEmit(r)
         \/ Abandon(r)
  PROVE  (ReplacesOne /\ HandedIsRecorded)'
<1>1. /\ DOMAIN pc = Req /\ DOMAIN key = Req /\ DOMAIN new = Req /\ DOMAIN replacedBy = Key
      /\ Shape /\ RowsExist /\ NoKey \notin Key
  BY KeysAssumption, Zenon DEF DrawInv, Shape
<1> DEFINE Kept == /\ \A q \in Req \ {r} : pc'[q] = pc[q] /\ key'[q] = key[q] /\ new'[q] = new[q]
                   /\ pc'[r] \notin Emitting \cup {"mint_emit"}
                   /\ new'[r] \in {new[r], NoKey} \/ status[new'[r]] = "none"
                   /\ trail \subseteq trail' /\ UNCHANGED handed
           Fewer == \A j, x \in Key : replacedBy'[j] = x => replacedBy[j] = x
<1>2. CASE \E s \in KeySet, k \in Key : Mint(r, s, k)
  <2>1. Kept
    BY <1>1, <1>2, ZenonT(60) DEF Mint, Goto, Emitting
  <2>2. Fewer
    BY <1>2, Zenon DEF Mint, row
  <2> QED
    BY <1>1, <2>1, <2>2, QuietCall, Zenon
<1>3. CASE \E k \in Key : Rotate(r, k)
  <2>1. Kept
    BY <1>1, <1>3, Zenon DEF Rotate, Goto, Emitting
  <2>2. Fewer
    BY <1>3, Zenon DEF Rotate, row
  <2> QED
    BY <1>1, <2>1, <2>2, QuietCall, Zenon
<1>4. CASE \E k \in Key : Revoke(r, k)
  <2>1. Kept
    BY <1>1, <1>4, Zenon DEF Revoke, Goto, Emitting
  <2>2. Fewer
    BY <1>4, Zenon DEF Revoke, row
  <2> QED
    BY <1>1, <2>1, <2>2, QuietCall, Zenon
<1>5. CASE RotateGet(r)
  <2>1. Kept
    BY <1>1, <1>5, Zenon DEF RotateGet, Goto, Return, Emitting
  <2>2. Fewer
    BY <1>5, Zenon DEF RotateGet, row
  <2> QED
    BY <1>1, <2>1, <2>2, QuietCall, Zenon
<1>6. CASE RotateKeySet(r)
  <2>1. Kept
    BY <1>1, <1>6, ZenonT(60) DEF RotateKeySet, Goto, Return, Fresh, Emitting
  <2>2. Fewer
    BY <1>6, Zenon DEF RotateKeySet, row
  <2> QED
    BY <1>1, <2>1, <2>2, QuietCall, Zenon
<1>7. CASE MarkRotated(r)
  <2>1. Kept
    BY <1>1, <1>7, ZenonT(60) DEF MarkRotated, Goto, Return, Emitting
  <2>2. Fewer
    BY <1>7, Zenon DEF MarkRotated, row
  <2> QED
    BY <1>1, <2>1, <2>2, QuietCall, Zenon
<1>8. CASE RevokeWrite(r)
  <2>1. Kept
    BY <1>1, <1>8, Zenon DEF RevokeWrite, Goto, Emitting
  <2>2. Fewer
    BY <1>1, <1>8, Zenon DEF RevokeWrite, RevokeRow
  <2> QED
    BY <1>1, <2>1, <2>2, QuietCall, Zenon
<1>9. CASE RevokeEmit(r)
  <2>1. Kept
    BY <1>1, <1>9, Zenon DEF RevokeEmit, Return, Emitting
  <2>2. Fewer
    BY <1>9, Zenon DEF RevokeEmit, row
  <2> QED
    BY <1>1, <2>1, <2>2, QuietCall, Zenon
<1>10. CASE Abandon(r)
  <2>1. Kept
    BY <1>1, <1>10, Zenon DEF Abandon, Return, Emitting
  <2>2. Fewer
    BY <1>10, Zenon DEF Abandon, row
  <2> QED
    BY <1>1, <2>1, <2>2, QuietCall, Zenon
<1> QED
  BY <1>2, <1>3, <1>4, <1>5, <1>6, <1>7, <1>8, <1>9, <1>10, Zenon

\* The records of a new key are written before its token is handed out.
LEMMA RecordedStep ==
  ASSUME DrawInv, ReplacesOne, HandedIsRecorded, [Next]_vars
  PROVE (ReplacesOne /\ HandedIsRecorded)'
<1> USE KeysAssumption DEF DrawInv, Shape, Location, InTx, Rotating, Emitting, DrawnOnce, RowsExist, ReplacesOne,
        HandedIsRecorded,
        row, call, sweep
<1>1. ASSUME NEW r \in Req, NEW s \in KeySet, NEW k \in Key, Mint(r, s, k) PROVE (ReplacesOne /\ HandedIsRecorded)'
  BY <1>1, QuietCalls, Zenon
<1>2. ASSUME NEW r \in Req, NEW k \in Key, Rotate(r, k) PROVE (ReplacesOne /\ HandedIsRecorded)'
  BY <1>2, QuietCalls, Zenon
<1>3. ASSUME NEW r \in Req, NEW k \in Key, Revoke(r, k) PROVE (ReplacesOne /\ HandedIsRecorded)'
  BY <1>3, QuietCalls, ZenonT(60)
<1>4. ASSUME NEW r \in Req, MintCreate(r) PROVE (ReplacesOne /\ HandedIsRecorded)'
  BY SMTT(30), <1>4 DEF MintCreate, Goto, MayWrite
<1>5. ASSUME NEW r \in Req, MintEmit(r) PROVE (ReplacesOne /\ HandedIsRecorded)'
  BY <1>5 DEF MintEmit, Return
<1>6. ASSUME NEW r \in Req, RotateGet(r) PROVE (ReplacesOne /\ HandedIsRecorded)'
  BY <1>6, QuietCalls, Zenon
<1>7. ASSUME NEW r \in Req, RotateKeySet(r) PROVE (ReplacesOne /\ HandedIsRecorded)'
  BY <1>7, QuietCalls, Zenon
<1>8. ASSUME NEW r \in Req, MarkRotated(r) PROVE (ReplacesOne /\ HandedIsRecorded)'
  BY <1>8, QuietCalls, ZenonT(60)
<1>9. ASSUME NEW r \in Req, RotateCommit(r) PROVE (ReplacesOne /\ HandedIsRecorded)'
  BY SMTT(30), <1>9 DEF RotateCommit, Goto
<1>10. ASSUME NEW r \in Req, RotateEmitCreated(r) PROVE (ReplacesOne /\ HandedIsRecorded)'
  BY SMTT(30), <1>10 DEF RotateEmitCreated, Goto
<1>11. ASSUME NEW r \in Req, RotateEmitRotated(r) PROVE (ReplacesOne /\ HandedIsRecorded)'
  BY <1>11 DEF RotateEmitRotated, Return
<1>12. ASSUME NEW r \in Req, RevokeWrite(r) PROVE (ReplacesOne /\ HandedIsRecorded)'
  BY <1>12, QuietCalls, Zenon
<1>13. ASSUME NEW r \in Req, RevokeEmit(r) PROVE (ReplacesOne /\ HandedIsRecorded)'
  BY <1>13, QuietCalls, Zenon
<1>14. ASSUME NEW r \in Req, Abandon(r) PROVE (ReplacesOne /\ HandedIsRecorded)'
  BY <1>14, QuietCalls, ZenonT(60)
<1>15. ASSUME NEW w \in Sweeper, ListExpiredGrace(w) PROVE (ReplacesOne /\ HandedIsRecorded)'
  BY <1>15 DEF ListExpiredGrace, ExpiredGrace
<1>16. ASSUME NEW w \in Sweeper, SweepRetire(w) PROVE (ReplacesOne /\ HandedIsRecorded)'
  <2>1. PICK k \in batch[w] : replacedBy' = [replacedBy EXCEPT ![k] = NoKey]
    BY <1>16, Zenon DEF SweepRetire, RevokeRow
  <2>2. UNCHANGED <<call, trail, handed>>
    BY <1>16, ZenonT(60) DEF SweepRetire
  <2> QED
    BY <2>1, <2>2, Unreplaced, Zenon
<1>17. ASSUME NEW w \in Sweeper, SweepEmit(w) PROVE (ReplacesOne /\ HandedIsRecorded)'
  BY <1>17 DEF SweepEmit
<1>18. ASSUME NEW w \in Sweeper, SweepAbandon(w) PROVE (ReplacesOne /\ HandedIsRecorded)'
  BY <1>18, ZenonT(60) DEF SweepAbandon
<1>19. ASSUME NEW s \in inService, SetLeavesService(s) PROVE (ReplacesOne /\ HandedIsRecorded)'
  BY <1>19, ZenonT(60) DEF SetLeavesService
<1>20. ASSUME Tick PROVE (ReplacesOne /\ HandedIsRecorded)'
  BY <1>20, Zenon DEF Tick
<1>21. CASE UNCHANGED vars
  BY <1>21, ZenonT(60) DEF vars
<1>22. QED
  BY <1>1, <1>2, <1>3, <1>4, <1>5, <1>6, <1>7, <1>8, <1>9, <1>10, <1>11,
     <1>12, <1>13, <1>14, <1>15, <1>16, <1>17, <1>18, <1>19, <1>20, <1>21, ZenonT(60)
  DEF Next, CallStep

\* A step that leaves the rows alone and its call outside a transaction.
LEMMA OutsideTransaction ==
  ASSUME Shape, FirstDeadline, OneTransaction, NEW r \in Req,
         \A q \in Req \ {r} : pc'[q] = pc[q] /\ key'[q] = key[q],
         pc'[r] \notin InTx, UNCHANGED <<status, grace, promised>>
  PROVE  (FirstDeadline /\ OneTransaction)'
<1>1. FirstDeadline'
  BY Zenon DEF FirstDeadline
<1>2. \A q \in Req : pc'[q] \in InTx => q # r /\ pc'[q] = pc[q] /\ key'[q] = key[q]
  BY Zenon
<1>3. OneTransaction'
  BY <1>2, Zenon DEF OneTransaction
<1> QED
  BY <1>1, <1>3, Zenon

\* Those steps, and the one that revokes a key of a sweep's page.
LEMMA StepsOutside ==
  ASSUME Shape, FirstDeadline, OneTransaction,
         \/ \E r \in Req :
              \/ \E s \in KeySet, k \in Key : Mint(r, s, k)
              \/ \E k \in Key : Revoke(r, k)
              \/ MintEmit(r)
              \/ RotateEmitCreated(r)
              \/ RotateEmitRotated(r)
              \/ RevokeEmit(r)
              \/ Abandon(r)
         \/ Serialized /\ \E w \in Sweeper : SweepRetire(w)
  PROVE  (FirstDeadline /\ OneTransaction)'
<1>1. DOMAIN pc = Req /\ DOMAIN key = Req /\ DOMAIN status = Key /\ DOMAIN grace = Key
  BY Zenon DEF Shape
<1>2. ASSUME NEW r \in Req, \E s \in KeySet, k \in Key : Mint(r, s, k) PROVE (FirstDeadline /\ OneTransaction)'
  <2>1. /\ \A q \in Req \ {r} : pc'[q] = pc[q] /\ key'[q] = key[q]
        /\ pc'[r] \notin InTx
    BY <1>1, <1>2, Zenon DEF Mint, Goto, InTx
  <2>2. UNCHANGED <<status, grace, promised>>
    BY <1>2, Zenon DEF Mint, row
  <2> QED
    BY <2>1, <2>2, OutsideTransaction, Zenon
<1>3. ASSUME NEW r \in Req, \E k \in Key : Revoke(r, k) PROVE (FirstDeadline /\ OneTransaction)'
  <2>1. /\ \A q \in Req \ {r} : pc'[q] = pc[q] /\ key'[q] = key[q]
        /\ pc'[r] \notin InTx
    BY <1>1, <1>3, Zenon DEF Revoke, Goto, InTx
  <2>2. UNCHANGED <<status, grace, promised>>
    BY <1>3, Zenon DEF Revoke, row
  <2> QED
    BY <2>1, <2>2, OutsideTransaction, Zenon
<1>4. ASSUME NEW r \in Req, MintEmit(r) PROVE (FirstDeadline /\ OneTransaction)'
  <2>1. /\ \A q \in Req \ {r} : pc'[q] = pc[q] /\ key'[q] = key[q]
        /\ pc'[r] \notin InTx
    BY <1>1, <1>4, Zenon DEF MintEmit, Return, InTx
  <2>2. UNCHANGED <<status, grace, promised>>
    BY <1>4, Zenon DEF MintEmit, row
  <2> QED
    BY <2>1, <2>2, OutsideTransaction, Zenon
<1>5. ASSUME NEW r \in Req, RotateEmitCreated(r) PROVE (FirstDeadline /\ OneTransaction)'
  <2>1. /\ \A q \in Req \ {r} : pc'[q] = pc[q] /\ key'[q] = key[q]
        /\ pc'[r] \notin InTx
    BY <1>1, <1>5, Zenon DEF RotateEmitCreated, Goto, InTx
  <2>2. UNCHANGED <<status, grace, promised>>
    BY <1>5, Zenon DEF RotateEmitCreated, row
  <2> QED
    BY <2>1, <2>2, OutsideTransaction, Zenon
<1>6. ASSUME NEW r \in Req, RotateEmitRotated(r) PROVE (FirstDeadline /\ OneTransaction)'
  <2>1. /\ \A q \in Req \ {r} : pc'[q] = pc[q] /\ key'[q] = key[q]
        /\ pc'[r] \notin InTx
    BY <1>1, <1>6, Zenon DEF RotateEmitRotated, Return, InTx
  <2>2. UNCHANGED <<status, grace, promised>>
    BY <1>6, Zenon DEF RotateEmitRotated, row
  <2> QED
    BY <2>1, <2>2, OutsideTransaction, Zenon
<1>7. ASSUME NEW r \in Req, RevokeEmit(r) PROVE (FirstDeadline /\ OneTransaction)'
  <2>1. /\ \A q \in Req \ {r} : pc'[q] = pc[q] /\ key'[q] = key[q]
        /\ pc'[r] \notin InTx
    BY <1>1, <1>7, Zenon DEF RevokeEmit, Return, InTx
  <2>2. UNCHANGED <<status, grace, promised>>
    BY <1>7, Zenon DEF RevokeEmit, row
  <2> QED
    BY <2>1, <2>2, OutsideTransaction, Zenon
<1>8. ASSUME NEW r \in Req, Abandon(r) PROVE (FirstDeadline /\ OneTransaction)'
  <2>1. /\ \A q \in Req \ {r} : pc'[q] = pc[q] /\ key'[q] = key[q]
        /\ pc'[r] \notin InTx
    BY <1>1, <1>8, Zenon DEF Abandon, Return, InTx
  <2>2. UNCHANGED <<status, grace, promised>>
    BY <1>8, Zenon DEF Abandon, row
  <2> QED
    BY <2>1, <2>2, OutsideTransaction, Zenon
<1>9. ASSUME NEW w \in Sweeper, Serialized, SweepRetire(w) PROVE (FirstDeadline /\ OneTransaction)'
  <2>1. PICK k \in batch[w] : RevokeRow(k, at[w])
    BY <1>9, Zenon DEF SweepRetire
  <2>2. /\ status' = [status EXCEPT ![k] = "revoked"] /\ grace' = [grace EXCEPT ![k] = 0]
        /\ \A r \in Req : pc[r] \notin InTx
    BY <1>9, <2>1, Zenon DEF RevokeRow, MayWrite
  <2>3. UNCHANGED <<pc, key, promised>>
    BY <1>9, Zenon DEF SweepRetire, call
  <2>4. FirstDeadline'
    BY <1>1, <2>2, <2>3, Zenon DEF FirstDeadline
  <2>5. OneTransaction'
    BY <2>2, <2>3, Zenon DEF OneTransaction
  <2> QED
    BY <2>4, <2>5, Zenon
<1> QED
  BY <1>2, <1>3, <1>4, <1>5, <1>6, <1>7, <1>8, <1>9, Zenon

\* No write comes between the steps of a transaction.
LEMMA DeadlineStep ==
  ASSUME Serialized, DrawInv, FirstDeadline, OneTransaction, [Next]_vars
  PROVE (FirstDeadline /\ OneTransaction)'
<1> USE KeysAssumption DEF DrawInv, Shape, Location, InTx, Rotating, Emitting, DrawnOnce, RowsExist, FirstDeadline,
        OneTransaction,
        row, call, sweep
<1>1. ASSUME NEW r \in Req, NEW s \in KeySet, NEW k \in Key, Mint(r, s, k) PROVE (FirstDeadline /\ OneTransaction)'
  BY <1>1, StepsOutside, ZenonT(60)
<1>2. ASSUME NEW r \in Req, NEW k \in Key, Rotate(r, k) PROVE (FirstDeadline /\ OneTransaction)'
  BY <1>2 DEF Rotate, Goto, MayWrite
<1>3. ASSUME NEW r \in Req, NEW k \in Key, Revoke(r, k) PROVE (FirstDeadline /\ OneTransaction)'
  BY <1>3, StepsOutside, ZenonT(60)
<1>4. ASSUME NEW r \in Req, MintCreate(r) PROVE (FirstDeadline /\ OneTransaction)'
  BY <1>4 DEF MintCreate, Goto, MayWrite
<1>5. ASSUME NEW r \in Req, MintEmit(r) PROVE (FirstDeadline /\ OneTransaction)'
  BY <1>5, StepsOutside, ZenonT(60)
<1>6. ASSUME NEW r \in Req, RotateGet(r) PROVE (FirstDeadline /\ OneTransaction)'
  BY SMTT(30), <1>6 DEF RotateGet, Goto, Return
<1>7. ASSUME NEW r \in Req, RotateKeySet(r) PROVE (FirstDeadline /\ OneTransaction)'
  BY SMTT(30), <1>7 DEF RotateKeySet, Goto, Return, Fresh
<1>8. ASSUME NEW r \in Req, MarkRotated(r) PROVE (FirstDeadline /\ OneTransaction)'
  BY SMTT(30), <1>8 DEF MarkRotated, Goto, Return
<1>9. ASSUME NEW r \in Req, RotateCommit(r) PROVE (FirstDeadline /\ OneTransaction)'
  BY SMTT(30), <1>9 DEF RotateCommit, Goto
<1>10. ASSUME NEW r \in Req, RotateEmitCreated(r) PROVE (FirstDeadline /\ OneTransaction)'
  BY <1>10, StepsOutside, Zenon
<1>11. ASSUME NEW r \in Req, RotateEmitRotated(r) PROVE (FirstDeadline /\ OneTransaction)'
  BY <1>11, StepsOutside, ZenonT(60)
<1>12. ASSUME NEW r \in Req, RevokeWrite(r) PROVE (FirstDeadline /\ OneTransaction)'
  BY <1>12 DEF RevokeWrite, Goto, RevokeRow, MayWrite
<1>13. ASSUME NEW r \in Req, RevokeEmit(r) PROVE (FirstDeadline /\ OneTransaction)'
  BY <1>13, StepsOutside, Zenon
<1>14. ASSUME NEW r \in Req, Abandon(r) PROVE (FirstDeadline /\ OneTransaction)'
  BY <1>14, StepsOutside, Zenon
<1>15. ASSUME NEW w \in Sweeper, ListExpiredGrace(w) PROVE (FirstDeadline /\ OneTransaction)'
  BY <1>15, Zenon DEF ListExpiredGrace, ExpiredGrace
<1>16. ASSUME NEW w \in Sweeper, SweepRetire(w) PROVE (FirstDeadline /\ OneTransaction)'
  BY <1>16, StepsOutside, Zenon
<1>17. ASSUME NEW w \in Sweeper, SweepEmit(w) PROVE (FirstDeadline /\ OneTransaction)'
  BY <1>17, Zenon DEF SweepEmit
<1>18. ASSUME NEW w \in Sweeper, SweepAbandon(w) PROVE (FirstDeadline /\ OneTransaction)'
  BY <1>18, Zenon DEF SweepAbandon
<1>19. ASSUME NEW s \in inService, SetLeavesService(s) PROVE (FirstDeadline /\ OneTransaction)'
  BY <1>19, Zenon DEF SetLeavesService
<1>20. ASSUME Tick PROVE (FirstDeadline /\ OneTransaction)'
  BY <1>20, Zenon DEF Tick
<1>21. CASE UNCHANGED vars
  BY <1>21, ZenonT(60) DEF vars
<1>22. QED
  BY <1>1, <1>2, <1>3, <1>4, <1>5, <1>6, <1>7, <1>8, <1>9, <1>10, <1>11,
     <1>12, <1>13, <1>14, <1>15, <1>16, <1>17, <1>18, <1>19, <1>20, <1>21, ZenonT(60)
  DEF Next, CallStep

(***************************************************************************)
(* The theorems.                                                           *)
(***************************************************************************)
\* There is no key and no call.
LEMMA KeysInit ==
  Init => DrawInv /\ ReplacesOne /\ HandedIsRecorded /\ FirstDeadline /\ OneTransaction
BY KeysAssumption
DEF Init, DrawInv, Shape, Location, InTx, Rotating, Emitting, DrawnOnce, RowsExist, ReplacesOne,
    HandedIsRecorded, FirstDeadline, OneTransaction

\* On either engine, whatever calls fail or interleave, a token reaches the owner
\* only after its creation and the rotation that replaced its predecessor were
\* recorded (Mint and Rotate emit before they return it).
THEOREM TokensAreRecorded == Spec => []HandedIsRecorded
<1>1. DrawInv /\ [Next]_vars => DrawInv'
  BY ShapeStep, DrawStep, Zenon DEF DrawInv
<1>2. DrawInv /\ ReplacesOne /\ HandedIsRecorded /\ [Next]_vars => (ReplacesOne /\ HandedIsRecorded)'
  BY RecordedStep, Zenon
<1>3. QED
  BY <1>1, <1>2, KeysInit, PTL DEF Spec

\* Where write transactions are serialized, Verify accepts a superseded key no
\* longer than the first deadline it was given, whichever rotations, revocations
\* and sweeps race (Rotate reads the status and marks the key in one transaction).
THEOREM GraceIsAWindow == Spec => []LapsesOnSqlite
<1> DEFINE Inv == Serialized => FirstDeadline /\ OneTransaction
<1>1. DrawInv /\ [Next]_vars => DrawInv'
  BY ShapeStep, DrawStep, Zenon DEF DrawInv
<1>2. DrawInv /\ Inv /\ [Next]_vars => Inv'
  <2>1. [Next]_vars => engine' = engine
    BY Zenon DEF Next, vars
  <2> QED
    BY <2>1, DeadlineStep, Zenon DEF Serialized
<1>3. DrawInv /\ Inv => LapsesOnSqlite
  BY Zenon DEF DrawInv, Shape, FirstDeadline, LapsesOnSqlite, Verify, Usable
<1>4. QED
  BY <1>1, <1>2, <1>3, KeysInit, PTL DEF Spec

--------------------------------------------------------------------------------
(* Enrollment. *)

(***************************************************************************)
(* The inductive invariant.                                                *)
(***************************************************************************)
\* The part of the types the argument rests on.
EnrollShape ==
  /\ estatus \in [Pairing -> {"none", "pending", "approved", "redeemed", "revoked"}]
  /\ eowner \in [Pairing -> Owner \cup {Nobody}]
  /\ DOMAIN elineageOf = Pairing
  /\ elink \in [Pairing -> Owner \cup {Nobody}]
  /\ epc \in [Req -> Enroll!Location]
  /\ eow \in [Req -> Owner \cup {Nobody}]
  /\ DOMAIN epr = Req /\ DOMAIN eln = Req
  /\ \A r \in Req : epc[r] # "idle" => epr[r] \in Pairing

\* A pairing is decided once it has left status pending.
Decided(p) == estatus[p] \in {"approved", "redeemed", "revoked"}

\* Who approves acts for an account, and from the update that approves the
\* pairing to the write of the link the row names that account.
ApproverHeld ==
  \A r \in Req :
    /\ epc[r] \in {"approve_lookup", "approve_write", "mint_link", "approve_link"} =>
         eow[r] \in Owner
    /\ epc[r] \in {"mint_link", "approve_link"} =>
         Decided(epr[r]) /\ eowner[epr[r]] = eow[r]

\* A link is written only for a decided pairing, and names the row's owner.
LinkAgrees ==
  \A p \in Pairing : elink[p] # Nobody => Decided(p) /\ elink[p] = eowner[p]

\* A redemption past the lookup of the link acts for the account it names.
RedeemerHeld ==
  \A r \in Req :
    epc[r] \in {"standing", "get", "issue", "consume", "compensate"} =>
      elink[epr[r]] = eow[r] /\ eow[r] # Nobody

\* Delivered tokens are those of a decided pairing that is linked.
DeliveredInv ==
  \A d \in edelivered :
    d[1] \in Pairing /\ elink[d[1]] = d[2] /\ elink[d[1]] # Nobody

EnrollInv == ApproverHeld /\ LinkAgrees /\ RedeemerHeld /\ DeliveredInv

(***************************************************************************)
(* Every statement keeps it.                                               *)
(***************************************************************************)
\* The tables are empty and no request runs.
LEMMA EnrollInit == Enroll!Init => EnrollShape /\ EnrollInv /\ Enroll!NoStrayLineage
<1> SUFFICES ASSUME Enroll!Init PROVE EnrollShape /\ EnrollInv /\ Enroll!NoStrayLineage
  BY Zenon
<1>1. EnrollShape
  BY Zenon DEF Enroll!Init, EnrollShape, Enroll!Location
<1>2. ApproverHeld /\ RedeemerHeld
  BY Zenon DEF Enroll!Init, ApproverHeld, RedeemerHeld
<1>3. LinkAgrees /\ DeliveredInv /\ Enroll!NoStrayLineage
  BY Zenon DEF Enroll!Init, LinkAgrees, DeliveredInv, Enroll!NoStrayLineage
<1> QED
  BY <1>1, <1>2, <1>3, Zenon DEF EnrollInv

\* Every statement keeps the types.
LEMMA EnrollShapeStep == EnrollShape /\ [Enroll!Next]_(Enroll!vars) => EnrollShape'
<1> SUFFICES ASSUME EnrollShape, [Enroll!Next]_(Enroll!vars) PROVE EnrollShape'
  BY Zenon
<1> USE DEF EnrollShape, Enroll!Location, Enroll!row, Enroll!local, Enroll!ghost, Enroll!limiter
<1>1. ASSUME NEW p \in Pairing, Enroll!StartDeviceGrant(p) PROVE EnrollShape'
  BY <1>1, Zenon DEF Enroll!StartDeviceGrant, Enroll!create
<1>2. ASSUME NEW p \in Pairing, NEW o \in Owner, Enroll!MintInto(p, o) PROVE EnrollShape'
  BY <1>2, Zenon DEF Enroll!MintInto, Enroll!create
<1>3. ASSUME NEW r \in Req, NEW p \in Pairing, NEW o \in Owner, Enroll!Mint(r, p, o) PROVE EnrollShape'
  BY <1>3, ZenonT(60) DEF Enroll!Mint, Enroll!create, Enroll!Goto
<1>4. ASSUME NEW r \in Req, NEW p \in Pairing, NEW o \in Owner, Enroll!checkApprovalLimit(r, p, o) PROVE EnrollShape'
  BY <1>4 DEF Enroll!checkApprovalLimit, Enroll!Goto
<1>5. ASSUME NEW r \in Req, NEW p \in Pairing, NEW o \in Owner, Enroll!RevokeGet(r, p, o) PROVE EnrollShape'
  BY <1>5, Zenon DEF Enroll!RevokeGet, Enroll!Goto
<1>6. ASSUME NEW r \in Req, NEW p \in Pairing, Enroll!AuthenticateDeviceCode(r, p) PROVE EnrollShape'
  BY <1>6, Zenon DEF Enroll!AuthenticateDeviceCode, Enroll!Goto
<1>7. ASSUME NEW r \in Req, NEW p \in Pairing, Enroll!PollRead(r, p) PROVE EnrollShape'
  BY <1>7, Zenon DEF Enroll!PollRead, Enroll!Goto
<1>8. ASSUME NEW r \in Req, Enroll!Link(r) PROVE EnrollShape'
  BY <1>8, Zenon DEF Enroll!Link, Enroll!Return
<1>9. ASSUME NEW r \in Req, Enroll!ApproveLookup(r) PROVE EnrollShape'
  BY <1>9, ZenonT(60) DEF Enroll!ApproveLookup, Enroll!Goto, Enroll!Return
<1>10. ASSUME NEW r \in Req, Enroll!ApproveWrite(r) PROVE EnrollShape'
  BY <1>10 DEF Enroll!ApproveWrite, Enroll!Goto, Enroll!Return
<1>11. ASSUME NEW r \in Req, Enroll!ResolveLink(r) PROVE EnrollShape'
  BY <1>11, ZenonT(60) DEF Enroll!ResolveLink, Enroll!Goto, Enroll!Return
<1>12. ASSUME NEW r \in Req, Enroll!ResolveOwner(r) PROVE EnrollShape'
  BY <1>12 DEF Enroll!ResolveOwner, Enroll!Goto, Enroll!Return
<1>13. ASSUME NEW r \in Req, Enroll!GetPairing(r) PROVE EnrollShape'
  BY <1>13, ZenonT(60) DEF Enroll!GetPairing, Enroll!Goto, Enroll!Return
<1>14. ASSUME NEW r \in Req, Enroll!IssueLineage(r) PROVE EnrollShape'
  BY <1>14, Zenon DEF Enroll!IssueLineage, Enroll!Goto
<1>15. ASSUME NEW r \in Req, Enroll!MarkRedeemed(r) PROVE EnrollShape'
  BY <1>15, ZenonT(60) DEF Enroll!MarkRedeemed, Enroll!Goto, Enroll!Return
<1>16. ASSUME NEW r \in Req, Enroll!revokeLineage(r) PROVE EnrollShape'
  BY <1>16, Zenon DEF Enroll!revokeLineage, Enroll!Return
<1>17. ASSUME NEW r \in Req, Enroll!Touch(r) PROVE EnrollShape'
  BY <1>17, Zenon DEF Enroll!Touch, Enroll!Return
<1>18. ASSUME NEW r \in Req, Enroll!RevokeWrite(r) PROVE EnrollShape'
  BY <1>18 DEF Enroll!RevokeWrite, Enroll!Goto, Enroll!Return
<1>19. ASSUME NEW r \in Req, Enroll!Abort(r) PROVE EnrollShape'
  BY <1>19, Zenon DEF Enroll!Abort, Enroll!Return
<1>20. ASSUME NEW o \in Owner, Enroll!SetStanding(o) PROVE EnrollShape'
  BY <1>20, Zenon DEF Enroll!SetStanding
<1>21. ASSUME Enroll!Tick PROVE EnrollShape'
  BY <1>21, Zenon DEF Enroll!Tick
<1>22. CASE UNCHANGED Enroll!vars
  BY <1>22, Zenon DEF Enroll!vars
<1>23. QED
  BY <1>1, <1>2, <1>3, <1>4, <1>5, <1>6, <1>7, <1>8, <1>9, <1>10, <1>11, <1>12, <1>13, <1>14, <1>15, <1>16, <1>17, <1>18, <1>19, <1>20, <1>21, <1>22, ZenonT(60) DEF Enroll!Next, Enroll!Step

\* A decided row keeps its owner, so the link, the row and every request that
\* approves or redeems the pairing go on naming the same account.
LEMMA EnrollStep == EnrollShape /\ EnrollInv /\ [Enroll!Next]_(Enroll!vars) => EnrollInv'
<1> SUFFICES ASSUME EnrollShape, EnrollInv, [Enroll!Next]_(Enroll!vars) PROVE EnrollInv'
  BY Zenon
<1> USE NobodyAssumption DEF EnrollShape, Enroll!Location, EnrollInv, ApproverHeld, LinkAgrees,
        RedeemerHeld, DeliveredInv, Decided, Enroll!row, Enroll!local, Enroll!ghost, Enroll!limiter
<1>1. ASSUME NEW p \in Pairing, Enroll!StartDeviceGrant(p) PROVE EnrollInv'
  BY <1>1, ZenonT(60) DEF Enroll!StartDeviceGrant, Enroll!create
<1>2. ASSUME NEW p \in Pairing, NEW o \in Owner, Enroll!MintInto(p, o) PROVE EnrollInv'
  BY <1>2 DEF Enroll!MintInto, Enroll!create
<1>3. ASSUME NEW r \in Req, NEW p \in Pairing, NEW o \in Owner, Enroll!Mint(r, p, o) PROVE EnrollInv'
  BY <1>3 DEF Enroll!Mint, Enroll!create, Enroll!Goto
<1>4. ASSUME NEW r \in Req, NEW p \in Pairing, NEW o \in Owner, Enroll!checkApprovalLimit(r, p, o) PROVE EnrollInv'
  BY <1>4 DEF Enroll!checkApprovalLimit, Enroll!Goto
<1>5. ASSUME NEW r \in Req, NEW p \in Pairing, NEW o \in Owner, Enroll!RevokeGet(r, p, o) PROVE EnrollInv'
  BY <1>5, ZenonT(60) DEF Enroll!RevokeGet, Enroll!Goto
<1>6. ASSUME NEW r \in Req, NEW p \in Pairing, Enroll!AuthenticateDeviceCode(r, p) PROVE EnrollInv'
  BY <1>6, ZenonT(60) DEF Enroll!AuthenticateDeviceCode, Enroll!Goto
<1>7. ASSUME NEW r \in Req, NEW p \in Pairing, Enroll!PollRead(r, p) PROVE EnrollInv'
  BY <1>7 DEF Enroll!PollRead, Enroll!Goto
<1>8. ASSUME NEW r \in Req, Enroll!Link(r) PROVE EnrollInv'
  BY <1>8 DEF Enroll!Link, Enroll!Return
<1>9. ASSUME NEW r \in Req, Enroll!ApproveLookup(r) PROVE EnrollInv'
  BY <1>9 DEF Enroll!ApproveLookup, Enroll!Goto, Enroll!Return
<1>10. ASSUME NEW r \in Req, Enroll!ApproveWrite(r) PROVE EnrollInv'
  BY <1>10 DEF Enroll!ApproveWrite, Enroll!Goto, Enroll!Return
<1>11. ASSUME NEW r \in Req, Enroll!ResolveLink(r) PROVE EnrollInv'
  BY <1>11 DEF Enroll!ResolveLink, Enroll!Goto, Enroll!Return
<1>12. ASSUME NEW r \in Req, Enroll!ResolveOwner(r) PROVE EnrollInv'
  BY <1>12 DEF Enroll!ResolveOwner, Enroll!Goto, Enroll!Return
<1>13. ASSUME NEW r \in Req, Enroll!GetPairing(r) PROVE EnrollInv'
  BY <1>13 DEF Enroll!GetPairing, Enroll!Goto, Enroll!Return
<1>14. ASSUME NEW r \in Req, Enroll!IssueLineage(r) PROVE EnrollInv'
  BY <1>14, ZenonT(60) DEF Enroll!IssueLineage, Enroll!Goto
<1>15. ASSUME NEW r \in Req, Enroll!MarkRedeemed(r) PROVE EnrollInv'
  BY <1>15 DEF Enroll!MarkRedeemed, Enroll!Goto, Enroll!Return
<1>16. ASSUME NEW r \in Req, Enroll!revokeLineage(r) PROVE EnrollInv'
  BY <1>16, ZenonT(60) DEF Enroll!revokeLineage, Enroll!Return
<1>17. ASSUME NEW r \in Req, Enroll!Touch(r) PROVE EnrollInv'
  BY <1>17, ZenonT(60) DEF Enroll!Touch, Enroll!Return
<1>18. ASSUME NEW r \in Req, Enroll!RevokeWrite(r) PROVE EnrollInv'
  BY <1>18 DEF Enroll!RevokeWrite, Enroll!Goto, Enroll!Return
<1>19. ASSUME NEW r \in Req, Enroll!Abort(r) PROVE EnrollInv'
  BY <1>19, ZenonT(60) DEF Enroll!Abort, Enroll!Return
<1>20. ASSUME NEW o \in Owner, Enroll!SetStanding(o) PROVE EnrollInv'
  BY <1>20, Zenon DEF Enroll!SetStanding
<1>21. ASSUME Enroll!Tick PROVE EnrollInv'
  BY <1>21, Zenon DEF Enroll!Tick
<1>22. CASE UNCHANGED Enroll!vars
  BY <1>22, Zenon DEF Enroll!vars
<1>23. QED
  BY <1>1, <1>2, <1>3, <1>4, <1>5, <1>6, <1>7, <1>8, <1>9, <1>10, <1>11, <1>12, <1>13, <1>14, <1>15, <1>16, <1>17, <1>18, <1>19, <1>20, <1>21, <1>22, ZenonT(60) DEF Enroll!Next, Enroll!Step

\* What a request issues it records, revokes or is known to have lost, and a
\* redeemed row keeps its lineage.
LEMMA StrayStep == EnrollShape /\ Enroll!NoStrayLineage /\ [Enroll!Next]_(Enroll!vars) => Enroll!NoStrayLineage'
<1> SUFFICES ASSUME EnrollShape, Enroll!NoStrayLineage, [Enroll!Next]_(Enroll!vars) PROVE Enroll!NoStrayLineage'
  BY Zenon
<1> USE DEF EnrollShape, Enroll!Location, Enroll!NoStrayLineage, Enroll!row, Enroll!local, Enroll!ghost, Enroll!limiter
<1>1. ASSUME NEW p \in Pairing, Enroll!StartDeviceGrant(p) PROVE Enroll!NoStrayLineage'
  BY Zenon, <1>1 DEF Enroll!StartDeviceGrant, Enroll!create
<1>2. ASSUME NEW p \in Pairing, NEW o \in Owner, Enroll!MintInto(p, o) PROVE Enroll!NoStrayLineage'
  BY Zenon, <1>2 DEF Enroll!MintInto, Enroll!create
<1>3. ASSUME NEW r \in Req, NEW p \in Pairing, NEW o \in Owner, Enroll!Mint(r, p, o) PROVE Enroll!NoStrayLineage'
  BY <1>3, Zenon DEF Enroll!Mint, Enroll!create, Enroll!Goto
<1>4. ASSUME NEW r \in Req, NEW p \in Pairing, NEW o \in Owner, Enroll!checkApprovalLimit(r, p, o) PROVE Enroll!NoStrayLineage'
  BY <1>4, Zenon DEF Enroll!checkApprovalLimit, Enroll!Goto
<1>5. ASSUME NEW r \in Req, NEW p \in Pairing, NEW o \in Owner, Enroll!RevokeGet(r, p, o) PROVE Enroll!NoStrayLineage'
  BY <1>5, Zenon DEF Enroll!RevokeGet, Enroll!Goto
<1>6. ASSUME NEW r \in Req, NEW p \in Pairing, Enroll!AuthenticateDeviceCode(r, p) PROVE Enroll!NoStrayLineage'
  BY <1>6, Zenon DEF Enroll!AuthenticateDeviceCode, Enroll!Goto
<1>7. ASSUME NEW r \in Req, NEW p \in Pairing, Enroll!PollRead(r, p) PROVE Enroll!NoStrayLineage'
  BY <1>7, Zenon DEF Enroll!PollRead, Enroll!Goto
<1>8. ASSUME NEW r \in Req, Enroll!Link(r) PROVE Enroll!NoStrayLineage'
  BY <1>8, Zenon DEF Enroll!Link, Enroll!Return
<1>9. ASSUME NEW r \in Req, Enroll!ApproveLookup(r) PROVE Enroll!NoStrayLineage'
  BY <1>9, Zenon DEF Enroll!ApproveLookup, Enroll!Goto, Enroll!Return
<1>10. ASSUME NEW r \in Req, Enroll!ApproveWrite(r) PROVE Enroll!NoStrayLineage'
  BY <1>10, ZenonT(60) DEF Enroll!ApproveWrite, Enroll!Goto, Enroll!Return
<1>11. ASSUME NEW r \in Req, Enroll!ResolveLink(r) PROVE Enroll!NoStrayLineage'
  BY <1>11, Zenon DEF Enroll!ResolveLink, Enroll!Goto, Enroll!Return
<1>12. ASSUME NEW r \in Req, Enroll!ResolveOwner(r) PROVE Enroll!NoStrayLineage'
  BY <1>12, Zenon DEF Enroll!ResolveOwner, Enroll!Goto, Enroll!Return
<1>13. ASSUME NEW r \in Req, Enroll!GetPairing(r) PROVE Enroll!NoStrayLineage'
  BY <1>13, ZenonT(60) DEF Enroll!GetPairing, Enroll!Goto, Enroll!Return
<1>14. ASSUME NEW r \in Req, Enroll!IssueLineage(r) PROVE Enroll!NoStrayLineage'
  BY <1>14, Zenon DEF Enroll!IssueLineage, Enroll!Goto
<1>15. ASSUME NEW r \in Req, Enroll!MarkRedeemed(r) PROVE Enroll!NoStrayLineage'
  BY <1>15 DEF Enroll!MarkRedeemed, Enroll!Goto, Enroll!Return
<1>16. ASSUME NEW r \in Req, Enroll!revokeLineage(r) PROVE Enroll!NoStrayLineage'
  BY <1>16, Zenon DEF Enroll!revokeLineage, Enroll!Return
<1>17. ASSUME NEW r \in Req, Enroll!Touch(r) PROVE Enroll!NoStrayLineage'
  BY <1>17, Zenon DEF Enroll!Touch, Enroll!Return
<1>18. ASSUME NEW r \in Req, Enroll!RevokeWrite(r) PROVE Enroll!NoStrayLineage'
  BY <1>18, ZenonT(60) DEF Enroll!RevokeWrite, Enroll!Goto, Enroll!Return
<1>19. ASSUME NEW r \in Req, Enroll!Abort(r) PROVE Enroll!NoStrayLineage'
  BY <1>19, Zenon DEF Enroll!Abort, Enroll!Return
<1>20. ASSUME NEW o \in Owner, Enroll!SetStanding(o) PROVE Enroll!NoStrayLineage'
  BY <1>20, Zenon DEF Enroll!SetStanding
<1>21. ASSUME Enroll!Tick PROVE Enroll!NoStrayLineage'
  BY <1>21, Zenon DEF Enroll!Tick
<1>22. CASE UNCHANGED Enroll!vars
  BY <1>22, Zenon DEF Enroll!vars
<1>23. QED
  BY <1>1, <1>2, <1>3, <1>4, <1>5, <1>6, <1>7, <1>8, <1>9, <1>10, <1>11, <1>12, <1>13, <1>14, <1>15, <1>16, <1>17, <1>18, <1>19, <1>20, <1>21, <1>22, ZenonT(60) DEF Enroll!Next, Enroll!Step

(***************************************************************************)
(* The theorems.                                                           *)
(***************************************************************************)
\* Whatever approvals, redemptions and withdrawals interleave, tokens are
\* delivered only to the account the row and the link name (Approve and Redeem
\* over conditional updates).
THEOREM ApproverGetsTokens == Enroll!Spec => []DeliveredToApprover
<1>1. EnrollShape /\ EnrollInv => DeliveredToApprover
  BY Zenon DEF EnrollShape, EnrollInv, LinkAgrees, DeliveredInv, DeliveredToApprover,
         Enroll!DeliveredToApprover
<1>2. QED
  BY <1>1, EnrollInit, EnrollShapeStep, EnrollStep, PTL DEF Enroll!Spec

\* Whatever redemptions race for a pairing, a live lineage is recorded on it, or
\* its request is still going to record or revoke it, or that request failed
\* (Redeem issues before it consumes, and revokes what it issued if it loses).
THEOREM LineagesAreAccountedFor == Enroll!Spec => []NoStrayLineage
BY EnrollInit, EnrollShapeStep, StrayStep, PTL DEF Enroll!Spec, NoStrayLineage

================================================================================
