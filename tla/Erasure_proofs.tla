---------------------------- MODULE Erasure_proofs -----------------------------
(***************************************************************************)
(* Theorems about Erasure for any number of concurrent erasures, tables    *)
(* and records, on either engine.                                          *)
(***************************************************************************)
EXTENDS Erasure, TLAPS

Rec == [actor : Value, target : Value, detail : Value]
Past == {"record", "ensure", "insert", "reread", "read", "scrub", "pseudonymize", "destroy", "done"}
Working == {"collect"} \cup Past

\* The part of the types the argument rests on, and that an erasure has a salt
\* in hand from the scrub on.
Shape ==
  /\ rows \subseteq RowId
  /\ released \subseteq RowId
  /\ log \in Seq(Rec)
  /\ salt \in Nat /\ minted \in Nat
  /\ pc \in [Eraser -> Working \cup {"idle", "failed"}]
  /\ ids \in [Eraser -> Seq(GraphId)]
  /\ next \in [Eraser -> Nat]
  /\ key \in [Eraser -> Nat]
  /\ DOMAIN found = Eraser
  /\ since \in [Eraser -> Nat]
  /\ own \in [Eraser -> Nat]
  /\ \A p \in Eraser : since[p] <= Len(log) /\ own[p] <= Len(log)
  /\ \A p \in Eraser : pc[p] \in {"read", "scrub", "pseudonymize", "destroy"} => key[p] # 0
  /\ \A p \in Eraser : pc[p] = "collect" => next[p] \in DOMAIN Tables

\* What the assumptions say of the tables.
LEMMA TablesKnown ==
  /\ Tables \in Seq(RowId) /\ Len(Tables) \in Nat \ {0} /\ DOMAIN Tables = 1 .. Len(Tables)
  /\ \A i \in DOMAIN Tables : Tables[i] \in RowId
  /\ OwnerId \notin RowId /\ Admin \notin RowId /\ None \notin RowId
<1>1. /\ Tables \in Seq(RowId) /\ Tables # <<>>
      /\ {OwnerId, Admin, Label, None} \cap RowId = {}
  BY ErasureAssumptions, Zenon
<1>2. Len(Tables) \in Nat \ {0} /\ DOMAIN Tables = 1 .. Len(Tables)
  BY <1>1
<1>3. \A i \in DOMAIN Tables : Tables[i] \in RowId
  BY <1>1, <1>2
<1> QED
  BY <1>1, <1>2, <1>3, Zenon

\* The list of an erasure starts with the owner, and the first table is a table.
LEMMA FirstTable ==
  <<OwnerId>> \in Seq(GraphId) /\ 1 \in DOMAIN Tables /\ 0 \in Nat /\ 1 \in Nat
<1>1. <<OwnerId>> \in Seq(GraphId)
  BY DEF GraphId
<1>2. 1 \in DOMAIN Tables
  BY TablesKnown
<1> QED
  BY <1>1, <1>2

\* A row found in a table joins the list of identifiers.
LEMMA LongerList ==
  ASSUME NEW l \in Seq(GraphId), NEW r \in RowId
  PROVE  Append(l, r) \in Seq(GraphId)
<1>1. r \in GraphId
  BY Zenon DEF GraphId
<1> QED
  BY <1>1

\* After a table comes the one that follows it, and after the last the first.
LEMMA NextTable ==
  ASSUME NEW n \in DOMAIN Tables
  PROVE  (IF n = Len(Tables) THEN 1 ELSE n + 1) \in DOMAIN Tables \cap Nat
<1>1. Len(Tables) \in Nat \ {0} /\ DOMAIN Tables = 1 .. Len(Tables)
  BY TablesKnown, Zenon
<1> QED
  BY <1>1

\* A log has a length.
LEMMA SeqLength == \A l \in Seq(Rec) : Len(l) \in Nat
OBVIOUS

\* A record more makes the log longer.
LEMMA LongerByOne == \A m, n \in Nat : n = m + 1 => m <= n /\ n <= n
OBVIOUS

\* What a log holds, a longer one holds.
LEMMA AtMost == \A k, m, n \in Nat : k <= m /\ m <= n => k <= n
OBVIOUS

\* A length bounds itself and nothing.
LEMMA LengthBounds == \A n \in Nat : n <= n /\ 0 <= n
OBVIOUS

\* Records stay, in their order, with the identifiers they were written with,
\* in the clear or as tombstones, and a tombstone stays one.
LogKept ==
  /\ Len(log) <= Len(log')
  /\ \A i \in 1 .. Len(log) :
       /\ log'[i].actor.id = log[i].actor.id
       /\ log'[i].target.id = log[i].target.id
       /\ log'[i].detail.id = log[i].detail.id
       /\ log[i].actor.salt # 0 => log'[i].actor.salt # 0
       /\ log[i].target.salt # 0 => log'[i].target.salt # 0
       /\ log[i].detail.salt # 0 => log'[i].detail.salt # 0

\* A record made of identifiers is a record.
LEMMA RecordType ==
  ASSUME NEW a \in Identifier, NEW t \in Identifier, NEW d \in Identifier
  PROVE  Record(a, t, d) \in Rec
BY Zenon DEF Record, Plain, Rec, Value

\* The record Pseudonymize leaves of a record.
Rewrite(rec, id, s) ==
  [rec EXCEPT !.actor = Pseudonymized(@, id, s), !.target = Pseudonymized(@, id, s)]

\* One column: a value keeps its identifier, a tombstone stays, and id goes.
LEMMA ValueRewritten ==
  ASSUME NEW v \in Value, NEW id, NEW s \in Nat \ {0}
  PROVE  /\ Pseudonymized(v, id, s) \in Value
         /\ Pseudonymized(v, id, s).id = v.id
         /\ v.salt # 0 => Pseudonymized(v, id, s).salt # 0
         /\ v.id = id => Pseudonymized(v, id, s).salt # 0
         /\ v.id # id => Pseudonymized(v, id, s) = v
BY DEF Pseudonymized, Plain, Tombstone, Value

\* The two columns of a record.
LEMMA RecordRewritten ==
  ASSUME NEW rec \in Rec, NEW id, NEW s \in Nat \ {0}
  PROVE  /\ Rewrite(rec, id, s) \in Rec
         /\ Rewrite(rec, id, s).actor = Pseudonymized(rec.actor, id, s)
         /\ Rewrite(rec, id, s).target = Pseudonymized(rec.target, id, s)
         /\ Rewrite(rec, id, s).detail = rec.detail
<1>1. rec.actor \in Value /\ rec.target \in Value
  BY Zenon DEF Rec
<1>2. /\ Pseudonymized(rec.actor, id, s) \in Value
      /\ Pseudonymized(rec.target, id, s) \in Value
  BY <1>1, ValueRewritten, Zenon
<1> QED
  BY <1>2, Zenon DEF Rewrite, Rec

\* An index below the next one is this one or a smaller one.
LEMMA NextIndex ==
  ASSUME NEW j \in Nat, NEW n \in Nat, j < n + 1
  PROVE  j < n \/ j = n
OBVIOUS

\* An index of a sequence is a number from one on.
LEMMA IndexIsNat ==
  ASSUME NEW n, NEW j \in 1 .. n
  PROVE  j \in Nat \ {0}
OBVIOUS

\* What a pass over one identifier does besides.
LEMMA PseudonymizeRest ==
  ASSUME NEW p, Pseudonymize(p)
  PROVE  /\ pc[p] = "pseudonymize"
         /\ next' = [next EXCEPT ![p] = @ + 1]
         /\ pc' = IF next[p] = Len(ids[p]) THEN [pc EXCEPT ![p] = "destroy"] ELSE pc
         /\ UNCHANGED <<rows, salt, minted, ids, key, found, since, own, ghost, budget>>
BY Zenon DEF Pseudonymize

\* What a pass over one identifier makes of the log.
LEMMA PseudonymizeLog ==
  ASSUME Shape, NEW p \in Eraser, Pseudonymize(p)
  PROVE  /\ log' \in Seq(Rec) /\ Len(log') = Len(log) /\ LogKept
         /\ \A i \in 1 .. Len(log) :
              LET id == ids[p][next[p]]
              IN  /\ log'[i].actor = Pseudonymized(log[i].actor, id, key[p])
                  /\ log'[i].target = Pseudonymized(log[i].target, id, key[p])
                  /\ log'[i].detail = log[i].detail
<1> DEFINE id == ids[p][next[p]]
<1>1. pc[p] = "pseudonymize" /\ key[p] \in Nat \ {0}
  BY PseudonymizeRest, Zenon DEF Shape
<1>2. /\ DOMAIN log = 1 .. Len(log) /\ Len(log) \in Nat
      /\ \A i \in 1 .. Len(log) : log[i] \in Rec
  BY DEF Shape
<1>3. log' = [i \in 1 .. Len(log) |-> Rewrite(log[i], id, key[p])]
  BY <1>2, Zenon DEF Pseudonymize, Rewrite
<1> HIDE DEF id
<1>4. \A i \in 1 .. Len(log) : Rewrite(log[i], id, key[p]) \in Rec
  BY <1>1, <1>2, RecordRewritten, Zenon
<1>5. log' \in Seq(Rec) /\ Len(log') = Len(log)
  BY <1>2, <1>3, <1>4
<1>6. ASSUME NEW i \in 1 .. Len(log)
      PROVE  /\ log'[i].actor = Pseudonymized(log[i].actor, id, key[p])
             /\ log'[i].target = Pseudonymized(log[i].target, id, key[p])
             /\ log'[i].detail = log[i].detail
             /\ log[i].actor \in Value /\ log[i].target \in Value
  BY <1>1, <1>2, <1>3, RecordRewritten DEF Rec
<1>7. ASSUME NEW i \in 1 .. Len(log)
      PROVE  /\ log'[i].actor.id = log[i].actor.id
             /\ log'[i].target.id = log[i].target.id
             /\ log[i].actor.salt # 0 => log'[i].actor.salt # 0
             /\ log[i].target.salt # 0 => log'[i].target.salt # 0
  <2>1. /\ log'[i].actor.id = log[i].actor.id
        /\ log[i].actor.salt # 0 => log'[i].actor.salt # 0
    <3>1. log[i].actor \in Value /\ key[p] \in Nat \ {0} /\ log'[i].actor = Pseudonymized(log[i].actor, id, key[p])
      BY <1>1, <1>6, Zenon
    <3>2. /\ Pseudonymized(log[i].actor, id, key[p]).id = log[i].actor.id
          /\ log[i].actor.salt # 0 => Pseudonymized(log[i].actor, id, key[p]).salt # 0
      BY <3>1, ValueRewritten, ZenonT(60)
    <3> QED
      BY <3>1, <3>2, Zenon
  <2>2. /\ log'[i].target.id = log[i].target.id
        /\ log[i].target.salt # 0 => log'[i].target.salt # 0
    <3>1. log[i].target \in Value /\ key[p] \in Nat \ {0} /\ log'[i].target = Pseudonymized(log[i].target, id, key[p])
      BY <1>1, <1>6, Zenon
    <3>2. /\ Pseudonymized(log[i].target, id, key[p]).id = log[i].target.id
          /\ log[i].target.salt # 0 => Pseudonymized(log[i].target, id, key[p]).salt # 0
      BY <3>1, ValueRewritten, ZenonT(60)
    <3> QED
      BY <3>1, <3>2, Zenon
  <2> QED
    BY <2>1, <2>2, Zenon
<1>8. LogKept
  BY <1>2, <1>5, <1>6, <1>7 DEF LogKept
<1> QED
  BY <1>5, <1>6, <1>8, Zenon DEF id

\* Every step keeps the types, and the log only grows and is rewritten in place.
LEMMA ShapeStep == Shape /\ [Next]_vars => Shape' /\ LogKept
<1> SUFFICES ASSUME Shape, [Next]_vars PROVE Shape' /\ LogKept
  BY Zenon
<1> USE DEF Shape, Past, Working, store, locals, ghost, budget
<1>0. /\ DOMAIN log = 1 .. Len(log) /\ Len(log) \in Nat
      /\ \A i \in 1 .. Len(log) : log[i] \in Rec
  OBVIOUS
<1>1. ASSUME UNCHANGED log PROVE LogKept
  BY <1>1, <1>0 DEF LogKept
<1>2. ASSUME NEW rec \in Rec, log' = Append(log, rec)
      PROVE  log' \in Seq(Rec) /\ Len(log') = Len(log) + 1 /\ LogKept
  BY <1>2, <1>0 DEF LogKept
<1>3. ASSUME NEW r \in RowId, Audit(r)
      PROVE  log' \in Seq(Rec) /\ Len(log') = Len(log) + 1 /\ LogKept
  <2>1. OwnerId \in Identifier /\ r \in Identifier /\ Label \in Identifier
    BY Zenon DEF Identifier, GraphId
  <2> QED
    BY <1>2, <1>3, <2>1, RecordType, Zenon DEF Audit
<1>4. ASSUME NEW r \in RowId, CreateRow(r) PROVE Shape' /\ LogKept
  BY <1>1, <1>4, Zenon DEF CreateRow
<1>5. ASSUME NEW r \in RowId, Emit(r) PROVE Shape' /\ LogKept
  BY <1>3, <1>5 DEF Emit
<1>6. ASSUME NEW r \in RowId, DeleteRow(r) PROVE Shape' /\ LogKept
  BY <1>3, <1>6 DEF DeleteRow
<1>7. ASSUME NEW p \in Eraser, Begin(p) PROVE Shape' /\ LogKept
  <2>1. <<OwnerId>> \in Seq(GraphId) /\ 1 \in DOMAIN Tables /\ 0 \in Nat /\ 1 \in Nat
    BY FirstTable, Zenon
  <2>2. Len(log) <= Len(log) /\ 0 <= Len(log)
    BY <1>0, LengthBounds, Zenon
  <2>3. \A q \in Eraser : since'[q] <= Len(log) /\ own'[q] <= Len(log)
    BY <1>7, <2>2, Zenon DEF Begin
  <2>4. \A q \in Eraser : q # p => pc'[q] = pc[q] /\ next'[q] = next[q] /\ key'[q] = key[q]
    BY <1>7, Zenon DEF Begin
  <2>5. pc'[p] = "collect" /\ next'[p] = 1
    BY <1>7, Zenon DEF Begin
  <2>6. /\ ids' \in [Eraser -> Seq(GraphId)] /\ next' \in [Eraser -> Nat]
        /\ key' \in [Eraser -> Nat] /\ DOMAIN found' = Eraser
    BY <1>7, <2>1, Zenon DEF Begin
  <2>7. since' \in [Eraser -> Nat] /\ own' \in [Eraser -> Nat]
    BY <1>0, <1>7, <2>1, Zenon DEF Begin
  <2>8. pc' \in [Eraser -> Working \cup {"idle", "failed"}]
    BY <1>7, Zenon DEF Begin
  <2>9. UNCHANGED <<rows, released, log, salt, minted>> /\ LogKept
    BY <1>1, <1>7, Zenon DEF Begin
  <2> QED
    BY <2>1, <2>3, <2>4, <2>5, <2>6, <2>7, <2>8, <2>9, Zenon
<1>8. ASSUME NEW p \in Eraser, Collect(p) PROVE Shape' /\ LogKept
  <2>1. ids' \in [Eraser -> Seq(GraphId)]
    <3>1. next[p] \in DOMAIN Tables /\ Tables[next[p]] \in RowId
      BY <1>8, TablesKnown, Zenon DEF Collect
    <3>2. Append(ids[p], Tables[next[p]]) \in Seq(GraphId) /\ ids[p] \in Seq(GraphId)
      BY <3>1, LongerList, Zenon
    <3> QED
      BY <1>8, <3>2, Zenon DEF Collect
  <2>2. next'[p] \in DOMAIN Tables /\ next'[p] \in Nat
    BY <1>8, NextTable, Zenon DEF Collect
  <2>3. next' \in [Eraser -> Nat] /\ \A q \in Eraser : q # p => next'[q] = next[q]
    BY <1>8, <2>2, Zenon DEF Collect
  <2>4. /\ pc' \in [Eraser -> Working \cup {"idle", "failed"}]
        /\ pc'[p] \in {"collect", "record"} /\ \A q \in Eraser : q # p => pc'[q] = pc[q]
    BY <1>8, Zenon DEF Collect
  <2>5. UNCHANGED <<rows, released, log, salt, minted, key, found, since, own>> /\ LogKept
    BY <1>1, <1>8, Zenon DEF Collect
  <2> QED
    BY <2>1, <2>2, <2>3, <2>4, <2>5, Zenon
<1>9. ASSUME NEW p \in Eraser, RecordErasure(p) PROVE Shape' /\ LogKept
  <2>1. None \in Identifier /\ OwnerId \in Identifier
    BY Zenon DEF Identifier, GraphId
  <2>2. log' \in Seq(Rec) /\ Len(log') = Len(log) + 1 /\ LogKept
    BY <1>2, <1>9, <2>1, RecordType, Zenon DEF RecordErasure
  <2>3. own'[p] = Len(log') /\ own' \in [Eraser -> Nat]
    <3>1. Len(log') \in Nat
      BY <2>2, SeqLength, Zenon
    <3>2. own' = [own EXCEPT ![p] = Len(log')]
      BY <1>9, Zenon DEF RecordErasure
    <3> QED
      BY <3>1, <3>2, ZenonT(60)
  <2>4. \A q \in Eraser : since'[q] <= Len(log') /\ own'[q] <= Len(log')
    <3>1. Len(log) <= Len(log') /\ Len(log') <= Len(log')
      <4>1. Len(log) \in Nat /\ Len(log') \in Nat
        BY <2>2, SeqLength, Zenon
      <4> QED
        BY <2>2, <4>1, LongerByOne, Zenon
    <3>2. ASSUME NEW q \in Eraser
          PROVE  since'[q] = since[q] /\ own'[q] \in {own[q], Len(log')}
      BY <1>9, <2>3, ZenonT(60) DEF RecordErasure
    <3>3. \A q \in Eraser : since[q] <= Len(log) /\ own[q] <= Len(log)
      BY Zenon
    <3>4. \A q \in Eraser : since[q] \in Nat /\ own[q] \in Nat
      BY Zenon
    <3>5. Len(log) \in Nat /\ Len(log') \in Nat
      BY <2>2, SeqLength, Zenon
    <3>6. \A q \in Eraser : since[q] <= Len(log') /\ own[q] <= Len(log')
      BY <3>1, <3>3, <3>4, <3>5, AtMost, Zenon
    <3> QED
      BY <3>1, <3>2, <3>6, Zenon
  <2> QED
    BY <1>9, <2>2, <2>3, <2>4, Zenon DEF RecordErasure, Go
<1>10. ASSUME NEW p \in Eraser, EnsureRead(p) PROVE Shape' /\ LogKept
  <2>1. CASE salt # 0
    BY <1>1, <1>10, <2>1, ZenonT(60) DEF EnsureRead
  <2>2. CASE salt = 0 /\ Serialized
    <3>1. minted' \in Nat \ {0} /\ salt' = minted'
      BY <1>10, <2>2 DEF EnsureRead
    <3>2. key' \in [Eraser -> Nat] /\ key'[p] # 0 /\ \A q \in Eraser \ {p} : key'[q] = key[q]
      BY <1>10, <2>2, <3>1, ZenonT(60) DEF EnsureRead
    <3> QED
      BY <1>1, <1>10, <2>2, <3>1, <3>2, ZenonT(60) DEF EnsureRead
  <2>3. CASE salt = 0 /\ ~Serialized
    BY <1>1, <1>10, <2>3, ZenonT(60) DEF EnsureRead
  <2> QED
    BY <2>1, <2>2, <2>3, Zenon
<1>11. ASSUME NEW p \in Eraser, EnsureInsert(p) PROVE Shape' /\ LogKept
  <2>1. minted' \in Nat \ {0}
    BY <1>11 DEF EnsureInsert
  <2>2. CASE salt = 0
    <3>1. key' \in [Eraser -> Nat] /\ key'[p] # 0 /\ \A q \in Eraser \ {p} : key'[q] = key[q]
      <4>1. key' = [key EXCEPT ![p] = minted'] /\ minted' \in Nat /\ minted' # 0
        BY <1>11, <2>1, <2>2, Zenon DEF EnsureInsert
      <4> QED
        BY <4>1, Zenon
    <3> QED
      BY <1>1, <1>11, <2>1, <2>2, <3>1, ZenonT(60) DEF EnsureInsert
  <2>3. CASE salt # 0
    BY <1>1, <1>11, <2>1, <2>3, ZenonT(60) DEF EnsureInsert
  <2> QED
    BY <2>2, <2>3, Zenon
<1>12. ASSUME NEW p \in Eraser, EnsureReread(p) PROVE Shape' /\ LogKept
  BY <1>1, <1>12, Zenon DEF EnsureReread
<1>13. ASSUME NEW p \in Eraser, RecordsForErasure(p) PROVE Shape' /\ LogKept
  BY <1>1, <1>13, Zenon DEF RecordsForErasure, Go
<1>14. ASSUME NEW p \in Eraser, ScrubMetadata(p) PROVE Shape' /\ LogKept
  <2>1. pc[p] = "scrub" /\ key[p] \in Nat \ {0}
    BY <1>14, Zenon DEF ScrubMetadata, Go
  <2>2. \A i \in 1 .. Len(log) :
          [log[i] EXCEPT !.detail = Tombstone(key[p], @.id)] \in Rec
    BY <1>0, <2>1, ZenonT(60) DEF Tombstone, Rec, Value
  <2>3. log' \in Seq(Rec) /\ Len(log') = Len(log)
    BY <1>0, <1>14, <2>2 DEF ScrubMetadata
  <2>4. LogKept
    BY <1>0, <1>14, <2>1, <2>3 DEF ScrubMetadata, LogKept, Tombstone, Rec, Value
  <2> QED
    BY <1>14, <2>3, <2>4, Zenon DEF ScrubMetadata, Go
<1>15. ASSUME NEW p \in Eraser, Pseudonymize(p) PROVE Shape' /\ LogKept
  <2>1. log' \in Seq(Rec) /\ Len(log') = Len(log) /\ LogKept
    BY <1>15, PseudonymizeLog, Zenon
  <2>2. /\ pc[p] = "pseudonymize"
        /\ next' = [next EXCEPT ![p] = @ + 1]
        /\ pc' = IF next[p] = Len(ids[p]) THEN [pc EXCEPT ![p] = "destroy"] ELSE pc
        /\ UNCHANGED <<rows, salt, minted, ids, key, found, since, own, ghost, budget>>
    BY <1>15, PseudonymizeRest, Zenon
  <2>3. next[p] + 1 \in Nat
    <3>1. next[p] \in Nat
      BY Zenon
    <3> QED
      BY <3>1
  <2>4. next' \in [Eraser -> Nat] /\ \A q \in Eraser : q # p => next'[q] = next[q]
    BY <2>2, <2>3, Zenon
  <2>5. /\ pc' \in [Eraser -> Working \cup {"idle", "failed"}]
        /\ pc'[p] \in {"pseudonymize", "destroy"} /\ \A q \in Eraser : q # p => pc'[q] = pc[q]
    BY <2>2, Zenon
  <2>6. \A q \in Eraser : since'[q] <= Len(log') /\ own'[q] <= Len(log')
    BY <2>1, <2>2, Zenon
  <2>7. \A q \in Eraser : pc'[q] \in {"read", "scrub", "pseudonymize", "destroy"} => key'[q] # 0
    BY <2>2, <2>5, ZenonT(60)
  <2>8. \A q \in Eraser : pc'[q] = "collect" => next'[q] \in DOMAIN Tables
    BY <2>4, <2>5, Zenon
  <2> QED
    BY <2>1, <2>2, <2>4, <2>5, <2>6, <2>7, <2>8, Zenon
<1>16. ASSUME NEW p \in Eraser, Destroy(p) PROVE Shape' /\ LogKept
  BY <1>1, <1>16, Zenon DEF Destroy, Go
<1>17. ASSUME NEW p \in Eraser, Fail(p) PROVE Shape' /\ LogKept
  BY <1>1, <1>17, Zenon DEF Fail
<1>18. CASE UNCHANGED vars
  BY <1>1, <1>18, Zenon DEF vars
<1> QED
  BY <1>4, <1>5, <1>6, <1>7, <1>8, <1>9, <1>10, <1>11, <1>12, <1>13, <1>14, <1>15, <1>16,
     <1>17, <1>18, Zenon DEF Next, Services, EraseOwner

\* What Shape says of the log, of the functions' domains and of one erasure.
LEMMA LogFacts ==
  ASSUME Shape
  PROVE  /\ Len(log) \in Nat /\ DOMAIN log = 1 .. Len(log)
         /\ \A i \in 1 .. Len(log) : /\ log[i] \in Rec
                                     /\ log[i].actor \in Value /\ log[i].target \in Value
<1>1. Len(log) \in Nat /\ DOMAIN log = 1 .. Len(log) /\ \A i \in 1 .. Len(log) : log[i] \in Rec
  BY DEF Shape
<1> QED
  BY <1>1, Zenon DEF Rec

\* Every erasure has its place in each of the functions.
LEMMA Domains ==
  ASSUME Shape
  PROVE  /\ DOMAIN pc = Eraser /\ DOMAIN ids = Eraser /\ DOMAIN next = Eraser
         /\ DOMAIN key = Eraser /\ DOMAIN found = Eraser /\ DOMAIN since = Eraser
         /\ DOMAIN own = Eraser
BY Zenon DEF Shape

\* What one erasure holds.
LEMMA LocalFacts ==
  ASSUME Shape, NEW p \in Eraser
  PROVE  /\ ids[p] \in Seq(GraphId) /\ Len(ids[p]) \in Nat /\ DOMAIN ids[p] = 1 .. Len(ids[p])
         /\ next[p] \in Nat /\ since[p] \in Nat /\ own[p] \in Nat /\ Len(log) \in Nat
         /\ since[p] <= Len(log) /\ own[p] <= Len(log)
         /\ pc[p] \in Working \cup {"idle", "failed"}
         /\ pc[p] \in {"read", "scrub", "pseudonymize", "destroy"} => key[p] \in Nat \ {0}
         /\ pc[p] = "collect" => next[p] \in DOMAIN Tables
BY DEF Shape

\* A step leaves an erasure where it was, or is one of its own.
Still(p) ==
  /\ pc'[p] = pc[p] /\ ids'[p] = ids[p] /\ next'[p] = next[p]
  /\ found'[p] = found[p] /\ since'[p] = since[p] /\ own'[p] = own[p]

\* An erasure moves by its own steps only.
LEMMA Movers ==
  ASSUME Shape, [Next]_vars, NEW p \in Eraser
  PROVE  Still(p) \/ Begin(p) \/ EraseOwner(p) \/ Fail(p)
<1> USE Domains DEF Still, store, locals, ghost, budget
<1>1. CASE UNCHANGED vars
  BY <1>1, Zenon DEF vars
<1>2. CASE Services
  BY <1>2, Zenon DEF Services, CreateRow, Emit, DeleteRow
<1>3. ASSUME NEW q \in Eraser, q # p, Begin(q) \/ EraseOwner(q) \/ Fail(q) PROVE Still(p)
  <2>1. CASE Begin(q)
    BY <1>3, <2>1, Zenon DEF Begin
  <2>2. CASE Collect(q)
    BY <1>3, <2>2, Zenon DEF Collect
  <2>3. CASE RecordErasure(q)
    BY <1>3, <2>3, Zenon DEF RecordErasure, Go
  <2>4. CASE EnsureRead(q) \/ EnsureInsert(q) \/ EnsureReread(q)
    BY <1>3, <2>4, Zenon DEF EnsureRead, EnsureInsert, EnsureReread
  <2>5. CASE RecordsForErasure(q)
    BY <1>3, <2>5, Zenon DEF RecordsForErasure, Go
  <2>6. CASE ScrubMetadata(q)
    BY <1>3, <2>6, Zenon DEF ScrubMetadata, Go
  <2>7. CASE Pseudonymize(q)
    <3>1. /\ next' = [next EXCEPT ![q] = @ + 1]
          /\ pc' = IF next[q] = Len(ids[q]) THEN [pc EXCEPT ![q] = "destroy"] ELSE pc
          /\ UNCHANGED <<ids, found, since, own>>
      BY <2>7, PseudonymizeRest, Zenon
    <3> QED
      BY <1>3, <3>1, Zenon
  <2>8. CASE Destroy(q)
    BY <1>3, <2>8, Zenon DEF Destroy, Go
  <2>9. CASE Fail(q)
    BY <1>3, <2>9, Zenon DEF Fail
  <2> QED
    BY <1>3, <2>1, <2>2, <2>3, <2>4, <2>5, <2>6, <2>7, <2>8, <2>9, Zenon DEF EraseOwner
<1> QED
  BY <1>1, <1>2, <1>3, Zenon DEF Next

\* The services act for the owner, on rows the owner has or had.
RowsKnown ==
  \A i \in 1 .. Len(log) :
    /\ log[i].actor.id \notin RowId
    /\ log[i].target.id \in RowId => log[i].target.id \in rows \cup released

\* What a step appends: a record of a service, which is late when an erasure is
\* past its reading, or the record of an erasure, which has no detail.
LEMMA Appended ==
  ASSUME Shape, [Next]_vars, NEW i \in 1 .. Len(log'), i \notin 1 .. Len(log)
  PROVE  /\ log'[i].actor.salt = 0 /\ log'[i].target.salt = 0
         /\ log'[i].actor.id \notin RowId
         /\ log'[i].target.id \in RowId => log'[i].target.id \in rows \cup released
         /\ \/ log'[i].detail.id = None
            \/ /\ UNCHANGED pc
               /\ (\E p \in Eraser : pc[p] \in {"scrub", "pseudonymize"}) => i \in late'
<1> USE TablesKnown DEF Shape
<1>1. ASSUME NEW r \in RowId, r \in rows, Audit(r)
      PROVE  /\ log'[i] = Record(OwnerId, r, Label)
             /\ (\E p \in Eraser : pc[p] \in {"scrub", "pseudonymize"}) => i \in late'
  BY <1>1 DEF Audit
<1>2. ASSUME NEW r \in RowId, Emit(r) \/ DeleteRow(r)
      PROVE  r \in rows /\ Audit(r) /\ UNCHANGED pc
  BY <1>2, Zenon DEF Emit, DeleteRow
<1>3. CASE \E r \in RowId : Emit(r) \/ DeleteRow(r)
  <2>1. PICK r \in RowId : Emit(r) \/ DeleteRow(r)
    BY <1>3, Zenon
  <2>2. r \in rows /\ Audit(r) /\ UNCHANGED pc
    BY <1>2, <2>1, Zenon
  <2>3. /\ log'[i] = Record(OwnerId, r, Label)
        /\ (\E p \in Eraser : pc[p] \in {"scrub", "pseudonymize"}) => i \in late'
    BY <1>1, <2>2, Zenon
  <2> QED
    BY <2>2, <2>3 DEF Record, Plain
<1>4. ASSUME NEW p \in Eraser, RecordErasure(p) PROVE log'[i] = Record(None, OwnerId, None)
  BY <1>4 DEF RecordErasure
<1>5. CASE \E p \in Eraser : RecordErasure(p)
  BY <1>4, <1>5 DEF Record, Plain
<1>6. ASSUME Len(log') = Len(log) PROVE FALSE
  BY <1>6, Zenon
<1>7. ASSUME NEW p \in Eraser, ScrubMetadata(p) PROVE FALSE
  BY <1>6, <1>7 DEF ScrubMetadata
<1>8. ASSUME NEW p \in Eraser, Pseudonymize(p) PROVE FALSE
  BY <1>6, <1>8, PseudonymizeLog, Zenon
<1>9. ASSUME UNCHANGED log PROVE FALSE
  BY <1>6, <1>9, Zenon
<1> QED
  BY <1>3, <1>5, <1>7, <1>8, <1>9, Zenon
     DEF Next, vars, store, Services, CreateRow, Begin, EraseOwner, Collect, EnsureRead,
         EnsureInsert, EnsureReread, RecordsForErasure, Destroy, Fail

\* A row stays or is released, and nothing is taken back.
LEMMA RowsRemain ==
  ASSUME [Next]_vars
  PROVE  /\ rows \cup released \subseteq rows' \cup released'
         /\ released \subseteq released' /\ late \subseteq late'
<1> USE DEF store, ghost
<1>1. ASSUME NEW r \in RowId, CreateRow(r) \/ Emit(r) \/ DeleteRow(r)
      PROVE  /\ rows \cup released \subseteq rows' \cup released'
             /\ released \subseteq released' /\ late \subseteq late'
  BY <1>1, Zenon DEF CreateRow, Emit, DeleteRow, Audit
<1>2. ASSUME NEW p \in Eraser, Begin(p) \/ EraseOwner(p) \/ Fail(p)
      PROVE  UNCHANGED <<rows, released, late>>
  BY <1>2, PseudonymizeRest, Zenon
     DEF Begin, EraseOwner, Collect, RecordErasure, EnsureRead, EnsureInsert, EnsureReread,
         RecordsForErasure, ScrubMetadata, Destroy, Fail
<1> QED
  BY <1>1, <1>2, Zenon DEF Next, Services, vars

\* No step makes a record name a row that neither is there nor was released.
LEMMA RowsKnownStep == Shape /\ RowsKnown /\ [Next]_vars => RowsKnown'
<1> SUFFICES ASSUME Shape, RowsKnown, [Next]_vars, NEW i \in 1 .. Len(log')
             PROVE  /\ log'[i].actor.id \notin RowId
                    /\ log'[i].target.id \in RowId => log'[i].target.id \in rows' \cup released'
  BY Zenon DEF RowsKnown
<1>1. rows \cup released \subseteq rows' \cup released'
  BY RowsRemain, Zenon
<1>2. CASE i \in 1 .. Len(log)
  BY <1>1, <1>2, ShapeStep, Zenon DEF RowsKnown, LogKept
<1>3. CASE i \notin 1 .. Len(log)
  BY <1>1, <1>3, Appended, Zenon
<1> QED
  BY <1>2, <1>3, Zenon

\* An erasure has the owner's identifier and those of the rows of the tables it
\* has read that the log of its start names; its own record names the owner.
CollectedSoFar(p) ==
  /\ pc[p] \in Working => Len(ids[p]) >= 1 /\ ids[p][1] = OwnerId
  /\ pc[p] \in Working /\ own[p] # 0 => log[own[p]].target.id = OwnerId
                                        /\ log[own[p]].actor.id \notin RowId
  /\ pc[p] = "collect" =>
       \A i \in 1 .. since[p], j \in 1 .. next[p] - 1 :
         log[i].target.id = Tables[j] /\ Tables[j] \notin released => Tables[j] \in Collected(p)
  /\ pc[p] \in Past =>
       \A i \in 1 .. since[p] :
         log[i].target.id \in RowId \ released => log[i].target.id \in Collected(p)
  /\ pc[p] \in Past \ {"pseudonymize", "destroy", "done"} => next[p] = 1

\* Another's step leaves what an erasure knows true.
LEMMA CollectedFrame ==
  ASSUME Shape, Shape', LogKept, NEW p \in Eraser, released \subseteq released',
         CollectedSoFar(p),
         ids'[p] = ids[p], since'[p] = since[p],
         pc[p] # "pseudonymize" => next'[p] = next[p],
         \/ own'[p] = own[p]
         \/ log'[own'[p]].target.id = OwnerId /\ log'[own'[p]].actor.id \notin RowId,
         \/ pc'[p] = pc[p]
         \/ pc[p] \in Past /\ pc'[p] \in {"destroy", "done"}
         \/ pc[p] \in Past \ {"pseudonymize", "destroy", "done"} /\ pc'[p] \in Past
         \/ pc'[p] = "failed"
  PROVE  CollectedSoFar(p)'
<1> USE LocalFacts DEF Past, Working
<1>1. Collected(p)' = Collected(p)
  BY Zenon DEF Collected
<1>2. \A i \in 1 .. Len(log) : /\ log'[i].target.id = log[i].target.id
                               /\ log'[i].actor.id = log[i].actor.id
  BY Zenon DEF LogKept
<1>3. CASE pc'[p] = "failed"
  BY <1>3, Zenon DEF CollectedSoFar
<1>4. CASE pc'[p] # "failed"
  <2>1. pc'[p] \in Working =>
          /\ Len(ids'[p]) >= 1 /\ ids'[p][1] = OwnerId
          /\ own'[p] # 0 => /\ log'[own'[p]].target.id = OwnerId
                            /\ log'[own'[p]].actor.id \notin RowId
    BY <1>2, <1>4 DEF CollectedSoFar
  <2>2. pc'[p] = "collect" =>
          \A i \in 1 .. since'[p], j \in 1 .. next'[p] - 1 :
            log'[i].target.id = Tables[j] /\ Tables[j] \notin released'
              => Tables[j] \in Collected(p)'
    <3>1. SUFFICES ASSUME pc'[p] = "collect", NEW i \in 1 .. since'[p], NEW j \in 1 .. next'[p] - 1,
                          log'[i].target.id = Tables[j], Tables[j] \notin released'
                   PROVE  Tables[j] \in Collected(p)
      BY <1>1, Zenon
    <3>2. pc[p] = "collect" /\ next'[p] = next[p]
      BY <3>1, ZenonT(60)
    <3>3. log[i].target.id = Tables[j] /\ Tables[j] \notin released
      BY <1>2, <3>1
    <3> QED
      BY <3>2, <3>3, Zenon DEF CollectedSoFar
  <2>3. pc'[p] \in Past =>
          \A i \in 1 .. since'[p] :
            log'[i].target.id \in RowId \ released' => log'[i].target.id \in Collected(p)'
    <3>1. SUFFICES ASSUME pc'[p] \in Past, NEW i \in 1 .. since'[p],
                          log'[i].target.id \in RowId \ released'
                   PROVE  log'[i].target.id \in Collected(p)
      BY <1>1, Zenon
    <3>2. pc[p] \in Past
      BY <1>4, <3>1, Zenon
    <3>3. log[i].target.id \in RowId \ released /\ log'[i].target.id = log[i].target.id
      BY <1>2, <3>1
    <3> QED
      BY <3>2, <3>3, Zenon DEF CollectedSoFar
  <2>4. pc'[p] \in Past \ {"pseudonymize", "destroy", "done"} => next'[p] = 1
    BY <1>4, Zenon DEF CollectedSoFar
  <2> QED
    BY <2>1, <2>2, <2>3, <2>4, ZenonT(60) DEF CollectedSoFar
<1> QED
  BY <1>3, <1>4, Zenon

\* Graph.Collect misses no row, whatever the others do between two tables.
LEMMA CollectedStep ==
  ASSUME Shape, RowsKnown, [Next]_vars, NEW p \in Eraser, CollectedSoFar(p)
  PROVE  CollectedSoFar(p)'
<1>0. Shape' /\ LogKept /\ released \subseteq released'
  BY ShapeStep, RowsRemain, Zenon
<1> USE DEF store, locals, ghost, budget
<1>1. CASE Still(p)
  BY <1>0, <1>1, CollectedFrame, Zenon DEF Still
<1>2. CASE Begin(p)
  <2>1. /\ pc'[p] = "collect" /\ ids'[p] = <<OwnerId>> /\ next'[p] = 1 /\ own'[p] = 0
    BY <1>2, Domains, Zenon DEF Begin
  <2> QED
    BY <2>1 DEF CollectedSoFar, Past, Working
<1>3. CASE Collect(p)
  <2>1. /\ pc[p] = "collect" /\ next[p] \in DOMAIN Tables /\ ids[p] \in Seq(GraphId)
        /\ UNCHANGED <<log, rows, released, since, own>>
        /\ ids'[p] = IF Tables[next[p]] \in rows THEN Append(ids[p], Tables[next[p]]) ELSE ids[p]
        /\ next'[p] = IF next[p] = Len(Tables) THEN 1 ELSE next[p] + 1
        /\ pc'[p] = IF next[p] = Len(Tables) THEN "record" ELSE "collect"
    BY <1>3, Domains, LocalFacts, Zenon DEF Collect
  <2>2. /\ Collected(p)' = Collected(p) \cup ({Tables[next[p]]} \cap rows)
        /\ Len(ids'[p]) >= Len(ids[p])
        /\ Len(ids[p]) >= 1 => ids'[p][1] = ids[p][1]
    <3>1. CASE Tables[next[p]] \in rows
      <4>1. ids'[p] = Append(ids[p], Tables[next[p]])
        BY <2>1, <3>1, Zenon
      <4>2. /\ Len(ids'[p]) = Len(ids[p]) + 1 /\ ids'[p][Len(ids[p]) + 1] = Tables[next[p]]
            /\ \A i \in 1 .. Len(ids[p]) : ids'[p][i] = ids[p][i]
            /\ DOMAIN ids'[p] = 1 .. Len(ids[p]) + 1 /\ DOMAIN ids[p] = 1 .. Len(ids[p])
            /\ Len(ids[p]) \in Nat
        BY <2>1, <4>1
      <4>3. \A x : x \in Collected(p)' <=> \E i \in 1 .. Len(ids[p]) + 1 : x = ids'[p][i]
        BY <4>2, Zenon DEF Collected
      <4>4. \A x : x \in Collected(p) <=> \E i \in 1 .. Len(ids[p]) : x = ids[p][i]
        BY <4>2, Zenon DEF Collected
      <4>5. \A i : i \in 1 .. Len(ids[p]) + 1 <=> i \in 1 .. Len(ids[p]) \/ i = Len(ids[p]) + 1
        BY <4>2
      <4>6. ASSUME NEW x PROVE x \in Collected(p)' <=> x \in Collected(p) \/ x = Tables[next[p]]
        <5>1. (\E i \in 1 .. Len(ids[p]) + 1 : x = ids'[p][i])
                <=> (\E i \in 1 .. Len(ids[p]) : x = ids[p][i]) \/ x = Tables[next[p]]
          BY <4>2, <4>5, Zenon
        <5> QED
          BY <4>3, <4>4, <5>1, Zenon
      <4>7. Collected(p)' = Collected(p) \cup {Tables[next[p]]}
        BY <4>6, Zenon
      <4> QED
        BY <3>1, <4>2, <4>7
    <3>2. CASE Tables[next[p]] \notin rows
      <4>1. ids'[p] = ids[p]
        BY <2>1, <3>2, Zenon
      <4>2. Collected(p)' = Collected(p)
        BY <4>1, Zenon DEF Collected
      <4> QED
        BY <2>1, <3>2, <4>1, <4>2
    <3> QED
      BY <3>1, <3>2, Zenon
  <2>3. \A i \in 1 .. since[p], j \in 1 .. next[p] :
          log[i].target.id = Tables[j] /\ Tables[j] \notin released => Tables[j] \in Collected(p)'
    <3>1. SUFFICES ASSUME NEW i \in 1 .. since[p], NEW j \in 1 .. next[p],
                          log[i].target.id = Tables[j], Tables[j] \notin released
                   PROVE  Tables[j] \in Collected(p)'
      BY Zenon
    <3>2. next[p] \in 1 .. Len(Tables) /\ Tables[j] \in RowId /\ i \in 1 .. Len(log)
      BY <2>1, TablesKnown, LocalFacts
    <3>3. CASE j = next[p]
      BY <2>2, <3>1, <3>2, <3>3, Zenon DEF RowsKnown
    <3>4. CASE j # next[p]
      <4>1. j \in 1 .. next[p] - 1
        BY <3>2, <3>4
      <4> QED
        BY <2>1, <2>2, <3>1, <4>1, Zenon DEF CollectedSoFar
    <3> QED
      BY <3>3, <3>4, Zenon
  <2>4. CASE next[p] = Len(Tables)
    <3>1. \A i \in 1 .. since[p] :
            log[i].target.id \in RowId \ released => log[i].target.id \in Collected(p)'
      BY <2>3, <2>4, TablesKnown, ZenonT(60) DEF RowId
    <3> QED
      BY <2>1, <2>2, <2>4, <3>1 DEF CollectedSoFar, Past, Working
  <2>5. CASE next[p] # Len(Tables)
    BY <2>1, <2>2, <2>3, <2>5, TablesKnown, LocalFacts DEF CollectedSoFar, Past, Working
  <2> QED
    BY <2>4, <2>5, Zenon
<1>4. CASE RecordErasure(p)
  <2>1. /\ pc[p] = "record" /\ pc'[p] = "ensure" /\ UNCHANGED <<ids, next, since, released>>
        /\ own'[p] = Len(log) + 1 /\ log'[Len(log) + 1] = Record(None, OwnerId, None)
    BY <1>4, LogFacts, Domains DEF RecordErasure, Go
  <2>2. /\ log'[own'[p]].target.id = OwnerId /\ log'[own'[p]].actor.id \notin RowId
    BY <2>1, TablesKnown DEF Record, Plain
  <2> QED
    BY <1>0, <2>1, <2>2, CollectedFrame, Zenon DEF Past
<1>5. CASE EnsureRead(p) \/ EnsureInsert(p) \/ EnsureReread(p)
  <2>1. /\ pc[p] \in {"ensure", "insert", "reread"}
        /\ pc'[p] \in {"insert", "reread", "read", "failed"}
        /\ UNCHANGED <<ids, next, since, own>>
    BY <1>5, Domains, Zenon DEF EnsureRead, EnsureInsert, EnsureReread
  <2> QED
    BY <1>0, <2>1, CollectedFrame, Zenon DEF Past
<1>6. CASE RecordsForErasure(p) \/ ScrubMetadata(p) \/ Destroy(p)
  <2>1. /\ \/ pc[p] \in {"read", "scrub"} /\ pc'[p] \in {"scrub", "pseudonymize"}
           \/ pc[p] = "destroy" /\ pc'[p] = "done"
        /\ UNCHANGED <<ids, next, since, own>>
    BY <1>6, Domains, Zenon DEF RecordsForErasure, ScrubMetadata, Destroy, Go
  <2> QED
    BY <1>0, <2>1, CollectedFrame, Zenon DEF Past
<1>7. CASE Pseudonymize(p)
  <2>1. /\ pc[p] = "pseudonymize" /\ pc'[p] \in {"pseudonymize", "destroy"}
        /\ UNCHANGED <<ids, since, own, released>>
    BY <1>7, PseudonymizeRest, Domains, Zenon
  <2> QED
    BY <1>0, <2>1, CollectedFrame, Zenon DEF Past
<1>8. CASE Fail(p)
  BY <1>8, Domains, Zenon DEF Fail, CollectedSoFar, Past, Working
<1> QED
  BY <1>1, <1>2, <1>3, <1>4, <1>5, <1>6, <1>7, <1>8, Movers, Zenon DEF EraseOwner

\* No record an erasure answers for names, in the clear, an identifier that the
\* erasure has been over.
Rewritten(p) ==
  /\ pc[p] = "pseudonymize" => next[p] \in 1 .. Len(ids[p])
  /\ \A i \in Answered(p), j \in 1 .. Len(ids[p]) :
       pc[p] \in {"destroy", "done"} \/ (pc[p] = "pseudonymize" /\ j < next[p]) =>
         /\ log[i].actor.id = ids[p][j] => log[i].actor.salt # 0
         /\ log[i].target.id = ids[p][j] => log[i].target.salt # 0

\* The pass over the columns leaves no identifier behind that it has been over.
LEMMA RewrittenStep ==
  ASSUME Shape, [Next]_vars, NEW p \in Eraser, CollectedSoFar(p), Rewritten(p)
  PROVE  Rewritten(p)'
<1>0. Shape' /\ LogKept
  BY ShapeStep, Zenon
<1>a. Answered(p) \subseteq 1 .. Len(log)
  BY LocalFacts DEF Answered
<1> USE DEF store, locals, ghost, budget
<1>1. CASE Still(p) \/ Destroy(p)
  <2>1. /\ pc'[p] = pc[p] \/ (pc[p] = "destroy" /\ pc'[p] = "done")
        /\ ids'[p] = ids[p] /\ next'[p] = next[p] /\ since'[p] = since[p] /\ own'[p] = own[p]
    BY <1>1, Domains, Zenon DEF Still, Destroy, Go
  <2>2. Answered(p)' = Answered(p)
    BY <2>1, Zenon DEF Answered
  <2>3. \A i \in Answered(p) :
          /\ log'[i].actor.id = log[i].actor.id /\ log'[i].target.id = log[i].target.id
          /\ log[i].actor.salt # 0 => log'[i].actor.salt # 0
          /\ log[i].target.salt # 0 => log'[i].target.salt # 0
    BY <1>0, <1>a, Zenon DEF LogKept
  <2> QED
    BY <2>1, <2>2, <2>3 DEF Rewritten
<1>2. CASE pc'[p] \notin {"pseudonymize", "destroy", "done"}
  BY <1>2, Zenon DEF Rewritten
<1>3. CASE ScrubMetadata(p)
  <2>1. pc'[p] = "pseudonymize" /\ UNCHANGED <<ids, next, since, own>> /\ pc[p] = "scrub"
    BY <1>3, Domains, Zenon DEF ScrubMetadata, Go
  <2>2. next[p] = 1 /\ Len(ids[p]) >= 1
    BY <2>1, Zenon DEF CollectedSoFar, Past, Working
  <2>3. Answered(p) \subseteq 1 .. Len(log) /\ 1 \in 1 .. Len(ids[p])
    BY <1>a, <2>2, LocalFacts
  <2>4. \A j \in 1 .. Len(ids[p]) : ~(j < 1)
    BY LocalFacts
  <2> QED
    BY <2>1, <2>2, <2>3, <2>4, Zenon DEF Rewritten
<1>4. CASE Pseudonymize(p)
  <2> DEFINE id == ids[p][next[p]]
  <2>1. /\ pc[p] = "pseudonymize" /\ UNCHANGED <<ids, since, own>>
        /\ next'[p] = next[p] + 1
        /\ pc'[p] = IF next[p] = Len(ids[p]) THEN "destroy" ELSE "pseudonymize"
    BY <1>4, PseudonymizeRest, Domains, Zenon
  <2>2. next[p] \in 1 .. Len(ids[p]) /\ Len(ids[p]) \in Nat /\ key[p] \in Nat \ {0}
    BY <2>1, LocalFacts, Zenon DEF Rewritten
  <2>3. Answered(p)' = Answered(p)
    BY <2>1, Zenon DEF Answered
  <2>4. ASSUME NEW i \in Answered(p)
        PROVE  /\ log'[i].actor = Pseudonymized(log[i].actor, id, key[p])
               /\ log'[i].target = Pseudonymized(log[i].target, id, key[p])
               /\ log[i].actor \in Value /\ log[i].target \in Value
    <3>1. i \in 1 .. Len(log) /\ log[i] \in Rec
      BY <1>a, LogFacts, Zenon
    <3>2. /\ log'[i].actor = Pseudonymized(log[i].actor, id, key[p])
          /\ log'[i].target = Pseudonymized(log[i].target, id, key[p])
      BY <1>4, <3>1, PseudonymizeLog, Zenon
    <3> QED
      BY <1>a, <3>2, LogFacts, Zenon
  <2> HIDE DEF id
  <2>5. ASSUME NEW i \in Answered(p), NEW j \in 1 .. Len(ids[p]), j < next[p] + 1
        PROVE  /\ log'[i].actor.id = ids[p][j] => log'[i].actor.salt # 0
               /\ log'[i].target.id = ids[p][j] => log'[i].target.salt # 0
    <3>1. /\ log'[i].actor.id = log[i].actor.id
          /\ log[i].actor.salt # 0 => log'[i].actor.salt # 0
          /\ log[i].actor.id = id => log'[i].actor.salt # 0
      <4>1. log[i].actor \in Value /\ key[p] \in Nat \ {0} /\ log'[i].actor = Pseudonymized(log[i].actor, id, key[p])
        BY <2>2, <2>4, Zenon
      <4>2. /\ Pseudonymized(log[i].actor, id, key[p]).id = log[i].actor.id
            /\ log[i].actor.salt # 0 => Pseudonymized(log[i].actor, id, key[p]).salt # 0
            /\ log[i].actor.id = id => Pseudonymized(log[i].actor, id, key[p]).salt # 0
        BY <4>1, ValueRewritten, ZenonT(60)
      <4> QED
        BY <4>1, <4>2, Zenon
    <3>2. /\ log'[i].target.id = log[i].target.id
          /\ log[i].target.salt # 0 => log'[i].target.salt # 0
          /\ log[i].target.id = id => log'[i].target.salt # 0
      <4>1. log[i].target \in Value /\ key[p] \in Nat \ {0} /\ log'[i].target = Pseudonymized(log[i].target, id, key[p])
        BY <2>2, <2>4, Zenon
      <4>2. /\ Pseudonymized(log[i].target, id, key[p]).id = log[i].target.id
            /\ log[i].target.salt # 0 => Pseudonymized(log[i].target, id, key[p]).salt # 0
            /\ log[i].target.id = id => Pseudonymized(log[i].target, id, key[p]).salt # 0
        BY <4>1, ValueRewritten, ZenonT(60)
      <4> QED
        BY <4>1, <4>2, Zenon
    <3>3. CASE j < next[p]
      <4>1. /\ log[i].actor.id = ids[p][j] => log[i].actor.salt # 0
            /\ log[i].target.id = ids[p][j] => log[i].target.salt # 0
        BY <2>1, <3>3, Zenon DEF Rewritten
      <4> QED
        BY <3>1, <3>2, <4>1, Zenon
    <3>4. CASE j = next[p]
      BY <3>1, <3>2, <3>4, Zenon DEF id
    <3>5. j < next[p] \/ j = next[p]
      BY <2>2, <2>5, IndexIsNat, NextIndex, Zenon
    <3> QED
      BY <3>3, <3>4, <3>5, Zenon
  <2> QED
    BY <2>1, <2>2, <2>3, <2>5 DEF Rewritten
<1>5. ASSUME EraseOwner(p) \/ Begin(p) \/ Fail(p),
             ~(ScrubMetadata(p) \/ Pseudonymize(p) \/ Destroy(p))
      PROVE  pc'[p] \notin {"pseudonymize", "destroy", "done"}
  BY <1>5, Domains, ZenonT(60)
     DEF EraseOwner, Begin, Collect, RecordErasure, EnsureRead, EnsureInsert, EnsureReread,
         RecordsForErasure, Fail, Go
<1> QED
  BY <1>1, <1>2, <1>3, <1>4, <1>5, Movers, Zenon DEF EraseOwner

\* A record with a detail that scrubDetails would change.
Open(i) == log[i].detail.id # None /\ log[i].detail.salt = 0

\* From its reading to the end of its passes an erasure has at hand, or has
\* scrubbed, every record that names what it collected.
Scrubbed(p) ==
  \A i \in (1 .. Len(log)) \ late :
    Names(log[i], Collected(p)) /\ Open(i) =>
      /\ pc[p] = "scrub" => i \in found[p]
      /\ pc[p] # "pseudonymize"

\* A record names no more than before, and a scrubbed detail stays scrubbed.
LEMMA NamesLess ==
  ASSUME LogKept, NEW i \in 1 .. Len(log), NEW S
  PROVE  /\ Names(log'[i], S) => Names(log[i], S)
         /\ Open(i)' => Open(i)
BY Zenon DEF LogKept, Names, IsTombstone, Open

\* What RecordsForErasure read stays all there is to scrub.
LEMMA ScrubbedStep ==
  ASSUME Shape, [Next]_vars, NEW p \in Eraser, Scrubbed(p)
  PROVE  Scrubbed(p)'
<1>0. Shape' /\ LogKept /\ late \subseteq late'
  BY ShapeStep, RowsRemain, Zenon
<1> USE DEF store, locals, ghost, budget
<1>1. CASE pc'[p] \notin {"scrub", "pseudonymize"}
  BY <1>1, Zenon DEF Scrubbed
<1>2. CASE (Still(p) \/ Pseudonymize(p)) /\ pc'[p] \in {"scrub", "pseudonymize"}
  <2>1. pc'[p] = pc[p] /\ ids'[p] = ids[p] /\ found'[p] = found[p]
    BY <1>2, PseudonymizeRest, Domains, ZenonT(60) DEF Still
  <2>2. Collected(p)' = Collected(p)
    BY <2>1, Zenon DEF Collected
  <2>3. ASSUME NEW i \in (1 .. Len(log')) \ late', Names(log'[i], Collected(p)), Open(i)'
        PROVE  (pc[p] = "scrub" => i \in found[p]) /\ pc[p] # "pseudonymize"
    <3>1. CASE i \in 1 .. Len(log)
      BY <1>0, <2>3, <3>1, NamesLess, Zenon DEF Scrubbed
    <3>2. CASE i \notin 1 .. Len(log)
      BY <1>2, <2>1, <2>3, <3>2, Appended, Zenon DEF Open
    <3> QED
      BY <3>1, <3>2, Zenon
  <2> QED
    BY <2>1, <2>2, <2>3, Zenon DEF Scrubbed
<1>3. CASE RecordsForErasure(p)
  <2>1. /\ pc'[p] = "scrub" /\ UNCHANGED <<log, ids, late>>
        /\ found'[p] = {i \in DOMAIN log : /\ Names(log[i], Collected(p))
                                           /\ log[i].detail.id # None
                                           /\ ~IsTombstone(log[i].detail)}
    BY <1>3, Domains, Zenon DEF RecordsForErasure, Go
  <2>2. Collected(p)' = Collected(p)
    BY <2>1, Zenon DEF Collected
  <2>3. \A i \in 1 .. Len(log) : Names(log[i], Collected(p)) /\ Open(i) => i \in found'[p]
    BY <2>1, LogFacts, Zenon DEF Open, IsTombstone
  <2> QED
    BY <2>1, <2>2, <2>3, Zenon DEF Scrubbed, Open
<1>4. CASE ScrubMetadata(p)
  <2>0. DOMAIN log = 1 .. Len(log) /\ Len(log) \in Nat /\ \A i \in 1 .. Len(log) : log[i] \in Rec
    BY LogFacts, Zenon
  <2>1. /\ pc[p] = "scrub" /\ key[p] \in Nat \ {0} /\ UNCHANGED <<ids, late>>
    BY <1>4, Domains, LocalFacts, Zenon DEF ScrubMetadata, Go
  <2>5. log' = [i \in 1 .. Len(log) |->
                  IF i \in found[p] THEN [log[i] EXCEPT !.detail = Tombstone(key[p], @.id)]
                  ELSE log[i]]
    BY <1>4, <2>0, Zenon DEF ScrubMetadata
  <2>6. Len(log') = Len(log)
    BY <2>0, <2>5
  <2>2. Collected(p)' = Collected(p)
    BY <2>1, Zenon DEF Collected
  <2>3. \A i \in (1 .. Len(log)) \ late : i \in found[p] => ~Open(i)'
    BY <2>0, <2>1, <2>5, Zenon DEF Open, Tombstone, Rec
  <2>4. ASSUME NEW i \in (1 .. Len(log)) \ late, Names(log'[i], Collected(p)), Open(i)'
        PROVE  FALSE
    <3>1. Names(log[i], Collected(p)) /\ Open(i)
      BY <1>0, <2>4, NamesLess, Zenon
    <3> QED
      BY <2>1, <2>3, <2>4, <3>1, Zenon DEF Scrubbed
  <2> QED
    BY <2>1, <2>2, <2>4, <2>6, Zenon DEF Scrubbed
<1>5. ASSUME EraseOwner(p) \/ Begin(p) \/ Fail(p),
             ~(RecordsForErasure(p) \/ ScrubMetadata(p) \/ Pseudonymize(p))
      PROVE  pc'[p] \notin {"scrub", "pseudonymize"}
  BY <1>5, Domains, ZenonT(60)
     DEF EraseOwner, Begin, Collect, RecordErasure, EnsureRead, EnsureInsert, EnsureReread,
         Destroy, Fail, Go
<1> QED
  BY <1>1, <1>2, <1>3, <1>4, <1>5, Movers, Zenon DEF EraseOwner

\* The same fact as NoHalfErasedRecord, by positions.
LEMMA HalfErased ==
  ASSUME Shape
  PROVE  NoHalfErasedRecord <=>
           \A i \in (1 .. Len(log)) \ late :
             log[i].actor.salt # 0 \/ log[i].target.salt # 0 => ~Open(i)
BY LogFacts, Zenon DEF NoHalfErasedRecord, Open, IsTombstone

\* No step leaves a record half erased.
LEMMA HalfErasedStep ==
  ASSUME Shape, [Next]_vars, NoHalfErasedRecord,
         \A p \in Eraser : Scrubbed(p) /\ Rewritten(p)
  PROVE  NoHalfErasedRecord'
<1>0. Shape' /\ LogKept /\ late \subseteq late'
  BY ShapeStep, RowsRemain, Zenon
<1> SUFFICES ASSUME NEW i \in (1 .. Len(log')) \ late',
                    log'[i].actor.salt # 0 \/ log'[i].target.salt # 0, Open(i)'
             PROVE  FALSE
  <2>1. DOMAIN log' = 1 .. Len(log')
    <3>1. log' \in Seq(Rec)
      BY <1>0, Zenon DEF Shape
    <3> QED
      BY <3>1
  <2> QED
    BY <2>1, Zenon DEF NoHalfErasedRecord, Open, IsTombstone
<1>1. i \in (1 .. Len(log)) \ late /\ Open(i)
  BY <1>0, Appended, NamesLess, Zenon
<1>2. log[i].actor.salt = 0 /\ log[i].target.salt = 0
  BY <1>1, HalfErased, LogFacts, Zenon DEF Value
<1>3. ASSUME NEW p \in Eraser, Pseudonymize(p) PROVE FALSE
  <2> DEFINE id == ids[p][next[p]]
  <2>1. pc[p] = "pseudonymize" /\ next[p] \in 1 .. Len(ids[p]) /\ id \in Collected(p)
    BY <1>3, PseudonymizeRest, LocalFacts, Zenon DEF Rewritten, Collected
  <2>2. /\ log'[i].actor = Pseudonymized(log[i].actor, id, key[p])
        /\ log'[i].target = Pseudonymized(log[i].target, id, key[p])
        /\ log[i].actor \in Value /\ log[i].target \in Value
    <3>1. log[i] \in Rec
      BY <1>1, LogFacts, Zenon
    <3> QED
      BY <1>1, <1>3, <3>1, PseudonymizeLog, Zenon DEF Rec
  <2>3. key[p] \in Nat \ {0}
    BY <2>1, LocalFacts, Zenon
  <2> HIDE DEF id
  <2>4. log[i].actor.id = id \/ log[i].target.id = id
    BY <1>2, <2>2, <2>3, ValueRewritten, ZenonT(60)
  <2>5. Names(log[i], Collected(p))
    BY <1>2, <2>1, <2>4, Zenon DEF Names, IsTombstone
  <2> QED
    BY <1>1, <2>1, <2>5, Zenon DEF Scrubbed
<1>4. ASSUME ~ \E p \in Eraser : Pseudonymize(p)
      PROVE  log'[i].actor = log[i].actor /\ log'[i].target = log[i].target
  <2>1. CASE UNCHANGED log
    BY <2>1, Zenon
  <2>2. CASE \E r \in RowId : Audit(r)
    BY <1>1, <2>2, LogFacts DEF Audit
  <2>3. ASSUME NEW p \in Eraser, RecordErasure(p)
        PROVE  log'[i].actor = log[i].actor /\ log'[i].target = log[i].target
    BY <1>1, <2>3, LogFacts DEF RecordErasure
  <2>4. ASSUME NEW p \in Eraser, ScrubMetadata(p)
        PROVE  log'[i].actor = log[i].actor /\ log'[i].target = log[i].target
    <3>1. log'[i] = IF i \in found[p] THEN [log[i] EXCEPT !.detail = Tombstone(key[p], @.id)]
                    ELSE log[i]
      BY <1>1, <2>4, LogFacts, Zenon DEF ScrubMetadata
    <3>2. log[i] \in Rec
      BY <1>1, LogFacts, Zenon
    <3> QED
      BY <3>1, <3>2, Zenon DEF Rec
  <2> QED
    BY <1>4, <2>1, <2>2, <2>3, <2>4, Zenon
       DEF Next, vars, store, Services, CreateRow, Emit, DeleteRow, Begin, EraseOwner, Collect,
           EnsureRead, EnsureInsert, EnsureReread, RecordsForErasure, Destroy, Fail
<1> QED
  BY <1>2, <1>3, <1>4, Zenon

\* The inductive invariant of an erasure.
ErasureInv ==
  /\ Shape /\ RowsKnown /\ NoHalfErasedRecord
  /\ \A p \in Eraser : CollectedSoFar(p) /\ Rewritten(p) /\ Scrubbed(p)

\* The invariant holds in every behaviour.
LEMMA ErasureInductive == Spec => []ErasureInv
<1>1. Init => ErasureInv
  <2> SUFFICES ASSUME Init PROVE ErasureInv
    BY Zenon
  <2>1. Record(Admin, OwnerId, Label) \in Rec
    BY RecordType, Zenon DEF Identifier, GraphId
  <2>2. log \in Seq(Rec) /\ Len(log) = 1 /\ log[1] = Record(Admin, OwnerId, Label)
    BY <2>1 DEF Init
  <2>3. Shape
    BY <2>2 DEF Init, Shape, Working, Past
  <2>4. RowsKnown
    BY <2>2, TablesKnown DEF RowsKnown, Record, Plain
  <2>5. NoHalfErasedRecord
    BY <2>2, <2>3, HalfErased DEF Record, Plain
  <2>6. \A p \in Eraser : pc[p] = "idle"
    BY Zenon DEF Init
  <2> QED
    BY <2>3, <2>4, <2>5, <2>6, ZenonT(60) DEF ErasureInv, CollectedSoFar, Rewritten, Scrubbed, Working, Past
<1>2. ErasureInv /\ [Next]_vars => ErasureInv'
  <2> SUFFICES ASSUME ErasureInv, [Next]_vars PROVE ErasureInv'
    BY Zenon
  <2> USE DEF ErasureInv
  <2>1. Shape' /\ RowsKnown'
    BY ShapeStep, RowsKnownStep, Zenon
  <2>2. NoHalfErasedRecord'
    BY HalfErasedStep, Zenon
  <2>3. \A p \in Eraser : (CollectedSoFar(p) /\ Rewritten(p) /\ Scrubbed(p))'
    BY CollectedStep, RewrittenStep, ScrubbedStep, Zenon
  <2> QED
    BY <2>1, <2>2, <2>3, Zenon
<1> QED
  BY <1>1, <1>2, PTL DEF Spec

\* scrubMetadata before the column pass: whatever erasures interleave, fail or
\* crash, no record they could have read is left half erased.
THEOREM NothingHalfErased == Spec => []NoHalfErasedRecord
<1>1. ErasureInv => NoHalfErasedRecord
  BY Zenon DEF ErasureInv
<1> QED
  BY <1>1, ErasureInductive, PTL

\* EraseOwner keeps its promise for any number of concurrent erasures, tables
\* and records: what it answers for names neither the owner nor a row kept.
THEOREM ErasureIsComplete == Spec => []ColumnsErased
<1>1. ErasureInv => ColumnsErased
  <2> SUFFICES ASSUME ErasureInv, NEW p \in Eraser, pc[p] = "done", NEW i \in Answered(p),
                      NEW v \in {log[i].actor, log[i].target}, v.salt = 0,
                      v.id \in GraphId \ released
               PROVE  FALSE
    BY Zenon DEF ColumnsErased, Names, IsTombstone
  <2> USE DEF ErasureInv
  <2>1. i \in 1 .. Len(log)
    BY LocalFacts DEF Answered
  <2>2. \A j \in 1 .. Len(ids[p]) : v.id # ids[p][j]
    BY Zenon DEF Rewritten
  <2>3. v.id # OwnerId
    <3>1. Len(ids[p]) >= 1 /\ ids[p][1] = OwnerId
      BY Zenon DEF CollectedSoFar, Working, Past
    <3>2. 1 \in 1 .. Len(ids[p])
      <4>1. Len(ids[p]) \in Nat
        BY LocalFacts, Zenon
      <4> QED
        BY <3>1, <4>1
    <3> QED
      BY <2>2, <3>1, <3>2, Zenon
  <2>4. v.id \in RowId
    BY <2>3, Zenon DEF GraphId
  <2>5. v = log[i].target
    BY <2>1, <2>4, Zenon DEF RowsKnown
  <2>6. i \in 1 .. since[p]
    BY <2>1, <2>3, <2>5, Zenon DEF Answered, CollectedSoFar, Working, Past
  <2>7. v.id \in Collected(p)
    BY <2>4, <2>5, <2>6, Zenon DEF CollectedSoFar, Past
  <2>8. DOMAIN ids[p] = 1 .. Len(ids[p])
    BY LocalFacts, Zenon
  <2> QED
    BY <2>2, <2>7, <2>8, Zenon DEF Collected
<1> QED
  BY <1>1, ErasureInductive, PTL

================================================================================
