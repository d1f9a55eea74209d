---------------------------- MODULE Failover_proofs ----------------------------
(***************************************************************************)
(* Theorems about Failover, for any number of instances and requests and   *)
(* any limit; about MemoryStore, for any keys, lifetimes and sweep         *)
(* interval; and about Retention, for any number of replicas, any policy,  *)
(* both storage engines, an unbounded clock and any number of failures.    *)
(***************************************************************************)
EXTENDS MCFailover, FiniteSetTheorems, TLAPS

(***************************************************************************)
(* The inductive invariant.                                                *)
(***************************************************************************)
\* The part of the types the argument rests on.
Shape ==
  /\ shared \in Nat
  /\ memory \in [Instance -> Nat]
  /\ home \in [Req -> Instance]

At(M, i) == {r \in M : home[r] = i}

\* S holds no more requests than a counter has counted, nor than the limit.
Within(S, count) ==
  IsFiniteSet(S) /\ Cardinality(S) <= count /\ Cardinality(S) <= Limit

\* The requests let through are those the primary let through and those the
\* fallbacks did, each within its own count.
Shared(P, M) ==
  /\ admitted = P \cup M
  /\ Within(P, shared)
  /\ \A i \in Instance : Within(At(M, i), memory[i])

FlapInv == Shape /\ \E P, M \in SUBSET Req : Shared(P, M)

(***************************************************************************)
(* Counting.                                                               *)
(***************************************************************************)
\* One more request, counted before it was compared with the limit.
LEMMA OneMore ==
  ASSUME NEW S, NEW r, NEW count \in Nat, Within(S, count), count + 1 <= Limit
  PROVE Within(S \cup {r}, count + 1)
<1>1. Cardinality(S) \in Nat /\ IsFiniteSet(S)
  BY FS_CardinalityType, Zenon DEF Within
<1>2. /\ IsFiniteSet(S \cup {r})
      /\ Cardinality(S \cup {r}) = IF r \in S THEN Cardinality(S) ELSE Cardinality(S) + 1
  BY <1>1, FS_AddElement, ZenonT(60)
<1>3. QED
  BY <1>1, <1>2, LimitAssumption DEF Within

\* A counter that has gone on.
LEMMA GoesOn ==
  ASSUME NEW S, NEW count \in Nat, Within(S, count)
  PROVE Within(S, count + 1)
BY FS_CardinalityType DEF Within

\* Two sets within the limit are together within twice the limit.
LEMMA TwoSets ==
  ASSUME NEW S, NEW T, NEW U, NEW m \in Nat, NEW n \in Nat,
         Within(S, m), Within(T, n), U \subseteq S \cup T
  PROVE Cardinality(U) <= 2 * Limit
<1>1. /\ IsFiniteSet(S) /\ IsFiniteSet(T)
      /\ Cardinality(S) \in Nat /\ Cardinality(T) \in Nat
  BY FS_CardinalityType, Zenon DEF Within
<1>2. /\ IsFiniteSet(S \cup T)
      /\ Cardinality(S \cup T) = Cardinality(S) + Cardinality(T) - Cardinality(S \cap T)
  BY <1>1, FS_Union, ZenonT(60)
<1>3. Cardinality(S \cap T) \in Nat /\ Cardinality(S \cup T) \in Nat
  BY <1>1, <1>2, FS_Intersection, FS_CardinalityType, ZenonT(60)
<1>4. IsFiniteSet(U) /\ Cardinality(U) <= Cardinality(S \cup T) /\ Cardinality(U) \in Nat
  BY <1>2, FS_Subset, FS_CardinalityType, ZenonT(60)
<1>5. QED
  BY SMTT(30), <1>1, <1>2, <1>3, <1>4, LimitAssumption DEF Within

(***************************************************************************)
(* Every step keeps it.                                                    *)
(***************************************************************************)
\* Nothing is counted and nothing let through.
LEMMA FlapInit == Init => FlapInv
<1> SUFFICES ASSUME Init PROVE FlapInv
  BY Zenon
<1>1. \A i \in Instance : At({}, i) = {}
  BY Zenon DEF At
<1>2. Within({}, 0)
  BY FS_EmptySet, LimitAssumption DEF Within
<1>3. Shared({}, {})
  BY <1>1, <1>2, ZenonT(60) DEF Shared, Init
<1>4. QED
  BY <1>3, ZenonT(60) DEF FlapInv, Shape, Init

\* A step that lets nothing through and counts forwards.
LEMMA CountsForward ==
  ASSUME FlapInv, UNCHANGED <<memory, home, admitted>>, shared' \in {shared, shared + 1}
  PROVE FlapInv'
<1>1. PICK P \in SUBSET Req, M \in SUBSET Req : Shared(P, M)
  BY Zenon DEF FlapInv
<1>2. Within(P, shared')
  BY <1>1, GoesOn, ZenonT(60) DEF Shared, FlapInv, Shape
<1>3. \A i \in Instance : At(M, i)' = At(M, i)
  BY Zenon DEF At
<1>4. Shared(P, M)'
  BY <1>1, <1>2, <1>3, ZenonT(60) DEF Shared, Within
<1>5. QED
  BY <1>4 DEF FlapInv, Shape

\* The primary lets a request through.
LEMMA PrimaryStep == ASSUME FlapInv, NEW r \in Req, PrimaryAnswers(r) PROVE FlapInv'
<1>1. CASE shared' <= Limit
  <2>1. PICK P \in SUBSET Req, M \in SUBSET Req : Shared(P, M)
    BY Zenon DEF FlapInv
  <2>2. Within(P \cup {r}, shared')
    BY <1>1, <2>1, OneMore, ZenonT(60) DEF Shared, FlapInv, Shape, PrimaryAnswers
  <2>3. \A i \in Instance : At(M, i)' = At(M, i)
    BY Zenon DEF At, PrimaryAnswers
  <2>4. admitted' = (P \cup {r}) \cup M
    BY <1>1, <2>1, ZenonT(60) DEF Shared, PrimaryAnswers
  <2>5. Shared(P \cup {r}, M)'
    BY <2>1, <2>2, <2>3, <2>4, ZenonT(60) DEF Shared, Within, PrimaryAnswers
  <2>6. QED
    BY <2>5 DEF FlapInv, Shape, PrimaryAnswers
<1>2. CASE ~(shared' <= Limit)
  BY <1>2, CountsForward, Zenon DEF PrimaryAnswers
<1>3. QED
  BY <1>1, <1>2, ZenonT(60)

\* A fallback counts a request, and lets it through or not.
LEMMA FallbackStep == ASSUME FlapInv, NEW r \in Req, Fallback(r) PROVE FlapInv'
<1> DEFINE h == home[r]
<1>1. PICK P \in SUBSET Req, M \in SUBSET Req : Shared(P, M)
  BY Zenon DEF FlapInv
<1>2. h \in Instance /\ memory[h] \in Nat
  BY Zenon DEF FlapInv, Shape
<1>3. CASE r \in cancelled
  BY <1>3, CountsForward, ZenonT(60) DEF Fallback
<1>4. CASE r \notin cancelled
  <2>1. memory' = [memory EXCEPT ![h] = @ + 1] /\ UNCHANGED <<shared, home>>
    BY <1>4, Zenon DEF Fallback
  <2>2. memory'[h] = memory[h] + 1 /\ \A i \in Instance \ {h} : memory'[i] = memory[i]
    BY <1>2, <2>1, ZenonT(60) DEF FlapInv, Shape
  <2>3. Shape'
    BY <2>1 DEF FlapInv, Shape
  <2>4. CASE memory'[h] <= Limit
    <3> DEFINE N == M \cup {r}
    <3>1. At(N, h) = At(M, h) \cup {r} /\ \A i \in Instance \ {h} : At(N, i) = At(M, i)
      BY Zenon DEF At
    <3>2. Within(At(N, h), memory'[h])
      <4>1. Within(At(M, h), memory[h]) /\ memory[h] + 1 <= Limit
        BY <1>1, <1>2, <2>2, <2>4, ZenonT(60) DEF Shared
      <4>2. Within(At(M, h) \cup {r}, memory[h] + 1)
        BY <1>2, <4>1, OneMore, Zenon
      <4>3. QED
        BY <2>2, <3>1, <4>2, ZenonT(60)
    <3>3. \A i \in Instance : Within(At(N, i), memory'[i])
      BY <1>1, <2>2, <3>1, <3>2, Zenon DEF Shared
    <3>4. \A i \in Instance : At(N, i)' = At(N, i)
      BY <2>1, Zenon DEF At
    <3>5. admitted' = P \cup N
      BY <1>1, <1>4, <2>4, Zenon DEF Shared, Fallback
    <3>6. Shared(P, N)'
      BY <1>1, <2>1, <3>3, <3>4, <3>5, ZenonT(60) DEF Shared, Within
    <3>7. QED
      BY <2>3, <3>6, ZenonT(60) DEF FlapInv
  <2>5. CASE ~(memory'[h] <= Limit)
    <3>1. \A i \in Instance : Within(At(M, i), memory'[i])
      BY <1>1, <1>2, <2>2, GoesOn, Zenon DEF Shared
    <3>2. \A i \in Instance : At(M, i)' = At(M, i)
      BY <2>1, Zenon DEF At
    <3>3. admitted' = admitted
      BY <1>4, <2>5, Zenon DEF Fallback
    <3>4. Shared(P, M)'
      BY <1>1, <2>1, <3>1, <3>2, <3>3, ZenonT(60) DEF Shared, Within
    <3>5. QED
      BY <2>3, <3>4, Zenon DEF FlapInv
  <2>6. QED
    BY <2>4, <2>5, ZenonT(60)
<1>5. QED
  BY <1>3, <1>4, Zenon

\* Every other step leaves the counts and the requests let through alone.
LEMMA FlapStep == FlapInv /\ [Next]_vars => FlapInv'
<1> SUFFICES ASSUME FlapInv, [Next]_vars PROVE FlapInv'
  BY Zenon
<1>1. ASSUME NEW r \in Req, RequestStep(r) \/ Cancel(r) PROVE FlapInv'
  <2>1. CASE Increment(r) \/ PrimaryUnavailable(r) \/ MarkDegraded(r) \/ Send(r) \/ Cancel(r)
    BY <2>1, CountsForward, Zenon
    DEF Increment, PrimaryUnavailable, MarkDegraded, Send, Cancel, store
  <2>2. QED
    BY <1>1, <2>1, PrimaryStep, FallbackStep, ZenonT(60) DEF RequestStep
<1>2. ASSUME NEW i \in Instance,
             LoopStep(i) \/ SeeDone(i) \/ CloseDone(i) \/ CloseStores(i)
      PROVE FlapInv'
  BY <1>2, CountsForward, Zenon
  DEF LoopStep, Wake, CheckDegraded, TimerFires, Probe, SwitchBack, BackToWait, SeeDone,
      CloseDone, CloseStores, store, request
<1>3. CASE PrimaryToggles \/ UNCHANGED vars
  BY <1>3, CountsForward, Zenon DEF PrimaryToggles, vars, store, request
<1>4. QED
  BY <1>1, <1>2, <1>3, Zenon DEF Next

(***************************************************************************)
(* The theorem.                                                            *)
(***************************************************************************)
\* However often the primary comes and goes, requests are cancelled and instances
\* close, an instance lets through at most Limit requests on the primary's count
\* and Limit on its own fallback's (Allow compares after the increment, and
\* neither store's count goes back).
THEOREM LimitHolds == Spec => []EnforcedWhileFlapping
<1>1. FlapInv => EnforcedWhileFlapping
  <2> SUFFICES ASSUME FlapInv, NEW i \in Instance
               PROVE Cardinality({r \in admitted : home[r] = i}) <= 2 * Limit
    BY Zenon DEF EnforcedWhileFlapping
  <2>1. PICK P \in SUBSET Req, M \in SUBSET Req : Shared(P, M)
    BY Zenon DEF FlapInv
  <2>2. {r \in admitted : home[r] = i} \subseteq P \cup At(M, i)
    BY <2>1, Zenon DEF Shared, At
  <2>3. QED
    BY <2>1, <2>2, TwoSets, ZenonT(60) DEF Shared, FlapInv, Shape
<1>2. QED
  BY <1>1, FlapInit, FlapStep, PTL DEF Spec

--------------------------------------------------------------------------------
(* MemoryStore. *)

(***************************************************************************)
(* A purge that is due empties the map of expired entries; one that is not *)
(* leaves it alone.  Either way the operation counter stays below the      *)
(* interval.                                                               *)
(***************************************************************************)
LEMMA SweepCounts ==
  ASSUME ops \in 0 .. SweepInterval - 1, NEW keys, NEW d, Store!sweepLocked(keys, d)
  PROVE  /\ ops' \in 0 .. SweepInterval - 1
         /\ \/ ops + 1 < SweepInterval /\ ops' = ops + 1 /\ resident' = keys
            \/ ops + 1 = SweepInterval /\ ops' = 0 /\ resident' = Store!Unexpired(keys, d)
<1> SweepInterval \in Nat \ {0}
  BY StoreAssumption, Zenon
<1>1. CASE ops + 1 < SweepInterval
  <2>1. (ops + 1) % SweepInterval = ops + 1
    BY <1>1
  <2> QED
    BY <1>1, <2>1 DEF Store!sweepLocked
<1>2. CASE ~(ops + 1 < SweepInterval)
  <2>1. ops + 1 = SweepInterval /\ (ops + 1) % SweepInterval = 0
    BY <1>2
  <2> QED
    BY <1>2, <2>1 DEF Store!sweepLocked
<1> QED
  BY <1>1, <1>2, Zenon

(***************************************************************************)
(* Types, and the inductive strengthening of ExpiredAreSwept: an expired   *)
(* entry has outlived no more operations than were counted since the last  *)
(* purge.                                                                  *)
(***************************************************************************)
SweepInv == \A k \in Key : age[k] <= ops

StoreInv == Store!TypeOK /\ SweepInv

\* An empty store satisfies the invariant.
LEMMA StoreInit == Store!Init => StoreInv
BY StoreAssumption DEF Store!Init, StoreInv, Store!TypeOK, SweepInv, Store!Answer

\* Expired entries stay no longer than the operations since the last purge allow.
LEMMA AgedStep ==
  ASSUME StoreInv, NEW keys \in SUBSET Key, clock' = clock, expires' \in [Key -> Nat],
         Store!sweepLocked(keys, expires'), age' = Store!Aged
  PROVE  age' \in [Key -> Nat] /\ SweepInv'
<1>1. /\ clock \in Nat /\ age \in [Key -> Nat] /\ ops \in 0 .. SweepInterval - 1
      /\ \A k \in Key : age[k] <= ops
  BY Zenon DEF StoreInv, Store!TypeOK, SweepInv
<1>2. \A k \in Key : age'[k] = IF k \in resident' /\ clock >= expires'[k] THEN age[k] + 1 ELSE 0
  BY Zenon DEF Store!Aged
<1>3. age' \in [Key -> Nat]
  BY <1>1 DEF Store!Aged
<1>4. \/ ops' = ops + 1
      \/ ops' = 0 /\ resident' = Store!Unexpired(keys, expires')
  BY <1>1, SweepCounts, ZenonT(60)
<1>5. ops' \in Nat
  BY <1>1, <1>4
<1>6. ASSUME NEW k \in Key
      PROVE  age'[k] <= ops'
  <2>1. CASE ops' = ops + 1
    BY <1>1, <1>2, <2>1
  <2>2. CASE ops' = 0 /\ resident' = Store!Unexpired(keys, expires')
    <3>1. ~(k \in resident' /\ clock >= expires'[k])
      BY <1>1, <2>2 DEF Store!Unexpired
    <3> QED
      BY <1>2, <2>2, <3>1
  <2> QED
    BY <1>4, <2>1, <2>2, ZenonT(60)
<1> QED
  BY <1>3, <1>6, Zenon DEF SweepInv

\* Every operation of the map keeps its types and the bound on expired entries.
LEMMA StoreStep == StoreInv /\ [Store!Next]_(Store!vars) => StoreInv'
<1> SUFFICES ASSUME StoreInv, [Store!Next]_(Store!vars)
             PROVE  StoreInv'
  BY Zenon
<1> USE StoreAssumption
<1>1. /\ clock \in Nat /\ resident \subseteq Key /\ value \in [Key -> Nat]
      /\ \A k \in resident : value[k] # 0
      /\ expires \in [Key -> Nat] /\ ops \in 0 .. SweepInterval - 1
  BY Zenon DEF StoreInv, Store!TypeOK
<1>2. ASSUME NEW k \in Key, NEW ttl \in TTL, Store!Increment(k, ttl)
      PROVE  StoreInv'
  <2>1. value' \in [Key -> Nat] /\ expires' \in [Key -> Nat] /\ value'[k] # 0 /\ clock' = clock
    BY <1>1, <1>2 DEF Store!Increment
  <2>2. Store!sweepLocked(resident \cup {k}, expires') /\ age' = Store!Aged
    BY <1>2, Zenon DEF Store!Increment
  <2>3. ops' \in 0 .. SweepInterval - 1 /\ resident' \subseteq resident \cup {k}
    BY <1>1, <2>2, SweepCounts, ZenonT(60) DEF Store!Unexpired
  <2>4. expires'[k] > clock
    BY <1>1, <1>2 DEF Store!Increment, Store!Live
  <2>5. answer' \in Store!Answer
    BY <1>1, <1>2, <2>1, <2>4 DEF Store!Increment, Store!Answer
  <2>6. \A j \in resident' : value'[j] # 0
    <3> SUFFICES ASSUME NEW j \in resident' PROVE value'[j] # 0
      BY Zenon
    <3>1. CASE j = k
      BY <2>1, <3>1, Zenon
    <3>2. CASE j # k
      BY <1>1, <1>2, <2>3, <3>2, ZenonT(60) DEF Store!Increment
    <3> QED
      BY <3>1, <3>2, Zenon
  <2>7. age' \in [Key -> Nat] /\ SweepInv'
    <3>1. resident \cup {k} \in SUBSET Key
      BY <1>1, Zenon
    <3> QED
      BY <2>1, <2>2, <3>1, AgedStep, ZenonT(60)
  <2> QED
    BY <1>1, <2>1, <2>3, <2>5, <2>6, <2>7, ZenonT(60) DEF StoreInv, Store!TypeOK
<1>3. ASSUME NEW k \in Key, Store!Get(k)
      PROVE  StoreInv'
  <2>1. answer' \in Store!Answer
    BY <1>1, <1>3 DEF Store!Get, Store!Live, Store!Answer
  <2> QED
    BY <1>3, <2>1, ZenonT(60) DEF StoreInv, Store!TypeOK, SweepInv, Store!Get, Store!entries
<1>4. ASSUME NEW k \in Key, Store!Delete(k)
      PROVE  StoreInv'
  <2>1. Store!sweepLocked(resident \ {k}, expires') /\ age' = Store!Aged /\ expires' = expires
        /\ value' = value /\ clock' = clock
    BY <1>4, Zenon DEF Store!Delete
  <2>2. ops' \in 0 .. SweepInterval - 1 /\ resident' \subseteq resident
    BY <1>1, <2>1, SweepCounts DEF Store!Unexpired
  <2>3. age' \in [Key -> Nat] /\ SweepInv'
    <3>1. resident \ {k} \in SUBSET Key
      BY <1>1, Zenon
    <3> QED
      BY <1>1, <2>1, <3>1, AgedStep, ZenonT(60)
  <2>4. answer' \in Store!Answer
    BY <1>4, Zenon DEF Store!Delete, Store!Answer
  <2> QED
    BY <1>1, <2>1, <2>2, <2>3, <2>4, ZenonT(60) DEF StoreInv, Store!TypeOK
<1>5. CASE Store!Sweep
  <2>1. resident' \subseteq resident
    BY <1>5, Zenon DEF Store!Sweep, Store!Unexpired
  <2> QED
    BY <1>1, <1>5, <2>1 DEF StoreInv, Store!TypeOK, SweepInv, Store!Sweep
<1>6. CASE Store!Tick
  BY <1>6 DEF StoreInv, Store!TypeOK, SweepInv, Store!Tick, Store!entries
<1>7. CASE UNCHANGED Store!vars
  BY <1>7, Zenon DEF StoreInv, Store!TypeOK, SweepInv, Store!vars, Store!entries
<1> QED
  BY <1>2, <1>3, <1>4, <1>5, <1>6, <1>7, ZenonT(60) DEF Store!Next

\* Every variable of the store keeps its type, and the map holds no entry with
\* a zero value.
THEOREM StoreTypeCorrect == Store!Spec => []Store!TypeOK
<1>1. StoreInv => Store!TypeOK
  BY Zenon DEF StoreInv
<1> QED
  BY <1>1, StoreInit, StoreStep, PTL DEF Store!Spec

\* An expired entry outlives fewer than SweepInterval mutating operations, for
\* every interval and every set of keys (sweepLocked).
THEOREM ExpiredEntriesAreSwept == Store!Spec => []ExpiredAreSwept
<1>1. ASSUME StoreInv, NEW k \in Key PROVE age[k] < SweepInterval
  <2>1. SweepInterval \in Nat /\ age[k] \in Nat /\ ops \in 0 .. SweepInterval - 1
    BY <1>1, StoreAssumption, Zenon DEF StoreInv, Store!TypeOK
  <2>2. age[k] <= ops
    BY <1>1, Zenon DEF StoreInv, SweepInv
  <2> QED
    BY <2>1, <2>2
<1>2. StoreInv => ExpiredAreSwept
  BY <1>1, Zenon DEF ExpiredAreSwept, Store!ExpiredAreSwept
<1> QED
  BY <1>2, StoreInit, StoreStep, PTL DEF Store!Spec

(***************************************************************************)
(* Refinement.  A purge drops only entries that read as absent already, so *)
(* it is invisible through Live.                                           *)
(***************************************************************************)
PortCount == [k \in Key |-> IF Store!Live(k) THEN value[k] ELSE 0]
PortDeadline == [k \in Key |-> IF Store!Live(k) THEN expires[k] ELSE 0]

\* A purge drops no live entry and revives no dead one (sweepLocked).
LEMMA PurgeIsInvisible ==
  ASSUME NEW keys, NEW j, clock' = clock, Store!sweepLocked(keys, expires')
  PROVE  Store!Live(j)' <=> (j \in keys /\ clock < expires'[j])
BY Zenon DEF Store!sweepLocked, Store!Unexpired, Store!Live

\* Increment counts on a live entry and starts afresh on any other, as the port does.
LEMMA PortIncrement ==
  ASSUME StoreInv, NEW k \in Key, NEW ttl \in TTL, Store!Increment(k, ttl)
  PROVE  Store!Port!Increment(k, ttl)
<1> USE StoreAssumption
<1>1. /\ clock \in Nat /\ resident \subseteq Key /\ value \in [Key -> Nat]
      /\ \A j \in resident : value[j] # 0
      /\ expires \in [Key -> Nat]
  BY Zenon DEF StoreInv, Store!TypeOK
<1>2. clock' = clock /\ Store!sweepLocked(resident \cup {k}, expires')
  BY Zenon DEF Store!Increment
<1>3. /\ value'[k] = IF Store!Live(k) THEN value[k] + 1 ELSE 1
      /\ expires'[k] = IF Store!Live(k) THEN expires[k] ELSE clock + ttl
      /\ \A j \in Key \ {k} : value'[j] = value[j] /\ expires'[j] = expires[j]
  BY <1>1, Zenon DEF Store!Increment
<1>4. expires'[k] > clock
  BY <1>1, <1>3 DEF Store!Live
<1>5. Store!Live(k)'
  BY <1>2, <1>4, PurgeIsInvisible, ZenonT(60)
<1>6. \A j \in Key \ {k} : Store!Live(j)' <=> Store!Live(j)
  BY <1>2, <1>3, PurgeIsInvisible DEF Store!Live
<1>7. PortCount[k] = 0 <=> ~Store!Live(k)
  BY <1>1, Zenon DEF PortCount, Store!Live
<1>8. PortCount' = [PortCount EXCEPT ![k] = @ + 1]
  <2>1. \A j \in Key : PortCount'[j] = IF j = k THEN PortCount[k] + 1 ELSE PortCount[j]
    BY <1>3, <1>5, <1>6 DEF PortCount
  <2>2. PortCount = [j \in Key |-> PortCount[j]] /\ PortCount' = [j \in Key |-> PortCount'[j]]
    BY Zenon DEF PortCount, Store!Live
  <2> QED
    BY <2>1, <2>2, Zenon
<1>9. PortDeadline' = [PortDeadline EXCEPT ![k] = IF PortCount[k] = 0 THEN clock + ttl ELSE @]
  <2>1. \A j \in Key : PortDeadline'[j] =
          IF j = k THEN (IF PortCount[k] = 0 THEN clock + ttl ELSE PortDeadline[k]) ELSE PortDeadline[j]
    BY <1>3, <1>5, <1>6, <1>7, ZenonT(60) DEF PortDeadline
  <2>2. PortDeadline = [j \in Key |-> PortDeadline[j]] /\ PortDeadline' = [j \in Key |-> PortDeadline'[j]]
    BY Zenon DEF PortDeadline, Store!Live
  <2> QED
    BY <2>1, <2>2, Zenon
<1>10. PortCount[k] < MaxCount
  BY <1>1, StoreAssumption DEF Store!Increment, PortCount
<1>11. answer' = [value |-> PortCount'[k],
                  ttl |-> IF PortCount'[k] = 0 THEN 0 ELSE PortDeadline'[k] - clock]
  <2>1. PortCount'[k] = value'[k] /\ PortDeadline'[k] = expires'[k]
    BY <1>5, Zenon DEF PortCount, PortDeadline
  <2>2. value'[k] # 0
    BY <1>1, <1>3
  <2> QED
    BY <2>1, <2>2 DEF Store!Increment
<1> QED
  BY <1>2, <1>8, <1>9, <1>10, <1>11, ZenonT(60) DEF Store!Port!Increment, Store!Port!CountOf, PortCount, PortDeadline

\* Get answers zero for an expired entry, resident or not.
LEMMA PortGet ==
  ASSUME StoreInv, NEW k \in Key, Store!Get(k)
  PROVE  Store!Port!Get(k)
<1>1. \A j \in resident : value[j] # 0
  BY Zenon DEF StoreInv, Store!TypeOK
<1>2. UNCHANGED <<clock, resident, value, expires>>
  BY Zenon DEF Store!Get, Store!entries
<1>3. PortCount' = PortCount /\ PortDeadline' = PortDeadline
  BY <1>2, Zenon DEF PortCount, PortDeadline, Store!Live
<1>4. answer' = [value |-> PortCount[k],
                 ttl |-> IF PortCount[k] = 0 THEN 0 ELSE PortDeadline[k] - clock]
  <2>1. CASE Store!Live(k)
    BY <1>1, <2>1, Zenon DEF Store!Get, PortCount, PortDeadline, Store!Live
  <2>2. CASE ~Store!Live(k)
    BY <2>2, Zenon DEF Store!Get, PortCount, PortDeadline
  <2> QED
    BY <2>1, <2>2, Zenon
<1> QED
  BY <1>2, <1>3, <1>4, Zenon DEF Store!Port!Get, Store!Port!CountOf, PortCount, PortDeadline

\* Delete leaves nothing live under the key.
LEMMA PortDelete ==
  ASSUME StoreInv, NEW k \in Key, Store!Delete(k)
  PROVE  Store!Port!Delete(k)
<1>1. clock' = clock /\ value' = value /\ expires' = expires
      /\ Store!sweepLocked(resident \ {k}, expires')
  BY Zenon DEF Store!Delete
<1>2. \A j \in Key : Store!Live(j)' <=> (Store!Live(j) /\ j # k)
  BY <1>1, PurgeIsInvisible DEF Store!Live
<1>3. PortCount' = [PortCount EXCEPT ![k] = 0] /\ PortDeadline' = [PortDeadline EXCEPT ![k] = 0]
  BY <1>1, <1>2, Zenon DEF PortCount, PortDeadline, Store!Live
<1> QED
  BY <1>1, <1>3, ZenonT(60) DEF Store!Delete, Store!Port!Delete, Store!Port!NoAnswer, PortCount, PortDeadline

\* Time passing expires the same keys in the map and in the port.
LEMMA PortTick ==
  ASSUME StoreInv, Store!Tick
  PROVE  Store!Port!Tick
<1>1. clock \in Nat /\ expires \in [Key -> Nat]
  BY Zenon DEF StoreInv, Store!TypeOK
<1>2. clock < MaxClock /\ clock' = clock + 1 /\ UNCHANGED <<resident, value, expires, answer>>
  BY Zenon DEF Store!Tick, Store!entries
<1>3. \A j \in Key : Store!Live(j)' <=> (Store!Live(j) /\ ~(expires[j] <= clock'))
  BY <1>1, <1>2 DEF Store!Live
<1>4. \A j \in Key : PortDeadline[j] <= clock' <=> ~Store!Live(j)'
  BY <1>1, <1>2, <1>3 DEF PortDeadline
<1>5. /\ PortCount' = [j \in Key |-> IF PortDeadline[j] <= clock' THEN 0 ELSE PortCount[j]]
      /\ PortDeadline' = [j \in Key |-> IF PortDeadline[j] <= clock' THEN 0 ELSE PortDeadline[j]]
  BY <1>2, <1>3, <1>4, Zenon DEF PortCount, PortDeadline
<1> QED
  BY <1>2, <1>5, ZenonT(60) DEF Store!Port!Tick, PortCount, PortDeadline

\* A purge, explicit or not, is a stuttering step of the port.
LEMMA PortSweep ==
  ASSUME Store!Sweep
  PROVE  UNCHANGED Store!Port!vars
<1>1. clock' = clock /\ value' = value /\ expires' = expires /\ answer' = answer
      /\ resident' = Store!Unexpired(resident, expires)
  BY Zenon DEF Store!Sweep
<1>2. \A j \in Key : Store!Live(j)' <=> Store!Live(j)
  BY <1>1, Zenon DEF Store!Live, Store!Unexpired
<1>3. PortCount' = PortCount /\ PortDeadline' = PortDeadline
  BY <1>1, <1>2, Zenon DEF PortCount, PortDeadline
<1> QED
  BY <1>1, <1>3, Zenon DEF Store!Port!vars, PortCount, PortDeadline

\* Every step of the map is a step of the port or changes nothing of it.
LEMMA PortStep == StoreInv /\ [Store!Next]_(Store!vars) => [Store!Port!Next]_(Store!Port!vars)
<1> SUFFICES ASSUME StoreInv, [Store!Next]_(Store!vars)
             PROVE  [Store!Port!Next]_(Store!Port!vars)
  BY Zenon
<1>1. ASSUME NEW k \in Key, NEW ttl \in TTL, Store!Increment(k, ttl) PROVE Store!Port!Next
  BY <1>1, PortIncrement, Zenon DEF Store!Port!Next
<1>2. ASSUME NEW k \in Key, Store!Get(k) PROVE Store!Port!Next
  BY <1>2, PortGet, Zenon DEF Store!Port!Next
<1>3. ASSUME NEW k \in Key, Store!Delete(k) PROVE Store!Port!Next
  BY <1>3, PortDelete, ZenonT(60) DEF Store!Port!Next
<1>4. CASE Store!Sweep
  BY <1>4, PortSweep, ZenonT(60)
<1>5. CASE Store!Tick
  BY <1>5, PortTick, ZenonT(60) DEF Store!Port!Next
<1>6. CASE UNCHANGED Store!vars
  BY <1>6, Zenon DEF Store!vars, Store!entries, Store!Port!vars, Store!Live
<1> QED
  BY <1>1, <1>2, <1>3, <1>4, <1>5, <1>6, ZenonT(60) DEF Store!Next

\* The map with its lazy purge implements the counter port: nobody can tell an
\* expired entry that is still resident from an absent one, and no increment
\* moves a deadline (Increment, Get and Delete of MemoryStore).
THEOREM StoreImplementsPort == Store!Spec => ImplementsPort
<1>1. Store!Init => Store!Port!Init
  BY Zenon DEF Store!Init, Store!Port!Init, Store!Port!NoAnswer, Store!Live
<1> QED
  BY <1>1, StoreInit, StoreStep, PortStep, PTL DEF Store!Spec, Store!Port!Spec, Store!ImplementsPort, ImplementsPort

--------------------------------------------------------------------------------
(* Retention. *)

InPassAt == {"loop", "delete", "drained", "report"}

(***************************************************************************)
(* The inductive invariant.                                                *)
(***************************************************************************)
\* The part of the types the argument rests on.
PurgeShape ==
  /\ IsFiniteSet(log)
  /\ purger \in [Replica -> {"boot", "wait", "stopped"} \cup InPassAt]
  /\ total \in [Replica -> Nat]
  /\ gone \in [Replica -> Int]
  /\ excused \in [Replica -> Int]

\* What a replica deleted and no record counts is the count of the pass it is
\* in, besides what was in records that could not be written or in a pass that
\* a panic ended.
Counted ==
  \A r \in Replica :
    gone[r] = excused[r] + (IF purger[r] \in InPassAt THEN total[r] ELSE 0)

CountInv == PurgeShape /\ Counted

(***************************************************************************)
(* Every step keeps it.                                                    *)
(***************************************************************************)
\* Nothing has been deleted.
LEMMA CountInit == Purge!Init => CountInv
BY FS_EmptySet DEF Purge!Init, CountInv, PurgeShape, Counted, InPassAt

\* Retention counts with the same Cardinality.
LEMMA SameCount == \A T : Purge!Cardinality(T) = Cardinality(T)
BY Zenon DEF Purge!Cardinality, Cardinality, Purge!IsFiniteSet, IsFiniteSet

\* A batch adds what it took out of the table to both counts.
LEMMA BatchCounts ==
  ASSUME CountInv, NEW r \in Replica, NEW S, purger[r] \in {"loop", "delete"}, Purge!Deleted(r, S),
         UNCHANGED excused
  PROVE CountInv'
<1> DEFINE n == Cardinality(log \cap S)
<1>1. n \in Nat
  BY FS_Intersection, FS_CardinalityType, Zenon DEF CountInv, PurgeShape
<1>2. IsFiniteSet(log')
  BY FS_Difference, Zenon DEF CountInv, PurgeShape, Purge!Deleted
<1>3. Purge!AfterBatch(r, n) \in InPassAt
  BY Zenon DEF Purge!AfterBatch, InPassAt
<1>4. /\ total' = [total EXCEPT ![r] = @ + n]
      /\ gone' = [gone EXCEPT ![r] = @ + n]
      /\ purger' = [purger EXCEPT ![r] = Purge!AfterBatch(r, n)]
  BY SameCount, Zenon DEF Purge!Deleted
<1> HIDE DEF n
<1>5. PurgeShape'
  BY SMTT(30), <1>1, <1>2, <1>3, <1>4 DEF CountInv, PurgeShape
<1>6. Counted'
  BY <1>1, <1>3, <1>4 DEF CountInv, PurgeShape, Counted, InPassAt
<1>7. QED
  BY <1>5, <1>6, Zenon DEF CountInv

\* Every step of every replica keeps the count.
LEMMA CountStep ==
  ASSUME CountInv, [Purge!Next]_(Purge!vars)
  PROVE CountInv'
<1> USE DEF InPassAt, Purge!pass
<1>1. ASSUME Purge!Emit PROVE CountInv'
  BY <1>1, FS_AddElement, Zenon DEF Purge!Emit, CountInv, PurgeShape, Counted
<1>2. ASSUME Purge!Tick PROVE CountInv'
  BY <1>2, Zenon DEF Purge!Tick, CountInv, PurgeShape, Counted
<1>3. ASSUME NEW r \in Replica, Purge!Cancel(r) PROVE CountInv'
  BY <1>3, Zenon DEF Purge!Cancel, CountInv, PurgeShape, Counted
<1>4. ASSUME NEW r \in Replica, Purge!StartPass(r) PROVE CountInv'
  BY <1>4, Zenon DEF Purge!StartPass, CountInv, PurgeShape, Counted
<1>5. ASSUME NEW r \in Replica, Purge!SkipFirst(r) PROVE CountInv'
  BY <1>5, Zenon DEF Purge!SkipFirst, Purge!Go, CountInv, PurgeShape, Counted
<1>6. ASSUME NEW r \in Replica, Purge!Stop(r) PROVE CountInv'
  BY <1>6, Zenon DEF Purge!Stop, Purge!Go, CountInv, PurgeShape, Counted
<1>7. ASSUME NEW r \in Replica, Purge!Interrupted(r) PROVE CountInv'
  BY <1>7, ZenonT(60) DEF Purge!Interrupted, Purge!Go, CountInv, PurgeShape, Counted
<1>8. ASSUME NEW r \in Replica, Purge!PurgeBatch(r) PROVE CountInv'
  BY <1>8, BatchCounts DEF Purge!PurgeBatch
<1>9. ASSUME NEW r \in Replica, Purge!ChooseBatch(r) PROVE CountInv'
  BY <1>9, Zenon DEF Purge!ChooseBatch, Purge!Go, CountInv, PurgeShape, Counted
<1>10. ASSUME NEW r \in Replica, Purge!DeleteBatch(r) PROVE CountInv'
  BY <1>10, BatchCounts DEF Purge!DeleteBatch
<1>11. ASSUME NEW r \in Replica, Purge!Drained(r) PROVE CountInv'
  BY <1>11, ZenonT(60) DEF Purge!Drained, Purge!Go, CountInv, PurgeShape, Counted
<1>12. ASSUME NEW r \in Replica, Purge!Report(r) PROVE CountInv'
  <2>1. IsFiniteSet(log')
    <3>1. log' = log \/ log' = log \cup {[id |-> nextId, at |-> now]}
      BY <1>12, Zenon DEF Purge!Report
    <3>2. IsFiniteSet(log \cup {[id |-> nextId, at |-> now]})
      BY FS_AddElement, Zenon DEF CountInv, PurgeShape
    <3>3. QED
      BY <3>1, <3>2, Zenon DEF CountInv, PurgeShape
  <2>2. QED
    BY <1>12, <2>1 DEF Purge!Report, Purge!Go, CountInv, PurgeShape, Counted
<1>13. ASSUME NEW r \in Replica, Purge!BatchFails(r) PROVE CountInv'
  BY <1>13, ZenonT(60) DEF Purge!BatchFails, CountInv, PurgeShape, Counted
<1>14. ASSUME NEW r \in Replica, Purge!ReportFails(r) PROVE CountInv'
  BY <1>14 DEF Purge!ReportFails, Purge!Go, CountInv, PurgeShape, Counted
<1>15. ASSUME NEW r \in Replica, Purge!BatchPanics(r) PROVE CountInv'
  BY <1>15 DEF Purge!BatchPanics, CountInv, PurgeShape, Counted
<1>16. CASE UNCHANGED Purge!vars
  BY <1>16, Zenon DEF Purge!vars, Purge!moving, CountInv, PurgeShape, Counted
<1>17. QED
  BY <1>1, <1>2, <1>3, <1>4, <1>5, <1>6, <1>7, <1>8, <1>9, <1>10, <1>11, <1>12, <1>13,
     <1>14, <1>15, <1>16, ZenonT(60)
  DEF Purge!Next, Purge!Run, Purge!InPass, Purge!Faults

(***************************************************************************)
(* The theorem.                                                            *)
(***************************************************************************)
\* However batches fail, contexts are cancelled and replicas delete the same
\* rows, every row a replica deleted is counted once its pass is over: by a
\* record, by one that could not be written, or in the pass that a panic ended
\* (pass reports a failed and an interrupted pass too).
THEOREM PassesAccount == Purge!Spec => []DeletionsAccounted
<1>1. CountInv => DeletionsAccounted
  BY DEF CountInv, PurgeShape, Counted, DeletionsAccounted, Purge!DeletionsAccounted, InPassAt
<1>2. CountInv /\ [Purge!Next]_(Purge!vars) => CountInv'
  BY CountStep, Zenon
<1>3. QED
  BY <1>1, <1>2, CountInit, PTL DEF Purge!Spec
================================================================================
