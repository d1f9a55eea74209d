------------------------------ MODULE MemoryStore ------------------------------
(***************************************************************************)
(* The in-process counter store (internal/counter/memory.go): a map behind *)
(* one mutex, whose expired entries stay resident until a purge.  A purge  *)
(* runs at every SweepInterval-th mutating operation.  Every operation     *)
(* holds the mutex from its clock reading to its answer, so it is one      *)
(* step.  A cancelled context is refused before that and changes nothing.  *)
(***************************************************************************)
EXTENDS StoreConstants

VARIABLES
  now,
  resident,   \* the keys of the map
  value,      \* entry.value
  expiresAt,  \* entry.expiresAt
  ops,        \* mutating operations since the last purge
  answer,     \* the Count the last operation answered
  age         \* history: mutating operations an expired entry has outlived

entries == <<resident, value, expiresAt>>
vars    == <<now, entries, ops, answer, age>>

Answer == [value : Nat, ttl : Nat]

TypeOK ==
  /\ now \in Nat
  /\ resident \subseteq Key
  /\ value \in [Key -> Nat]
  /\ \A k \in resident : value[k] # 0
  /\ expiresAt \in [Key -> Nat]
  /\ ops \in 0 .. SweepInterval - 1
  /\ answer \in Answer
  /\ age \in [Key -> Nat]

Init ==
  /\ now = 0
  /\ resident = {}
  /\ value = [k \in Key |-> 0]
  /\ expiresAt = [k \in Key |-> 0]
  /\ ops = 0
  /\ answer = [value |-> 0, ttl |-> 0]
  /\ age = [k \in Key |-> 0]

\* now.Before(e.expiresAt)
Live(k) == k \in resident /\ now < expiresAt[k]

\* purgeLocked on the map keys with deadlines d.
Unexpired(keys, d) == {k \in keys : now < d[k]}

\* Mutant: the operation counter is not advanced.
sweepLocked_Stuck(keys, d) ==
  /\ ops' = ops
  /\ resident' = IF ops + 1 < SweepInterval THEN keys ELSE Unexpired(keys, d)

\* sweepLocked at the end of a mutating operation that leaves keys in the map.
sweepLocked(keys, d) ==
  /\ ops' = (ops + 1) % SweepInterval
  /\ resident' = IF ops + 1 < SweepInterval THEN keys ELSE Unexpired(keys, d)

\* The expired entries still resident get one operation older.
Aged == [k \in Key |-> IF k \in resident' /\ now >= expiresAt'[k] THEN age[k] + 1 ELSE 0]

\* Mutant: every increment moves the deadline.
Increment_Slides(k, ttl) ==
  /\ Live(k) => value[k] < MaxCount
  /\ value' = [value EXCEPT ![k] = IF Live(k) THEN @ + 1 ELSE 1]
  /\ expiresAt' = [expiresAt EXCEPT ![k] = now + ttl]
  /\ sweepLocked(resident \cup {k}, expiresAt')
  /\ answer' = [value |-> value'[k], ttl |-> expiresAt'[k] - now]
  /\ age' = Aged
  /\ UNCHANGED now

\* An absent or expired entry is created anew; a live one keeps its deadline.
Increment(k, ttl) ==
  /\ Live(k) => value[k] < MaxCount   \* bound
  /\ value' = [value EXCEPT ![k] = IF Live(k) THEN @ + 1 ELSE 1]
  /\ expiresAt' = [expiresAt EXCEPT ![k] = IF Live(k) THEN @ ELSE now + ttl]
  /\ sweepLocked(resident \cup {k}, expiresAt')
  /\ answer' = [value |-> value'[k], ttl |-> expiresAt'[k] - now]
  /\ age' = Aged
  /\ UNCHANGED now

Get(k) ==
  /\ answer' = IF Live(k) THEN [value |-> value[k], ttl |-> expiresAt[k] - now]
                          ELSE [value |-> 0, ttl |-> 0]
  /\ UNCHANGED <<now, entries, ops, age>>

Delete(k) ==
  /\ sweepLocked(resident \ {k}, expiresAt)
  /\ answer' = [value |-> 0, ttl |-> 0]
  /\ UNCHANGED <<now, value, expiresAt>>
  /\ age' = Aged

\* Sweep, the explicit trigger.
Sweep ==
  /\ resident' = Unexpired(resident, expiresAt)
  /\ age' = [k \in Key |-> 0]
  /\ UNCHANGED <<now, value, expiresAt, ops, answer>>

Tick ==
  /\ now < MaxClock
  /\ now' = now + 1
  /\ UNCHANGED <<entries, ops, answer, age>>

Next ==
  \/ \E k \in Key : (\E ttl \in TTL : Increment(k, ttl)) \/ Get(k) \/ Delete(k)
  \/ Sweep
  \/ Tick

Spec == Init /\ [][Next]_vars

(***************************************************************************)
(* Properties.                                                             *)
(***************************************************************************)
\* An expired entry outlives fewer than SweepInterval mutating operations,
\* read or not ("expiry active rather than only lazy", counter.Store).
ExpiredAreSwept == \A k \in Key : age[k] < SweepInterval

\* Residency is never observable: the store is the port, with an expired entry
\* read as absent.
Port ==
  INSTANCE CounterPort
    WITH count <- [k \in Key |-> IF Live(k) THEN value[k] ELSE 0],
         deadline <- [k \in Key |-> IF Live(k) THEN expiresAt[k] ELSE 0],
         MaxTime <- MaxClock

ImplementsPort == Port!Spec
================================================================================
