------------------------------ MODULE CounterPort ------------------------------
(***************************************************************************)
(* What the counter port promises (internal/counter/counter.go): a number  *)
(* attached to a key that disappears on its own.  The expiry is fixed when *)
(* the key is created and no later increment moves it; an expired key is   *)
(* an absent key at once; every operation is one indivisible step that     *)
(* answers with the state it leaves.                                       *)
(***************************************************************************)
EXTENDS Naturals

CONSTANTS
  Key,      \* the opaque keys
  TTL,      \* the lifetimes callers ask for
  MaxCount, \* bound on a counter
  MaxTime   \* bound on the clock

VARIABLES
  now,
  count,    \* value of each key; 0: absent
  deadline, \* when the value of a key disappears; 0 for an absent key
  answer    \* the Count the last operation answered: value and time left

vars == <<now, count, deadline, answer>>

\* The Count of a key: its value and the time it has left.
CountOf(v, d) == [value |-> v, ttl |-> IF v = 0 THEN 0 ELSE d - now]

NoAnswer == [value |-> 0, ttl |-> 0]

Init ==
  /\ now = 0
  /\ count = [k \in Key |-> 0]
  /\ deadline = [k \in Key |-> 0]
  /\ answer = NoAnswer

Increment(k, ttl) ==
  /\ count[k] < MaxCount
  /\ count' = [count EXCEPT ![k] = @ + 1]
  /\ deadline' = [deadline EXCEPT ![k] = IF count[k] = 0 THEN now + ttl ELSE @]
  /\ answer' = CountOf(count'[k], deadline'[k])
  /\ UNCHANGED now

Get(k) ==
  /\ answer' = CountOf(count[k], deadline[k])
  /\ UNCHANGED <<now, count, deadline>>

Delete(k) ==
  /\ count' = [count EXCEPT ![k] = 0]
  /\ deadline' = [deadline EXCEPT ![k] = 0]
  /\ answer' = NoAnswer
  /\ UNCHANGED now

\* Time passes; what reaches its deadline disappears.
Tick ==
  /\ now < MaxTime
  /\ now' = now + 1
  /\ count' = [k \in Key |-> IF deadline[k] <= now' THEN 0 ELSE count[k]]
  /\ deadline' = [k \in Key |-> IF deadline[k] <= now' THEN 0 ELSE deadline[k]]
  /\ UNCHANGED answer

Next ==
  \/ \E k \in Key : (\E ttl \in TTL : Increment(k, ttl)) \/ Get(k) \/ Delete(k)
  \/ Tick

Spec == Init /\ [][Next]_vars
================================================================================
