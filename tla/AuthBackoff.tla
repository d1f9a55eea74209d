------------------------------ MODULE AuthBackoff ------------------------------
(***************************************************************************)
(* The authentication tier (internal/ratelimit/backoff.go): failures are   *)
(* counted per key and every failure over the free limit arms a lockout    *)
(* that doubles.  The handlers (internal/transport/http/enrollment.go)     *)
(* Check, verify the credential, then record the outcome.                  *)
(*                                                                         *)
(* One key.  The counter store is the port of CounterPort: a live entry    *)
(* keeps the deadline it was created with.  The count and the lockout of   *)
(* each level are separate entries, written by separate calls, so the      *)
(* callers interleave between them; any call may find the store out.       *)
(***************************************************************************)
EXTENDS Integers, FiniteSets, FiniteSetsExt

CONSTANTS
  Caller,    \* requests presenting this key, each for ever anew
  Limit,     \* free failures
  Window,    \* base of the doubling
  Horizon,   \* how long the failure count lives, from its first failure
  Cap,       \* longest lockout, shorter than Horizon (AuthTier.validate)
  Width,     \* bits of a duration (64 in the code)
  MaxLevel,  \* bound on the failure count
  MaxTime    \* bound on the clock

VARIABLES
  now,
  count,      \* failKey: the failures counted ...
  expires,    \* ... and when they are forgotten
  lock,       \* lockKey of each level: when it expires; 0: never created
  pc,         \* where each caller is
  level,      \* the failure count a caller has read or produced
  unarmed,    \* history: levels whose lockout write failed in this life of the count
  met         \* history: levels that met a live lockout of an earlier life

vars == <<now, count, expires, lock, pc, level, unarmed, met>>

Level == 0 .. MaxLevel

TypeOK ==
  /\ now \in Nat
  /\ count \in Level
  /\ expires \in Nat
  /\ lock \in [Level -> Nat]
  /\ pc \in [Caller -> {"idle", "check_lock", "attempt", "count", "arm", "clear"}]
  /\ level \in [Caller -> Level]
  /\ \A c \in Caller : pc[c] \in {"check_lock", "arm"} => level[c] > Limit
  /\ unarmed \subseteq Level /\ met \subseteq Level

Init ==
  /\ now = 0
  /\ count = 0
  /\ expires = 0
  /\ lock = [n \in Level |-> 0]
  /\ pc = [c \in Caller |-> "idle"]
  /\ level = [c \in Caller |-> 0]
  /\ unarmed = {}
  /\ met = {}

(***************************************************************************)
(* lockout(n) = min(Cap, Window * 2^(n-Limit-1)), in Width-bit arithmetic. *)
(***************************************************************************)
Signed(x) == LET m == x % (2 ^ Width) IN IF m < 2 ^ (Width - 1) THEN m ELSE m - 2 ^ Width

lockout(n) ==
  IF n <= Limit THEN 0
  ELSE LET shift == n - Limit - 1
           d == Signed(Window * 2 ^ shift)
       IN IF shift > Width - 2 \/ d <= 0 \/ d > Cap THEN Cap ELSE d

(***************************************************************************)
(* The counter store: an entry that has expired reads as absent.           *)
(***************************************************************************)
Failures == IF now < expires THEN count ELSE 0

Locked(n) == now < lock[n]

Goto(c, l) == pc' = [pc EXCEPT ![c] = l]

Return(c) ==
  /\ pc' = [pc EXCEPT ![c] = "idle"]
  /\ level' = [level EXCEPT ![c] = 0]

(***************************************************************************)
(* Check.                                                                  *)
(***************************************************************************)
\* The first Get.  A Get that fails refuses and leaves nothing behind.
CheckFailures(c) ==
  /\ pc[c] = "idle"
  /\ \/ /\ Failures <= Limit
        /\ Goto(c, "attempt")
        /\ UNCHANGED level
     \/ /\ Failures > Limit
        /\ Goto(c, "check_lock")
        /\ level' = [level EXCEPT ![c] = Failures]
  /\ UNCHANGED <<now, count, expires, lock, unarmed, met>>

\* Mutant: the lockout of the next level is consulted.
CheckLock_NextLevel(c) ==
  /\ pc[c] = "check_lock"
  /\ \/ level[c] < MaxLevel /\ Locked(level[c] + 1) /\ Return(c)
     \/ ~(level[c] < MaxLevel /\ Locked(level[c] + 1)) /\ Goto(c, "attempt") /\ UNCHANGED level
  /\ UNCHANGED <<now, count, expires, lock, unarmed, met>>

CheckLock(c) ==
  /\ pc[c] = "check_lock"
  /\ \/ Locked(level[c]) /\ Return(c)
     \/ ~Locked(level[c]) /\ Goto(c, "attempt") /\ UNCHANGED level
  /\ UNCHANGED <<now, count, expires, lock, unarmed, met>>

(***************************************************************************)
(* The handler verifies the credential; a malformed request is not         *)
(* counted.                                                                *)
(***************************************************************************)
Attempt(c) ==
  /\ pc[c] = "attempt"
  /\ \/ \E l \in {"count", "clear"} : Goto(c, l) /\ UNCHANGED level
     \/ Return(c)
  /\ UNCHANGED <<now, count, expires, lock, unarmed, met>>

(***************************************************************************)
(* RecordFailure and RecordSuccess.                                        *)
(***************************************************************************)
\* Increment of failKey.  A count within the free limit arms nothing.
RecordFailure(c) ==
  /\ pc[c] = "count"
  /\ Failures < MaxLevel   \* bound
  /\ count' = Failures + 1
  /\ expires' = IF now < expires THEN expires ELSE now + Horizon
  /\ \/ /\ lockout(count') = 0
        /\ Return(c)
     \/ /\ lockout(count') # 0
        /\ Goto(c, "arm")
        /\ level' = [level EXCEPT ![c] = count']
  /\ unarmed' = IF now < expires THEN unarmed ELSE {}
  /\ met' = IF now < expires THEN met ELSE {}
  /\ UNCHANGED <<now, lock>>

\* Increment of lockKey: an entry still live keeps its deadline.
ArmLock(c) ==
  /\ pc[c] = "arm"
  /\ lock' = [lock EXCEPT ![level[c]] = IF Locked(level[c]) THEN @ ELSE now + lockout(level[c])]
  /\ met' = IF Locked(level[c]) THEN met \cup {level[c]} ELSE met
  /\ Return(c)
  /\ UNCHANGED <<now, count, expires, unarmed>>

\* Delete of failKey; the lockouts stay.
RecordSuccess(c) ==
  /\ pc[c] = "clear"
  /\ count' = 0
  /\ expires' = 0
  /\ unarmed' = {}
  /\ met' = {}
  /\ Return(c)
  /\ UNCHANGED <<now, lock>>

\* The store does not answer: the Check refuses, the record is logged and lost.
StoreUnavailable(c) ==
  /\ pc[c] \in {"check_lock", "count", "arm", "clear"}
  /\ unarmed' = IF pc[c] = "arm" THEN unarmed \cup {level[c]} ELSE unarmed
  /\ Return(c)
  /\ UNCHANGED <<now, count, expires, lock, met>>

Tick ==
  /\ now < MaxTime
  /\ now' = now + 1
  /\ UNCHANGED <<count, expires, lock, pc, level, unarmed, met>>

CallerStep(c) ==
  \/ CheckFailures(c) \/ CheckLock(c) \/ Attempt(c)
  \/ RecordFailure(c) \/ ArmLock(c) \/ RecordSuccess(c) \/ StoreUnavailable(c)

Next == (\E c \in Caller : CallerStep(c)) \/ Tick

Spec == Init /\ [][Next]_vars

(***************************************************************************)
(* Properties.                                                             *)
(***************************************************************************)
\* The lockouts of the levels left behind, but for those of the levels in free.
Cost(free) == MapThenSumSet(lockout, {n \in Level \ free : Limit < n /\ n < count})

\* RecordFailure, Check: a client that sends one request at a time can count no
\* further failure before it has served the lockouts of the levels below, within
\* this life of the count.  A level whose lockout write failed costs nothing, but
\* the next one costs in full again; and at most one level of a life is cut short
\* by a lockout an earlier life has left behind, which Increment does not extend.
GuessesCost ==
  now < expires =>
    /\ Cardinality(met) <= 1
    /\ now - (expires - Horizon) >= Cost(unarmed \cup met)
================================================================================
