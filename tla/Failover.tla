------------------------------- MODULE Failover -------------------------------
(***************************************************************************)
(* The rate limiter over a shared counter store with an in-memory fallback *)
(* (internal/ratelimit/ratelimit.go Allow, internal/counter/failover.go,   *)
(* internal/redisstore).  Several server instances share the primary; each *)
(* has its own fallback, its own degraded flag and its own reprobe         *)
(* goroutine.  One key and one window: the counts only grow.               *)
(*                                                                         *)
(* The flag is an atomic, the wake-up a channel of capacity one; requests  *)
(* and the goroutine interleave between any two of their accesses.         *)
(***************************************************************************)
EXTENDS Naturals, FiniteSets

CONSTANTS
  Instance,   \* server instances
  Req,        \* requests, each served once by one instance
  Limit       \* requests the tier allows in the window

ASSUME LimitAssumption == Limit \in Nat

VARIABLES
  up,         \* the primary answers
  shared,     \* the count the primary holds
  memory,     \* the count each fallback holds
  degraded,
  signal,     \* a token waits in degradedCh
  loop,       \* where the reprobe goroutine is
  done,       \* Close has been called
  closed,     \* Close has returned: the primary's client is closed
  pc,         \* where each request is
  home,       \* the instance that serves it
  cancelled,  \* requests whose context is cancelled
  admitted    \* requests let through after being counted

store   == <<shared, memory>>
flags   == <<degraded, signal, loop, done, closed>>
request == <<pc, home, cancelled, admitted>>
vars    == <<up, store, flags, request>>

TypeOK ==
  /\ up \in BOOLEAN
  /\ shared \in Nat
  /\ memory \in [Instance -> Nat]
  /\ degraded \in [Instance -> BOOLEAN]
  /\ signal \in [Instance -> BOOLEAN]
  /\ loop \in [Instance -> {"wait", "check", "timer", "probe", "switch", "leave", "stopped"}]
  /\ done \in [Instance -> BOOLEAN]
  /\ closed \subseteq Instance
  /\ pc \in [Req -> {"new", "primary", "mark", "send", "fallback", "answered"}]
  /\ home \in [Req -> Instance]
  /\ cancelled \subseteq Req
  /\ admitted \subseteq Req

Init ==
  /\ up \in BOOLEAN
  /\ shared = 0
  /\ memory = [i \in Instance |-> 0]
  /\ degraded = [i \in Instance |-> FALSE]
  /\ signal = [i \in Instance |-> FALSE]
  /\ loop = [i \in Instance |-> "wait"]
  /\ done = [i \in Instance |-> FALSE]
  /\ closed = {}
  /\ pc = [r \in Req |-> "new"]
  /\ home \in [Req -> Instance]
  /\ cancelled = {}
  /\ admitted = {}

Goto(r, l) == pc' = [pc EXCEPT ![r] = l]
LoopTo(i, l) == loop' = [loop EXCEPT ![i] = l]

(***************************************************************************)
(* A request: Limiter.Allow over FailoverStore.Increment.                  *)
(***************************************************************************)
\* degraded.Load() routes the request.
Increment(r) ==
  /\ pc[r] = "new"
  /\ Goto(r, IF degraded[home[r]] THEN "fallback" ELSE "primary")
  /\ UNCHANGED <<up, store, flags, home, cancelled, admitted>>

\* The primary counts the request; Allow compares after the increment.
PrimaryAnswers(r) ==
  /\ pc[r] = "primary"
  /\ up /\ home[r] \notin closed /\ r \notin cancelled
  /\ shared' = shared + 1
  /\ admitted' = IF shared' <= Limit THEN admitted \cup {r} ELSE admitted
  /\ Goto(r, "answered")
  /\ UNCHANGED <<up, memory, flags, home, cancelled>>

\* An error, a closed client, a timeout after the script already ran, or a
\* context that is cancelled: each is ErrStoreUnavailable.
PrimaryUnavailable(r) ==
  /\ pc[r] = "primary"
  /\ ~up \/ home[r] \in closed \/ r \in cancelled
  /\ shared' \in {shared, shared + 1}
  /\ Goto(r, "mark")
  /\ UNCHANGED <<up, memory, flags, home, cancelled, admitted>>

\* markDegraded: CompareAndSwap(false, true).
MarkDegraded(r) ==
  /\ pc[r] = "mark"
  /\ degraded' = [degraded EXCEPT ![home[r]] = TRUE]
  /\ Goto(r, IF degraded[home[r]] THEN "fallback" ELSE "send")
  /\ UNCHANGED <<up, store, signal, loop, done, closed, home, cancelled, admitted>>

\* Mutant: the channel has no buffer, so the send needs a waiting receiver.
Send_Unbuffered(r) ==
  /\ pc[r] = "send"
  /\ signal' = [signal EXCEPT ![home[r]] = loop[home[r]] = "wait"]
  /\ Goto(r, "fallback")
  /\ UNCHANGED <<up, store, degraded, loop, done, closed, home, cancelled, admitted>>

\* markDegraded: the send that does not block; a token already there is enough.
Send(r) ==
  /\ pc[r] = "send"
  /\ signal' = [signal EXCEPT ![home[r]] = TRUE]
  /\ Goto(r, "fallback")
  /\ UNCHANGED <<up, store, degraded, loop, done, closed, home, cancelled, admitted>>

\* The fallback counts the request, unless its context is cancelled: then
\* nothing is counted and the tier's outage policy answers a client that left.
Fallback(r) ==
  /\ pc[r] = "fallback"
  /\ \/ /\ r \notin cancelled
        /\ memory' = [memory EXCEPT ![home[r]] = @ + 1]
        /\ admitted' = IF memory'[home[r]] <= Limit THEN admitted \cup {r} ELSE admitted
     \/ /\ r \in cancelled
        /\ UNCHANGED <<memory, admitted>>
  /\ Goto(r, "answered")
  /\ UNCHANGED <<up, shared, flags, home, cancelled>>

(***************************************************************************)
(* The reprobe goroutine.                                                  *)
(***************************************************************************)
\* A token arrives: start probing at the base interval.
Wake(i) ==
  /\ loop[i] = "wait"
  /\ signal[i]
  /\ signal' = [signal EXCEPT ![i] = FALSE]
  /\ LoopTo(i, "check")
  /\ UNCHANGED <<up, store, degraded, done, closed, request>>

\* The loop condition degraded.Load().
CheckDegraded(i) ==
  /\ loop[i] = "check"
  /\ LoopTo(i, IF degraded[i] THEN "timer" ELSE "leave")
  /\ UNCHANGED <<up, store, degraded, signal, done, closed, request>>

TimerFires(i) ==
  /\ loop[i] = "timer"
  /\ LoopTo(i, "probe")
  /\ UNCHANGED <<up, store, degraded, signal, done, closed, request>>

\* probeHealthy, bounded by probeTimeout; a failure grows the interval.
Probe(i) ==
  /\ loop[i] = "probe"
  /\ LoopTo(i, IF up THEN "switch" ELSE "check")
  /\ UNCHANGED <<up, store, degraded, signal, done, closed, request>>

\* Mutant: the fallback's counts are discarded when the primary recovers.
SwitchBack_Discards(i) ==
  /\ loop[i] = "switch"
  /\ degraded' = [degraded EXCEPT ![i] = FALSE]
  /\ memory' = [memory EXCEPT ![i] = 0]
  /\ LoopTo(i, "leave")
  /\ UNCHANGED <<up, shared, signal, done, closed, request>>

SwitchBack(i) ==
  /\ loop[i] = "switch"
  /\ degraded' = [degraded EXCEPT ![i] = FALSE]
  /\ LoopTo(i, "leave")
  /\ UNCHANGED <<up, store, signal, done, closed, request>>

\* The loop is left and the goroutine is back at the channel.
BackToWait(i) ==
  /\ loop[i] = "leave"
  /\ LoopTo(i, "wait")
  /\ UNCHANGED <<up, store, degraded, signal, done, closed, request>>

\* Mutant: done is not one of the cases of the timer's select.
SeeDone_OnlyWaiting(i) ==
  /\ loop[i] = "wait"
  /\ done[i]
  /\ LoopTo(i, "stopped")
  /\ UNCHANGED <<up, store, degraded, signal, done, closed, request>>

\* Either select may take the done case once done is closed.
SeeDone(i) ==
  /\ loop[i] \in {"wait", "timer"}
  /\ done[i]
  /\ LoopTo(i, "stopped")
  /\ UNCHANGED <<up, store, degraded, signal, done, closed, request>>

(***************************************************************************)
(* Close, and the environment.                                             *)
(***************************************************************************)
CloseDone(i) ==
  /\ ~done[i]
  /\ done' = [done EXCEPT ![i] = TRUE]
  /\ UNCHANGED <<up, store, degraded, signal, loop, closed, request>>

\* Close waits for stopped and then closes the primary's client.
CloseStores(i) ==
  /\ done[i] /\ i \notin closed
  /\ loop[i] = "stopped"
  /\ closed' = closed \cup {i}
  /\ UNCHANGED <<up, store, degraded, signal, loop, done, request>>

Cancel(r) ==
  /\ pc[r] # "answered" /\ r \notin cancelled
  /\ cancelled' = cancelled \cup {r}
  /\ UNCHANGED <<up, store, flags, pc, home, admitted>>

PrimaryToggles ==
  /\ up' = ~up
  /\ UNCHANGED <<store, flags, request>>

RequestStep(r) ==
  \/ Increment(r) \/ PrimaryAnswers(r) \/ PrimaryUnavailable(r)
  \/ MarkDegraded(r) \/ Send(r) \/ Fallback(r)

LoopStep(i) ==
  \/ Wake(i) \/ CheckDegraded(i) \/ TimerFires(i) \/ Probe(i) \/ SwitchBack(i)
  \/ BackToWait(i)

Next ==
  \/ \E r \in Req : RequestStep(r) \/ Cancel(r)
  \/ \E i \in Instance : LoopStep(i) \/ SeeDone(i) \/ CloseDone(i) \/ CloseStores(i)
  \/ PrimaryToggles

Spec == Init /\ [][Next]_vars

\* Goroutines that can run do run, and a select with a ready case does not
\* pass it over for ever (Go picks among ready cases at random).
Fairness ==
  /\ \A r \in Req : WF_vars(MarkDegraded(r)) /\ WF_vars(Send(r))
  /\ \A i \in Instance :
       WF_vars(LoopStep(i)) /\ SF_vars(SeeDone(i)) /\ WF_vars(CloseStores(i))

(***************************************************************************)
(* Properties.                                                             *)
(***************************************************************************)
\* "limits stay ENFORCED per instance and are never disabled or bypassed"
\* (FailoverStore): however often the primary comes and goes, the window lets
\* through at most Limit requests of an instance on the primary's count and
\* Limit on its own.  This rests on SwitchBack leaving the fallback's counts
\* alone: the same comment says they "are discarded when the Primary recovers"
\* (failover.go:48-50), which the code does not do and which would break it.
EnforcedWhileFlapping ==
  \A i \in Instance : Cardinality({r \in admitted : home[r] = i}) <= 2 * Limit

\* A primary that stays up is used again, unless the store is closed.
Recovers ==
  \A i \in Instance : <>[](up /\ ~done[i]) => []<>(~degraded[i])

\* Close returns, whatever the primary does.
CloseReturns == \A i \in Instance : done[i] ~> i \in closed
===============================================================================
