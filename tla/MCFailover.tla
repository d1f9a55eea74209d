------------------------------ MODULE MCFailover ------------------------------
(***************************************************************************)
(* Failover, MemoryStore and Retention for TLC: what works in the process  *)
(* behind the requests.  A behaviour stays in the setting it starts in,    *)
(* where one of the three moves:                                           *)
(*                                                                         *)
(*   limiter  requests over a primary that comes and goes; the client of   *)
(*            one of them may leave                                        *)
(*   store    operations of the in-process counter store                   *)
(*   purge    two replicas purge: many records for a short time on SQLite, *)
(*            fewer for longer on Postgres                                 *)
(*   panics   one replica purges on Postgres, the other having been shut   *)
(*            down, and the storage layer may panic                        *)
(*                                                                         *)
(* Requests are numbered in the order in which they arrive: they are       *)
(* otherwise alike, so no behaviour is lost up to their names, and         *)
(* temporal properties can be checked where a symmetry set could not be    *)
(* used.                                                                   *)
(***************************************************************************)
EXTENDS Failover, StoreConstants, RetentionConstants

VARIABLES
  setting,
  clock, resident, value, expires, ops, answer, age,
  engine, now, log, nextId, purger, ctxDone, cutoff, total, victims, failed, gone,
  excused, fails

svars == <<clock, resident, value, expires, ops, answer, age>>
purging == <<now, log, nextId, purger, ctxDone, cutoff, total, victims, failed, gone,
             excused, fails>>
pvars == <<engine, purging>>

Store == INSTANCE MemoryStore WITH now <- clock, expiresAt <- expires
Purge == INSTANCE Retention WITH pc <- purger

InOrder == \A r, s \in Req : r < s /\ pc[r] = "new" => pc[s] = "new"
OneCancelled == Cardinality(cancelled) <= 1

Panic == \E r \in Replica : Purge!BatchPanics(r)
PeerDown ==
  purger[2] = "stopped" \/ Purge!Cancel(2) \/ Purge!SkipFirst(2) \/ Purge!Stop(2)

MCInit ==
  /\ setting \in {"limiter", "store", "purge", "panics"}
  /\ Init /\ Store!Init /\ Purge!Init
  /\ setting # "limiter" => up /\ \A r \in Req : home[r] = CHOOSE i \in Instance : TRUE
  /\ setting # "purge" => engine = "postgres"

MCNext ==
  /\ \/ /\ setting = "limiter" /\ Next /\ InOrder' /\ OneCancelled'
        /\ UNCHANGED <<svars, pvars>>
     \/ setting = "store" /\ Store!Next /\ UNCHANGED <<vars, pvars>>
     \/ /\ setting = "purge" /\ Purge!Next /\ ~Panic
        /\ IF engine = "sqlite" THEN now' <= 1 ELSE Purge!Emit => nextId <= 2
        /\ UNCHANGED <<vars, svars>>
     \/ /\ setting = "panics" /\ Purge!Next /\ PeerDown /\ (Purge!Emit => nextId <= 3)
        /\ UNCHANGED <<vars, svars>>
  /\ UNCHANGED setting

\* The purge is scheduled in the settings in which it moves.
Scheduled == setting \in {"purge", "panics"} /\ engine = "postgres"

PurgeFairness ==
  /\ WF_purging(Scheduled /\ Purge!Tick)
  /\ \A r \in Replica :
       /\ WF_purging(Scheduled /\ Purge!InPass(r))
       /\ WF_purging(Scheduled /\ (Purge!StartPass(r) \/ Purge!SkipFirst(r)))
       /\ SF_purging(Scheduled /\ Purge!Stop(r))

MCSpec == MCInit /\ [][MCNext]_<<vars, svars, pvars, setting>> /\ Fairness /\ PurgeFairness

\* An expired entry outlives fewer than SweepInterval mutating operations, read
\* or not ("expiry active rather than only lazy", counter.Store).
ExpiredAreSwept == Store!ExpiredAreSwept

\* Residency is never observable: the store implements the counter port, with an
\* expired entry read as absent (Increment, Get and Delete of MemoryStore).
ImplementsPort == Store!ImplementsPort

\* pass: whatever was deleted is counted by a record once the pass is over,
\* whether it ended well, failed or was interrupted, or was in a record that
\* could not be written, or in the pass a panic ended.
DeletionsAccounted == Purge!DeletionsAccounted

\* Records past their window are purged in the end, where the clock runs long
\* enough (Scheduler.Run).
PurgedOnPostgres == Scheduled => Purge!AgedArePurged
===============================================================================
