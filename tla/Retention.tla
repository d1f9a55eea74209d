------------------------------- MODULE Retention -------------------------------
(***************************************************************************)
(* The audit retention purge: Purger.PurgeOnce, the Scheduler that runs it *)
(* in every replica, and the DELETE they share.  A pass fixes its cutoff,  *)
(* deletes batch after batch, each in a transaction of its own, and        *)
(* records how many it deleted.  It can fail, panic or be cut short by a   *)
(* shutdown between batches, and replicas purge the same table.            *)
(***************************************************************************)
EXTENDS RetentionConstants, FiniteSets

VARIABLES
  engine,      \* the storage engine of the deployment
  now,         \* the wall clock the replicas share
  log,         \* audit_records: [id, at], ids given in order of insertion
  nextId,
  pc,          \* where each Scheduler is
  ctxDone,     \* whether its context has been cancelled
  cutoff, total,   \* of its pass
  victims,     \* the rows its DELETE has chosen
  failed,      \* the pass ended in an error other than the shutdown
  gone,        \* history: how many rows it deleted that no record counts
  excused,     \* history: how many of those were in a record that could not be
               \* written, or in the count a panic lost
  fails

pass == <<cutoff, total, victims, failed>>
moving == <<now, log, nextId, pc, ctxDone, pass, gone, excused, fails>>
vars == <<engine, moving>>

Serialized == engine = "sqlite"

Go(r, from, to) ==
  /\ pc[r] = from
  /\ pc' = [pc EXCEPT ![r] = to]

--------------------------------------------------------------------------------
\* Any service writes a record, stamped with the clock.
Emit ==
  /\ nextId <= MaxRecords
  /\ log' = log \cup {[id |-> nextId, at |-> now]}
  /\ nextId' = nextId + 1
  /\ UNCHANGED <<now, pc, ctxDone, pass, gone, excused, fails>>

Tick ==
  /\ now < MaxTime
  /\ now' = now + 1
  /\ UNCHANGED <<log, nextId, pc, ctxDone, pass, gone, excused, fails>>

Cancel(r) ==
  /\ ~ctxDone[r]
  /\ ctxDone' = [ctxDone EXCEPT ![r] = TRUE]
  /\ UNCHANGED <<now, log, nextId, pc, pass, gone, excused, fails>>

--------------------------------------------------------------------------------
(* Scheduler.Run and Purger.PurgeOnce. *)

Cutoff == now - RetentionWindow

\* Mutant: the ticker is never read.
StartPass_Once(r) ==
  /\ pc[r] = "boot" /\ ~ctxDone[r]
  /\ pc' = [pc EXCEPT ![r] = "loop"]
  /\ cutoff' = [cutoff EXCEPT ![r] = Cutoff]
  /\ total' = [total EXCEPT ![r] = 0]
  /\ failed' = [failed EXCEPT ![r] = FALSE]
  /\ UNCHANGED <<now, log, nextId, ctxDone, victims, gone, excused, fails>>

\* A pass starts: the first one at once unless already cancelled, each other
\* one when the ticker fires, which the select may prefer to a cancellation.
StartPass(r) ==
  /\ \/ pc[r] = "boot" /\ ~ctxDone[r]
     \/ pc[r] = "wait"
  /\ pc' = [pc EXCEPT ![r] = "loop"]
  /\ cutoff' = [cutoff EXCEPT ![r] = Cutoff]
  /\ total' = [total EXCEPT ![r] = 0]
  /\ failed' = [failed EXCEPT ![r] = FALSE]
  /\ UNCHANGED <<now, log, nextId, ctxDone, victims, gone, excused, fails>>

SkipFirst(r) ==
  /\ ctxDone[r]
  /\ Go(r, "boot", "wait")
  /\ UNCHANGED <<now, log, nextId, ctxDone, pass, gone, excused, fails>>

Stop(r) ==
  /\ ctxDone[r]
  /\ Go(r, "wait", "stopped")
  /\ UNCHANGED <<now, log, nextId, ctxDone, pass, gone, excused, fails>>

batchLimit(r) == IF MaxPerRun - total[r] < Batch THEN MaxPerRun - total[r] ELSE Batch

\* The oldest rows at or before the cutoff, as many as the batch holds.
Oldest(S, n) == {x \in S : Cardinality({y \in S : y.at < x.at \/ (y.at = x.at /\ y.id < x.id)}) < n}
Eligible(c) == {x \in log : x.at <= c}

\* What a batch that deleted n rows means to the loop of PurgeOnce.
AfterBatch(r, n) ==
  IF n < batchLimit(r) THEN "drained"
  ELSE IF total[r] + n < MaxPerRun THEN "loop" ELSE "report"

Deleted(r, S) ==
  /\ log' = log \ S
  /\ total' = [total EXCEPT ![r] = @ + Cardinality(log \cap S)]
  /\ gone' = [gone EXCEPT ![r] = @ + Cardinality(log \cap S)]
  /\ pc' = [pc EXCEPT ![r] = AfterBatch(r, Cardinality(log \cap S))]

\* The context is looked at between batches.
Interrupted(r) ==
  /\ ctxDone[r]
  /\ Go(r, "loop", "report")
  /\ UNCHANGED <<now, log, nextId, ctxDone, pass, gone, excused, fails>>

\* PurgeOlderThan where transactions are one at a time.
PurgeBatch(r) ==
  /\ pc[r] = "loop"
  /\ ~ctxDone[r]
  /\ Serialized
  /\ Deleted(r, Oldest(Eligible(cutoff[r]), batchLimit(r)))
  /\ UNCHANGED <<now, nextId, ctxDone, cutoff, victims, failed, excused, fails>>

\* On Postgres the subquery chooses rows another DELETE may be taking.
ChooseBatch(r) ==
  /\ ~Serialized
  /\ ~ctxDone[r]
  /\ Go(r, "loop", "delete")
  /\ victims' = [victims EXCEPT ![r] = Oldest(Eligible(cutoff[r]), batchLimit(r))]
  /\ UNCHANGED <<now, log, nextId, ctxDone, cutoff, total, failed, gone, excused, fails>>

DeleteBatch(r) ==
  /\ pc[r] = "delete"
  /\ Deleted(r, victims[r])
  /\ victims' = [victims EXCEPT ![r] = {}]
  /\ UNCHANGED <<now, nextId, ctxDone, cutoff, failed, excused, fails>>

\* A short batch: PurgeOnce returns what it counted.
Drained(r) ==
  /\ Go(r, "drained", "report")
  /\ UNCHANGED <<now, log, nextId, ctxDone, pass, gone, excused, fails>>

\* The batch fails and is rolled back; those before it stay committed.  The
\* statement in flight when the context is cancelled fails the same way.
BatchFails(r) ==
  /\ pc[r] \in {"loop", "delete"}
  /\ fails < MaxFails
  /\ fails' = fails + 1
  /\ pc' = [pc EXCEPT ![r] = "report"]
  /\ victims' = [victims EXCEPT ![r] = {}]
  /\ failed' = [failed EXCEPT ![r] = ~ctxDone[r]]
  /\ UNCHANGED <<now, log, nextId, ctxDone, cutoff, total, gone, excused>>

\* runGuarded recovers a panic into an error; the count is then the zero of its
\* named result.
BatchPanics(r) ==
  /\ pc[r] \in {"loop", "delete"}
  /\ fails < MaxFails
  /\ fails' = fails + 1
  /\ pc' = [pc EXCEPT ![r] = "report"]
  /\ victims' = [victims EXCEPT ![r] = {}]
  /\ total' = [total EXCEPT ![r] = 0]
  /\ failed' = [failed EXCEPT ![r] = TRUE]
  /\ excused' = [excused EXCEPT ![r] = @ + total[r]]
  /\ UNCHANGED <<now, log, nextId, ctxDone, cutoff, gone>>

Report_Failed(r) ==
  /\ Go(r, "report", "wait")
  /\ IF total[r] > 0 /\ ~failed[r]
     THEN /\ log' = log \cup {[id |-> nextId, at |-> now]}
          /\ nextId' = nextId + 1
          /\ gone' = [gone EXCEPT ![r] = @ - total[r]]
     ELSE UNCHANGED <<log, nextId, gone>>
  /\ UNCHANGED <<now, ctxDone, pass, excused, fails>>

\* pass and report: a pass that deleted something writes a record of the count,
\* failed or not, on a context of its own.
Report(r) ==
  /\ Go(r, "report", "wait")
  /\ IF total[r] > 0
     THEN /\ log' = log \cup {[id |-> nextId, at |-> now]}
          /\ nextId' = nextId + 1
          /\ gone' = [gone EXCEPT ![r] = @ - total[r]]
     ELSE UNCHANGED <<log, nextId, gone>>
  /\ UNCHANGED <<now, ctxDone, pass, excused, fails>>

\* recordPass: the write fails, which is logged and never retried.
ReportFails(r) ==
  /\ total[r] > 0
  /\ fails < MaxFails
  /\ Go(r, "report", "wait")
  /\ fails' = fails + 1
  /\ excused' = [excused EXCEPT ![r] = @ + total[r]]
  /\ UNCHANGED <<now, log, nextId, ctxDone, pass, gone>>

--------------------------------------------------------------------------------
Init ==
  /\ engine \in {"sqlite", "postgres"}
  /\ now = 0
  /\ log = {}
  /\ nextId = 1
  /\ pc = [r \in Replica |-> "boot"]
  /\ ctxDone = [r \in Replica |-> FALSE]
  /\ cutoff = [r \in Replica |-> 0]
  /\ total = [r \in Replica |-> 0]
  /\ victims = [r \in Replica |-> {}]
  /\ failed = [r \in Replica |-> FALSE]
  /\ gone = [r \in Replica |-> 0]
  /\ excused = [r \in Replica |-> 0]
  /\ fails = 0

InPass(r) ==
  \/ Interrupted(r)
  \/ PurgeBatch(r)
  \/ ChooseBatch(r)
  \/ DeleteBatch(r)
  \/ Drained(r)
  \/ Report(r)

Faults(r) == BatchFails(r) \/ BatchPanics(r) \/ ReportFails(r)

Run(r) == StartPass(r) \/ SkipFirst(r) \/ Stop(r) \/ InPass(r)

Next ==
  /\ \/ Emit
     \/ Tick
     \/ \E r \in Replica : Cancel(r) \/ Run(r) \/ Faults(r)
  /\ UNCHANGED engine

Spec == Init /\ [][Next]_vars

\* The goroutine is scheduled, the ticker fires, and a select that finds the
\* context done again and again takes that case in the end.
Fairness ==
  /\ WF_moving(Tick)
  /\ \A r \in Replica :
       WF_moving(InPass(r)) /\ WF_moving(StartPass(r) \/ SkipFirst(r)) /\ SF_moving(Stop(r))

--------------------------------------------------------------------------------
\* Records have distinct ids, a pass counts no more than its ceiling.
TypeOK ==
  /\ now \in 0 .. MaxTime
  /\ \A x \in log : x.id \in 1 .. nextId - 1 /\ x.at \in 0 .. now
  /\ \A x, y \in log : x.id = y.id => x = y
  /\ \A r \in Replica :
       /\ pc[r] \in {"boot", "wait", "loop", "delete", "drained", "report", "stopped"}
       /\ ctxDone[r] \in BOOLEAN
       /\ failed[r] \in BOOLEAN
       /\ excused[r] \in Nat
       /\ pc[r] \in {"loop", "delete", "drained"} => cutoff[r] <= Cutoff
       /\ gone[r] \in Nat
       /\ pc[r] = "stopped" => ctxDone[r]
       /\ Cardinality(victims[r]) <= Batch

\* pass: whatever was deleted is counted by a record once the pass is over,
\* whether it ended well, failed or was interrupted, or was in a record that
\* could not be written, or in the pass a panic ended; passes after such a one
\* account for what they delete again.
DeletionsAccounted ==
  \A r \in Replica : pc[r] \in {"wait", "stopped"} => gone[r] = excused[r]

\* Scheduler.Run: a record past its window is purged in the end by a replica
\* that is not stopped, however many passes fail or stop at the ceiling.
AgedArePurged ==
  \A i \in 1 .. MaxRecords :
    (\E x \in log : x.id = i /\ x.at + RetentionWindow <= MaxTime)
      ~> ((\A x \in log : x.id # i) \/ (\A r \in Replica : ctxDone[r]))
================================================================================
