--------------------------- MODULE RetentionConstants ---------------------------
(* The constants of the audit retention purge. *)
EXTENDS Integers

CONSTANTS
  Replica,      \* the processes that run a Scheduler
  RetentionWindow, Batch, MaxPerRun,   \* the configured policy
  MaxTime, MaxRecords, MaxFails        \* bounds

ASSUME RetentionAssumptions ==
  /\ {RetentionWindow, Batch, MaxPerRun} \subseteq Nat \ {0}
  /\ {MaxTime, MaxRecords, MaxFails} \subseteq Nat
=================================================================================
