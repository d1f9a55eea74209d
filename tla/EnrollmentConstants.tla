-------------------------- MODULE EnrollmentConstants --------------------------
(* The identifiers and the limits of device enrollment. *)
EXTENDS Naturals

CONSTANTS
  Pairing,  \* pairing identifiers, each with its device and user code
  Owner,    \* accounts
  Nobody,   \* the absent owner, pairing or lineage
  Lineage,  \* refresh lineages
  PairingLifetime,      \* life of a pairing, and the approval limiter's window
  PairingPollInterval,  \* minimum gap between two polls
  MaxApprovalAttempts,  \* user codes an owner may submit per window
  MaxTicks              \* bound on the clock, for model checking

ASSUME NobodyAssumption == Nobody \notin Owner
================================================================================
