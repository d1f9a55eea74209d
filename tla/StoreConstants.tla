----------------------------- MODULE StoreConstants -----------------------------
(* The constants of the in-process counter store. *)
EXTENDS Naturals

CONSTANTS
  Key,            \* the opaque keys
  TTL,            \* the lifetimes callers ask for
  SweepInterval,  \* mutating operations between two purges
  MaxCount,       \* bound on a counter
  MaxClock        \* bound on the clock

ASSUME StoreAssumption ==
  /\ TTL \subseteq Nat \ {0}
  /\ SweepInterval \in Nat \ {0}
  /\ MaxCount \in Nat \ {0}
  /\ MaxClock \in Nat
=================================================================================
