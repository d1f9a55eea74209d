------------------------------- MODULE MCPublish -------------------------------
(***************************************************************************)
(* Publish for TLC in two settings; a behaviour stays in the one it starts *)
(* in: one key on one device while the other services commit, and several  *)
(* keys and devices under two requests of their owner while nothing else   *)
(* changes.                                                                *)
(***************************************************************************)
EXTENDS Publish, TLC

VARIABLE setting

Quiet == INSTANCE Publish WITH Deletes <- FALSE, MaxCommits <- 0

OneKey ==
  /\ Cardinality({d \in Device : device[d] # "none"}) = 1
  /\ Cardinality({q \in Req : pc[q] # "idle"}) <= 1
  /\ \A q \in Req : pc[q] = "create" => key[arg[q].key] # "none"

MCInit == setting \in {"gates", "keys"} /\ Init

MCNext ==
  /\ \/ setting = "gates" /\ Next /\ OneKey'
     \/ setting = "keys" /\ Quiet!Next
  /\ UNCHANGED setting

MCSpec == MCInit /\ [][MCNext]_<<vars, setting>>

Symmetry == Permutations(Device) \cup Permutations(Key) \cup Permutations(Req)
================================================================================
