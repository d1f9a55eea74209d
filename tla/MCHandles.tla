------------------------------- MODULE MCHandles -------------------------------
(***************************************************************************)
(* Handles for TLC in five settings; a behaviour stays in the one it       *)
(* starts in.  Names are numbers; 2 looks like 1.                          *)
(*                                                                         *)
(*   sqlite     renames and sweeps of two owners, one write at a time      *)
(*   renames    two renames of one owner together, on Postgres             *)
(*   holds      two owners after the same two names, on Postgres           *)
(*   boot       two replicas boot under a rename and a sweep, on Postgres  *)
(*   recompute  two replicas boot on any table of up to three rows         *)
(***************************************************************************)
EXTENDS Handles, TLC

VARIABLE setting

Names == 1 .. 4
Folds == [n \in Names |-> IF n = 2 THEN 1 ELSE n]

\* Every table of up to three rows: one row for a name, one active row for an owner.
SomeTables ==
  {t \in UNION {[1 .. k -> [name : 1 .. 3, owner : Owner, state : {"active", "quarantined"}]] : k \in 0 .. 3} :
     \A i, j \in DOMAIN t : i # j =>
       /\ t[i].name # t[j].name
       /\ t[i].owner = t[j].owner => ~(t[i].state = "active" /\ t[j].state = "active")}

\* An owner with a look-alike among their holds, the original someone else's.
HeldLookalike ==
  {t \in SomeTables :
     /\ Len(t) = 3 /\ \A i \in 1 .. 3 : t[i].name = i
     /\ t[1].owner # t[2].owner /\ t[2].owner = t[3].owner
     /\ <<t[1].state, t[2].state, t[3].state>> = <<"active", "quarantined", "active">>}

Sqlite == INSTANCE Handles WITH Legacies <- {<<>>}
Renames == INSTANCE Handles WITH Legacies <- {<<>>}, Serialized <- FALSE, MaxTime <- 1
Holds == INSTANCE Handles WITH Legacies <- {<<>>}, Serialized <- FALSE
Boot == INSTANCE Handles WITH Legacies <- HeldLookalike, Serialized <- FALSE

NoBoot == \A p \in Replica : pc[p] = "idle"
NoRename == \A r \in Req : pc[r] = "idle"
OneRename == \A r, q \in Req : pc[r] # "idle" /\ pc[q] # "idle" => r = q
OneOwner == \E o \in Owner : HeldBy(handle, o) = {}
Within(names) ==
  /\ \A n \in Name : handle[n].id # 0 => n \in names
  /\ \A r \in Req : name[r] \in names \cup {0}

MCInit ==
  \/ setting = "sqlite" /\ Sqlite!Init
  \/ setting = "renames" /\ Renames!Init
  \/ setting = "holds" /\ Holds!Init
  \/ setting = "boot" /\ Boot!Init
  \/ setting = "recompute" /\ Init

MCNext ==
  /\ \/ setting = "sqlite" /\ Sqlite!Next /\ NoBoot'
     \/ setting = "renames" /\ Renames!Next /\ NoBoot' /\ OneOwner' /\ Within({1, 3, 4})'
     \/ setting = "holds" /\ Holds!Next /\ NoBoot' /\ Within({3, 4})'
     \/ setting = "boot" /\ Boot!Next /\ OneRename' /\ Within({1, 2, 3})' /\ nextId' <= 4
     \/ setting = "recompute" /\ Next /\ NoRename' /\ Within({1, 2, 3})' /\ now' = 0
  /\ UNCHANGED setting

MCSpec == MCInit /\ [][MCNext]_<<vars, setting>>

\* Once a replica is up every fold is settled, on a table nothing else writes.
SettlesAlone == setting = "recompute" => RecomputeSettles

Symmetry == Permutations(Req) \cup Permutations(Replica) \cup Permutations(Owner)
================================================================================
