------------------------------- MODULE MCErasure -------------------------------
(***************************************************************************)
(* Erasure for TLC: erasures of an owner with rows in two tables, on       *)
(* either engine, while the services write.  Erasures are interchangeable. *)
(***************************************************************************)
EXTENDS Erasure, TLC

Tables2 == <<"handle", "device">>

Symmetry == Permutations(Eraser)
================================================================================
