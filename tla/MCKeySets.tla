------------------------------- MODULE MCKeySets -------------------------------
(***************************************************************************)
(* KeySets and NameGuard for TLC in three settings; a behaviour stays in   *)
(* the one it starts in, where one of the two moves.                       *)
(*                                                                         *)
(*   sqlite    the key sets of one owner, every operation                  *)
(*   postgres  the same, create, rename, delete and mint; what SetDefault  *)
(*             and SetVisibility do there is a run of its own              *)
(*   lists     an administrator edits the lists of two daemons; names are  *)
(*             of up to three glyphs, one stroke more than the bound on    *)
(*             readings                                                    *)
(***************************************************************************)
EXTENDS KeySets, NameGuard, TLC

VARIABLE setting

Postgres == INSTANCE KeySets WITH
  Serialized <- FALSE, MaxTime <- 0, Ops <- {"create", "rename", "delete", "mint"}

MCEntries == {<<"h", "i">>, <<"h", "-", "1">>, <<"l", "l">>}
MCSeeds == {[allow |-> {<<"h", "i">>}, term |-> {<<"l", "l">>}],
            [allow |-> {}, term |-> {<<"h", "-", "i">>}]}
MCIdentifiers ==
  {<<"1", "i">>, <<"i", "-", "1">>, <<"l", "i">>, <<"h", "l">>, <<"h", "1">>,
   <<"-">>, <<"i", "1", "i">>, <<"a", "1", "i">>, <<"h", "h">>}
MCWholeTerms == {<<"h", "l">>}
MCPartTerms == {<<"l", "l">>}

MCInit ==
  /\ setting \in {"sqlite", "postgres", "lists"}
  /\ Init /\ ListsInit
  /\ setting = "lists" => \A i \in DOMAIN sets : sets[i].vis = "protected"
  /\ setting # "lists" => seed.allow = {}

MCNext ==
  /\ \/ setting = "sqlite" /\ Next /\ UNCHANGED listVars
     \/ setting = "postgres" /\ Postgres!Next /\ UNCHANGED listVars
     \/ setting = "lists" /\ ListsNext /\ UNCHANGED vars
  /\ UNCHANGED setting

MCSpec == MCInit /\ [][MCNext]_<<vars, listVars, setting>>

Symmetry == Permutations(Req) \cup Permutations(Procs)
================================================================================
