---------------------------- MODULE MCRefreshTokens ----------------------------
(***************************************************************************)
(* RefreshTokens for TLC: requests race, within two instants on SQLite and *)
(* within one on Postgres, or tokens and denylist entries age on SQLite    *)
(* while requests come one at a time.  Requests and credentials are        *)
(* interchangeable.                                                        *)
(***************************************************************************)
EXTENDS RefreshTokens, TLC

OneAtATime == \E r \in Req : \A q \in Req \ {r} : pc[q] = "idle"

MCNext ==
  /\ Next
  /\ \/ engine = "postgres" /\ now' = 0
     \/ engine = "sqlite" /\ (now' <= 1 \/ OneAtATime')

MCSpec == Init /\ [][MCNext]_vars

Symmetry == Permutations(Req) \cup Permutations(Cred)
================================================================================
