---------------------------- MODULE MCAccessKeys ----------------------------
(***************************************************************************)
(* AccessKeys and Enrollment for TLC in three settings; a behaviour stays  *)
(* in the one it starts in, where one of the two moves.  Keys and calls   *)
(* are interchangeable.                                                    *)
(*                                                                         *)
(*   rotate  calls on three keys on SQLite, where only Verify ends a grace *)
(*           window, and at most two of the keys are minted                *)
(*   sweep   calls and a sweep over two keys on Postgres                   *)
(*   enroll  devices are enrolled and withdrawn; no key is touched         *)
(***************************************************************************)
EXTENDS AccessKeys, EnrollmentConstants, TLC

VARIABLES
  setting,
  enow, estanding, estatus, eowner, elineageOf, eexpiresAt, enextPollAt, elink,
  elive, eattempts, ewindow, epc, epr, eow, eln, eat, edelivered, elost

evars ==
  <<enow, estanding, estatus, eowner, elineageOf, eexpiresAt, enextPollAt, elink,
    elive, eattempts, ewindow, epc, epr, eow, eln, eat, edelivered, elost>>

Enroll ==
  INSTANCE Enrollment
    WITH now <- enow, standing <- estanding, status <- estatus, owner <- eowner,
         lineageOf <- elineageOf, expiresAt <- eexpiresAt, nextPollAt <- enextPollAt,
         link <- elink, live <- elive, attempts <- eattempts, window <- ewindow,
         pc <- epc, pr <- epr, ow <- eow, ln <- eln, at <- eat,
         delivered <- edelivered, lost <- elost

NoSweep == \A w \in Sweeper : spc[w] = "idle"
TwoKeys == \E k \in Key : status[k] = "none" /\ \A r \in Req : k \notin {key[r], new[r]}

\* The last key left replaces another; it is not minted.
LastReplaces ==
  (\E k \in Key : Fresh(k)) \/ \E k \in Key : replacedBy[k] # NoKey \/ \E r \in Req : new[r] = k

MCInit ==
  /\ setting \in {"rotate", "sweep", "enroll"}
  /\ Init /\ Enroll!Init
  /\ setting = "sweep" <=> engine = "postgres"

MCNext ==
  /\ \/ setting = "rotate" /\ Next /\ NoSweep' /\ LastReplaces' /\ UNCHANGED evars
     \/ setting = "sweep" /\ Next /\ TwoKeys' /\ UNCHANGED evars
     \/ setting = "enroll" /\ Enroll!Next /\ UNCHANGED vars
  /\ UNCHANGED setting

MCSpec == MCInit /\ [][MCNext]_<<vars, evars, setting>>

\* Tokens go to the account that approved the pairing: the row, the link and
\* the tokens name the same owner, whatever approvals raced (Approve, "two
\* owners racing to approve one pairing resolve to exactly one winner").
DeliveredToApprover == Enroll!DeliveredToApprover

\* No live lineage goes unrecorded: it is on a redeemed pairing, or its request
\* is still going to consume or revoke it, or that request failed (Redeem, "a
\* loser's just-issued lineage is revoked before this returns").
NoStrayLineage == Enroll!NoStrayLineage

Symmetry == Permutations(Key) \cup Permutations(Req)
=============================================================================
