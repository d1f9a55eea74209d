------------------------------- MODULE Enrollment -------------------------------
(***************************************************************************)
(* Device enrollment (internal/auth/enrollment.go, apitoken.go and         *)
(* authenticator.go over internal/storage/{sqlite,postgres}/pairing.go).   *)
(*                                                                         *)
(* No operation here is a transaction: every statement commits by itself,  *)
(* so each one is a step and any two requests interleave between           *)
(* statements, on either storage engine.  A lineage stands for the tokens  *)
(* TokenService.Issue starts; what becomes of it is module RefreshTokens.  *)
(***************************************************************************)
EXTENDS EnrollmentConstants

CONSTANT Req  \* concurrent requests

VARIABLES
  now,        \* the clock
  standing,   \* owners that are active and not deleted
  status,     \* device_pairings, column by column; "none": no such row
  owner,
  lineageOf,  \* lineage_id
  expiresAt,
  nextPollAt,
  link,       \* linked_identities: the owner a pairing's principal resolves to
  live,       \* lineages with an active refresh credential
  attempts,   \* the approval limiter's counter, saturating, and its expiry
  window,
  pc,         \* next statement of each request
  pr,         \* the pairing a request works on
  ow,         \* the owner it acts for or has resolved
  ln,         \* the lineage it has issued or has read
  at,         \* its clock reading
  delivered,  \* history: <<pairing, owner, lineage>> whose tokens a client received
  lost        \* history: lineages whose compensation failed or was never run

row     == <<status, owner, lineageOf, expiresAt, nextPollAt>>
limiter == <<attempts, window>>
local   == <<pr, ow, ln, at>>
ghost   == <<delivered, lost>>
vars    == <<now, standing, row, link, live, limiter, pc, local, ghost>>

Location == {"idle", "mint_link", "approve_lookup", "approve_write", "approve_link",
             "resolve", "standing", "get", "issue", "consume", "compensate",
             "poll_refuse", "poll_pending", "poll_ready", "poll_stop",
             "revoke_write", "revoke_lineage"}

TypeOK ==
  /\ now \in Nat
  /\ standing \subseteq Owner
  /\ status \in [Pairing -> {"none", "pending", "approved", "redeemed", "revoked"}]
  /\ owner \in [Pairing -> Owner \cup {Nobody}]
  /\ lineageOf \in [Pairing -> Lineage \cup {Nobody}]
  /\ expiresAt \in [Pairing -> Nat]
  /\ nextPollAt \in [Pairing -> Nat]
  /\ link \in [Pairing -> Owner \cup {Nobody}]
  /\ live \subseteq Lineage
  /\ attempts \in [Owner -> Nat]
  /\ window \in [Owner -> Nat]
  /\ pc \in [Req -> Location]
  /\ pr \in [Req -> Pairing \cup {Nobody}]
  /\ \A r \in Req : pc[r] # "idle" => pr[r] \in Pairing
  /\ ow \in [Req -> Owner \cup {Nobody}]
  /\ ln \in [Req -> Lineage \cup {Nobody}]
  /\ at \in [Req -> Nat]
  /\ delivered \subseteq Pairing \X Owner \X Lineage
  /\ lost \subseteq Lineage

Init ==
  /\ now = 0
  /\ standing = Owner
  /\ status = [p \in Pairing |-> "none"]
  /\ owner = [p \in Pairing |-> Nobody]
  /\ lineageOf = [p \in Pairing |-> Nobody]
  /\ expiresAt = [p \in Pairing |-> 0]
  /\ nextPollAt = [p \in Pairing |-> 0]
  /\ link = [p \in Pairing |-> Nobody]
  /\ live = {}
  /\ attempts = [o \in Owner |-> 0]
  /\ window = [o \in Owner |-> 0]
  /\ pc = [r \in Req |-> "idle"]
  /\ pr = [r \in Req |-> Nobody]
  /\ ow = [r \in Req |-> Nobody]
  /\ ln = [r \in Req |-> Nobody]
  /\ at = [r \in Req |-> 0]
  /\ delivered = {}
  /\ lost = {}

Goto(r, l) == pc' = [pc EXCEPT ![r] = l]

\* The request returns; its local state is gone.
Return(r) ==
  /\ pc' = [pc EXCEPT ![r] = "idle"]
  /\ pr' = [pr EXCEPT ![r] = Nobody]
  /\ ow' = [ow EXCEPT ![r] = Nobody]
  /\ ln' = [ln EXCEPT ![r] = Nobody]
  /\ at' = [at EXCEPT ![r] = 0]

(***************************************************************************)
(* Creating a pairing.                                                     *)
(***************************************************************************)
\* create: INSERT of a row in status s for owner o.
create(p, s, o) ==
  /\ status[p] = "none"
  /\ status' = [status EXCEPT ![p] = s]
  /\ owner' = [owner EXCEPT ![p] = o]
  /\ expiresAt' = [expiresAt EXCEPT ![p] = now + PairingLifetime]
  /\ nextPollAt' = [nextPollAt EXCEPT ![p] = now]
  /\ UNCHANGED lineageOf

StartDeviceGrant(p) ==
  /\ create(p, "pending", Nobody)
  /\ UNCHANGED <<now, standing, link, live, limiter, pc, local, ghost>>

\* Mint: create and link are two auto-committed writes.
Mint(r, p, o) ==
  /\ pc[r] = "idle"
  /\ create(p, "approved", o)
  /\ Goto(r, "mint_link")
  /\ pr' = [pr EXCEPT ![r] = p]
  /\ ow' = [ow EXCEPT ![r] = o]
  /\ UNCHANGED <<now, standing, link, live, limiter, ln, at, ghost>>

\* MintInto: both writes commit with the caller's transaction.
MintInto(p, o) ==
  /\ create(p, "approved", o)
  /\ link' = [link EXCEPT ![p] = o]
  /\ UNCHANGED <<now, standing, live, limiter, pc, local, ghost>>

\* link: INSERT of the linked identity, on behalf of Mint and of Approve.
Link(r) ==
  /\ pc[r] \in {"mint_link", "approve_link"}
  /\ link' = [link EXCEPT ![pr[r]] = ow[r]]
  /\ Return(r)
  /\ UNCHANGED <<now, standing, row, live, limiter, ghost>>

(***************************************************************************)
(* Approve, by owner o who has typed the user code of p.                   *)
(***************************************************************************)
\* checkApprovalLimit over a fixed-window counter.  Values above the limit are
\* all the same, so the counter saturates.
checkApprovalLimit(r, p, o) ==
  LET value == IF now < window[o] THEN attempts[o] + 1 ELSE 1
  IN /\ pc[r] = "idle"
     /\ window' = [window EXCEPT ![o] = IF now < @ THEN @ ELSE now + PairingLifetime]
     /\ attempts' = [attempts EXCEPT ![o] =
          IF value > MaxApprovalAttempts THEN MaxApprovalAttempts + 1 ELSE value]
     /\ \/ /\ value > MaxApprovalAttempts
           /\ UNCHANGED <<pc, local>>
        \/ /\ value <= MaxApprovalAttempts
           /\ Goto(r, "approve_lookup")
           /\ pr' = [pr EXCEPT ![r] = p]
           /\ ow' = [ow EXCEPT ![r] = o]
           /\ at' = [at EXCEPT ![r] = now]
           /\ UNCHANGED ln
     /\ UNCHANGED <<now, standing, row, link, live, ghost>>

\* GetByUserCodeHash, and the checks on what it returned.
ApproveLookup(r) ==
  /\ pc[r] = "approve_lookup"
  /\ \/ /\ status[pr[r]] = "pending" /\ at[r] < expiresAt[pr[r]]
        /\ Goto(r, "approve_write")
        /\ UNCHANGED local
     \/ /\ status[pr[r]] # "pending" \/ at[r] >= expiresAt[pr[r]]
        /\ Return(r)
  /\ UNCHANGED <<now, standing, row, link, live, limiter, ghost>>

\* Mutant: UPDATE without "AND status = 'pending'".
ApproveWrite_Unconditional(r) ==
  /\ pc[r] = "approve_write"
  /\ status' = [status EXCEPT ![pr[r]] = "approved"]
  /\ owner' = [owner EXCEPT ![pr[r]] = ow[r]]
  /\ Goto(r, "approve_link")
  /\ UNCHANGED <<now, standing, lineageOf, expiresAt, nextPollAt, link, live, limiter, local, ghost>>

\* UPDATE ... WHERE status = 'pending'.
ApproveWrite(r) ==
  /\ pc[r] = "approve_write"
  /\ \/ /\ status[pr[r]] = "pending"
        /\ status' = [status EXCEPT ![pr[r]] = "approved"]
        /\ owner' = [owner EXCEPT ![pr[r]] = ow[r]]
        /\ Goto(r, "approve_link")
        /\ UNCHANGED <<lineageOf, expiresAt, nextPollAt, local>>
     \/ /\ status[pr[r]] # "pending"
        /\ Return(r)
        /\ UNCHANGED row
  /\ UNCHANGED <<now, standing, link, live, limiter, ghost>>

(***************************************************************************)
(* Redeem, by a client that holds the device code of p.                    *)
(***************************************************************************)
\* APITokenProvider.Authenticate: the row is approved and has not expired.
AuthenticateDeviceCode(r, p) ==
  /\ pc[r] = "idle"
  /\ status[p] = "approved"
  /\ now < expiresAt[p]
  /\ Goto(r, "resolve")
  /\ pr' = [pr EXCEPT ![r] = p]
  /\ UNCHANGED <<now, standing, row, link, live, limiter, ow, ln, at, ghost>>

\* resolve, first half: the linked identity names the owner.
ResolveLink(r) ==
  /\ pc[r] = "resolve"
  /\ \/ /\ link[pr[r]] # Nobody
        /\ ow' = [ow EXCEPT ![r] = link[pr[r]]]
        /\ Goto(r, "standing")
        /\ UNCHANGED <<pr, ln, at>>
     \/ /\ link[pr[r]] = Nobody
        /\ Return(r)
  /\ UNCHANGED <<now, standing, row, link, live, limiter, ghost>>

\* resolve, second half: the owner is in good standing.
ResolveOwner(r) ==
  /\ pc[r] = "standing"
  /\ \/ /\ ow[r] \in standing
        /\ Goto(r, "get")
        /\ UNCHANGED local
     \/ /\ ow[r] \notin standing
        /\ Return(r)
  /\ UNCHANGED <<now, standing, row, link, live, limiter, ghost>>

\* DevicePairings.Get by id and owner: the status is not looked at again.
GetPairing(r) ==
  /\ pc[r] = "get"
  /\ \/ /\ owner[pr[r]] = ow[r]
        /\ Goto(r, "issue")
        /\ UNCHANGED local
     \/ /\ owner[pr[r]] # ow[r]
        /\ Return(r)
  /\ UNCHANGED <<now, standing, row, link, live, limiter, ghost>>

\* Identifiers nothing refers to: they may stand for a new lineage.
Unused ==
  {l \in Lineage : /\ l \notin live \cup lost
                   /\ \A q \in Req : ln[q] # l
                   /\ \A p \in Pairing : lineageOf[p] # l}

\* TokenService.Issue: a new lineage, live from here on, under a random
\* identifier; which unused one it is makes no difference.
IssueLineage(r) ==
  /\ pc[r] = "issue"
  /\ Unused # {}
  /\ LET l == CHOOSE l \in Unused : TRUE IN
       /\ live' = live \cup {l}
       /\ ln' = [ln EXCEPT ![r] = l]
  /\ Goto(r, "consume")
  /\ UNCHANGED <<now, standing, row, link, limiter, pr, ow, at, ghost>>

\* Mutant: the loser of the consume returns without revoking its lineage.
MarkRedeemed_NoCompensation(r) ==
  /\ pc[r] = "consume"
  /\ \/ /\ status[pr[r]] = "approved" /\ owner[pr[r]] = ow[r]
        /\ status' = [status EXCEPT ![pr[r]] = "redeemed"]
        /\ lineageOf' = [lineageOf EXCEPT ![pr[r]] = ln[r]]
        /\ delivered' = delivered \cup {<<pr[r], ow[r], ln[r]>>}
        /\ UNCHANGED <<owner, expiresAt, nextPollAt>>
     \/ /\ ~(status[pr[r]] = "approved" /\ owner[pr[r]] = ow[r])
        /\ UNCHANGED <<row, delivered>>
  /\ Return(r)
  /\ UNCHANGED <<now, standing, link, live, limiter, lost>>

\* UPDATE ... WHERE owner_id = ? AND status = 'approved'; the winner returns its
\* tokens, a loser goes on to revoke what it has issued.
MarkRedeemed(r) ==
  /\ pc[r] = "consume"
  /\ \/ /\ status[pr[r]] = "approved" /\ owner[pr[r]] = ow[r]
        /\ status' = [status EXCEPT ![pr[r]] = "redeemed"]
        /\ lineageOf' = [lineageOf EXCEPT ![pr[r]] = ln[r]]
        /\ delivered' = delivered \cup {<<pr[r], ow[r], ln[r]>>}
        /\ Return(r)
        /\ UNCHANGED <<owner, expiresAt, nextPollAt>>
     \/ /\ ~(status[pr[r]] = "approved" /\ owner[pr[r]] = ow[r])
        /\ Goto(r, "compensate")
        /\ UNCHANGED <<row, delivered, local>>
  /\ UNCHANGED <<now, standing, link, live, limiter, lost>>

\* revokeLineage, on behalf of Redeem and of Revoke.  A storage error is logged
\* and otherwise ignored.
revokeLineage(r) ==
  /\ pc[r] \in {"compensate", "revoke_lineage"}
  /\ \/ live' = live \ {ln[r]} /\ UNCHANGED lost
     \/ lost' = lost \cup {ln[r]} /\ UNCHANGED live
  /\ Return(r)
  /\ UNCHANGED <<now, standing, row, link, limiter, delivered>>

(***************************************************************************)
(* Poll, by a client that holds the device code of p.                      *)
(***************************************************************************)
\* GetByID, and the checks: the answer is decided here and given after Touch.
PollRead(r, p) ==
  /\ pc[r] = "idle"
  /\ status[p] # "none"
  /\ now < expiresAt[p]
  /\ Goto(r, CASE now < nextPollAt[p]                               -> "poll_refuse"
               [] now >= nextPollAt[p] /\ status[p] = "approved"    -> "poll_ready"
               [] now >= nextPollAt[p] /\ status[p] = "pending"     -> "poll_pending"
               [] OTHER                                             -> "poll_stop")
  /\ pr' = [pr EXCEPT ![r] = p]
  /\ at' = [at EXCEPT ![r] = now]
  /\ UNCHANGED <<now, standing, row, link, live, limiter, ow, ln, ghost>>

Touch(r) ==
  /\ pc[r] \in {"poll_refuse", "poll_ready", "poll_pending", "poll_stop"}
  /\ nextPollAt' = [nextPollAt EXCEPT ![pr[r]] = at[r] + PairingPollInterval]
  /\ Return(r)
  /\ UNCHANGED <<now, standing, status, owner, lineageOf, expiresAt, link, live, limiter, ghost>>

(***************************************************************************)
(* Revoke, by owner o.                                                     *)
(***************************************************************************)
\* DevicePairings.Get by id and owner; anything else is "not found".
RevokeGet(r, p, o) ==
  /\ pc[r] = "idle"
  /\ owner[p] = o
  /\ Goto(r, "revoke_write")
  /\ pr' = [pr EXCEPT ![r] = p]
  /\ ow' = [ow EXCEPT ![r] = o]
  /\ ln' = [ln EXCEPT ![r] = lineageOf[p]]
  /\ UNCHANGED <<now, standing, row, link, live, limiter, at, ghost>>

\* UPDATE ... WHERE status IN ('pending', 'approved'); a conflict returns before
\* the lineage is considered.
RevokeWrite(r) ==
  /\ pc[r] = "revoke_write"
  /\ \/ /\ status[pr[r]] \in {"pending", "approved"}
        /\ status' = [status EXCEPT ![pr[r]] = "revoked"]
        /\ \/ /\ ln[r] # Nobody
              /\ Goto(r, "revoke_lineage")
              /\ UNCHANGED local
           \/ /\ ln[r] = Nobody
              /\ Return(r)
        /\ UNCHANGED <<owner, lineageOf, expiresAt, nextPollAt>>
     \/ /\ status[pr[r]] \notin {"pending", "approved"}
        /\ Return(r)
        /\ UNCHANGED row
  /\ UNCHANGED <<now, standing, link, live, limiter, delivered, lost>>

(***************************************************************************)
(* Environment.                                                            *)
(***************************************************************************)
\* A storage error, a canceled context or a crash ends a request between two
\* statements; a lineage it has issued stays behind.
Abort(r) ==
  /\ pc[r] # "idle"
  /\ lost' = IF pc[r] \in {"consume", "compensate"} THEN lost \cup {ln[r]} ELSE lost
  /\ Return(r)
  /\ UNCHANGED <<now, standing, row, link, live, limiter, delivered>>

\* An operator suspends or reinstates an account.
SetStanding(o) ==
  /\ standing' = IF o \in standing THEN standing \ {o} ELSE standing \cup {o}
  /\ UNCHANGED <<now, row, link, live, limiter, pc, local, ghost>>

Tick ==
  /\ now < MaxTicks
  /\ now' = now + 1
  /\ UNCHANGED <<standing, row, link, live, limiter, pc, local, ghost>>

Step(r) ==
  \/ Link(r) \/ ApproveLookup(r) \/ ApproveWrite(r)
  \/ ResolveLink(r) \/ ResolveOwner(r) \/ GetPairing(r) \/ IssueLineage(r)
  \/ MarkRedeemed(r) \/ revokeLineage(r) \/ Touch(r) \/ RevokeWrite(r)

Next ==
  \/ \E p \in Pairing : StartDeviceGrant(p)
  \/ \E p \in Pairing, o \in Owner : MintInto(p, o)
  \/ \E r \in Req, p \in Pairing, o \in Owner :
       Mint(r, p, o) \/ checkApprovalLimit(r, p, o) \/ RevokeGet(r, p, o)
  \/ \E r \in Req, p \in Pairing : AuthenticateDeviceCode(r, p) \/ PollRead(r, p)
  \/ \E r \in Req : Step(r) \/ Abort(r)
  \/ \E o \in Owner : SetStanding(o)
  \/ Tick

Spec == Init /\ [][Next]_vars

(***************************************************************************)
(* Properties.                                                             *)
(***************************************************************************)
\* Tokens go to the account that approved the pairing: the row, the link and
\* the tokens name the same owner, whatever approvals raced (Approve, "two
\* owners racing to approve one pairing resolve to exactly one winner").
DeliveredToApprover ==
  \A d \in delivered : owner[d[1]] = d[2] /\ link[d[1]] = d[2]

\* No live lineage goes unrecorded: it is on a redeemed pairing, or its request
\* is still going to consume or revoke it, or that request failed (Redeem, "a
\* loser's just-issued lineage is revoked before this returns").
NoStrayLineage ==
  \A l \in live :
    \/ \E p \in Pairing : status[p] = "redeemed" /\ lineageOf[p] = l
    \/ \E r \in Req : pc[r] \in {"consume", "compensate"} /\ ln[r] = l
    \/ l \in lost

================================================================================
