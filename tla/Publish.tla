-------------------------------- MODULE Publish --------------------------------
(***************************************************************************)
(* The publish path of one owner (internal/service/publish): a reader is   *)
(* answered from five statements that are in no transaction, while the     *)
(* owner's devices, keys, sets and access keys change.  Devices and keys   *)
(* (internal/service/device, internal/service/publickey) are changed by    *)
(* operations of several auto-committed statements each.  What happens to  *)
(* the other rows is one step per commit; KeySets, Handles and AccessKeys  *)
(* model how those commits come about.                                     *)
(***************************************************************************)
EXTENDS Naturals, FiniteSets

CONSTANTS
  Device, Key,
  SetId,         \* rows of key_sets, each under its name; 0 asks for the default
  Reader,        \* requests to the publish endpoint
  Req,           \* requests of the owner
  None,
  Deletes,       \* TRUE: sets may be deleted
  MaxCommits     \* bound: commits of the other services

ASSUME PublishAssumptions ==
  /\ SetId \subseteq Nat \ {0} /\ {1, 2} \subseteq SetId
  /\ None \notin Device \cup Key
  /\ Deletes \in BOOLEAN
  /\ MaxCommits \in Nat

VARIABLES
  handle, owner,        \* whether the handle is active, and the owner
  device,               \* devices.status
  key, on,              \* public_keys.status and device_id
  state, vis, members,  \* key_sets and key_set_members
  default,              \* the default set
  access,               \* the set's access key: none, live or ended
  rpc, wants, token,    \* a reader: where it is, the set it names, if it has a token
  set, seenVis,         \* the row resolveSet read
  body,                 \* the answer: a set of keys, or None
  pc, arg,              \* a request of the owner: where it is, on which key and device
  since,                \* history: what has been true during the read
  commits               \* how many commits of the other services there were

rows == <<handle, owner, device, key, on, state, vis, members, default, access>>
reader == <<rpc, wants, token, set, seenVis, body>>
request == <<pc, arg>>
vars == <<rows, reader, request, since, commits>>

--------------------------------------------------------------------------------
(***************************************************************************)
(* History: for every reader, the keys that were revoked when it asked and *)
(* those whose device was; whether the handle and the owner were active at *)
(* some time since, the sets that were public, and the sets an access key  *)
(* opened.                                                                 *)
(***************************************************************************)
Observed ==
  [handle |-> handle, owner |-> owner,
   public |-> {s \in SetId : state[s] = "active" /\ vis[s] = "public"},
   opened |-> {s \in SetId : access[s] = "live"}]

Widen(old, obs) ==
  [old EXCEPT !.handle = @ \/ obs.handle, !.owner = @ \/ obs.owner,
              !.public = @ \cup obs.public, !.opened = @ \cup obs.opened]

Nothing == [revoked |-> {}, retired |-> {}, handle |-> FALSE, owner |-> FALSE, public |-> {}, opened |-> {}]

\* Every change of the rows is seen by the readers under way.
Witness == since' = [r \in Reader |-> IF rpc[r] = "idle" THEN Nothing ELSE Widen(since[r], Observed')]

--------------------------------------------------------------------------------
(***************************************************************************)
(* Service.Resolve.                                                        *)
(***************************************************************************)
ReaderGoto(r, there) == rpc' = [rpc EXCEPT ![r] = there]

Answer(r, b) ==
  /\ body' = [body EXCEPT ![r] = b]
  /\ ReaderGoto(r, "answered")

Ask(r) ==
  /\ rpc[r] = "idle"
  /\ wants' \in {[wants EXCEPT ![r] = s] : s \in SetId \cup {0}}
  /\ token' \in {[token EXCEPT ![r] = t] : t \in BOOLEAN}
  /\ ReaderGoto(r, "handle")
  /\ since' = [since EXCEPT ![r] =
       [Widen(Nothing, Observed) EXCEPT !.revoked = {k \in Key : key[k] = "revoked"},
                              !.retired = {k \in Key : on[k] # None /\ device[on[k]] = "revoked"}]]
  /\ UNCHANGED <<rows, set, seenVis, body, request, commits>>

\* resolveOwner: the handle, then the owner.
GetHandle(r) ==
  /\ rpc[r] = "handle"
  /\ IF handle THEN ReaderGoto(r, "owner") /\ UNCHANGED body ELSE Answer(r, None)
  /\ UNCHANGED <<rows, wants, token, set, seenVis, request, since, commits>>

GetOwner(r) ==
  /\ rpc[r] = "owner"
  /\ IF owner THEN ReaderGoto(r, "set") /\ UNCHANGED body ELSE Answer(r, None)
  /\ UNCHANGED <<rows, wants, token, set, seenVis, request, since, commits>>

\* resolveSet: the default or the named set, if it is active.
GetSet(r) ==
  LET s == IF wants[r] = 0 THEN default ELSE wants[r]
  IN  /\ rpc[r] = "set"
      /\ IF state[s] = "active"
         THEN /\ set' = [set EXCEPT ![r] = s]
              /\ seenVis' = [seenVis EXCEPT ![r] = vis[s]]
              /\ ReaderGoto(r, "access")
              /\ UNCHANGED body
         ELSE Answer(r, None) /\ UNCHANGED <<set, seenVis>>
      /\ UNCHANGED <<rows, wants, token, request, since, commits>>

Admits_AnyToken(r) == seenVis[r] = "public" \/ token[r]

\* resolveAccess: a public set is for all, a protected one for its access keys.
Admits(r) == seenVis[r] = "public" \/ (token[r] /\ access[set[r]] = "live")

Access(r) ==
  /\ rpc[r] = "access"
  /\ IF Admits(r) THEN ReaderGoto(r, "list") /\ UNCHANGED body ELSE Answer(r, None)
  /\ UNCHANGED <<rows, wants, token, set, seenVis, request, since, commits>>

List_Unchecked(r) ==
  /\ rpc[r] = "list"
  /\ Answer(r, members[set[r]])
  /\ UNCHANGED <<rows, wants, token, set, seenVis, request, since, commits>>

\* ListActiveByKeySet and render.
List(r) ==
  /\ rpc[r] = "list"
  /\ Answer(r, {k \in members[set[r]] : key[k] = "active"})
  /\ UNCHANGED <<rows, wants, token, set, seenVis, request, since, commits>>

\* A statement that fails is an internal error, and no body.
Fault(r) ==
  /\ rpc[r] \in {"handle", "owner", "set", "access", "list"}
  /\ Answer(r, None)
  /\ UNCHANGED <<rows, wants, token, set, seenVis, request, since, commits>>

Done(r) ==
  /\ rpc[r] = "answered"
  /\ ReaderGoto(r, "idle")
  /\ wants' = [wants EXCEPT ![r] = 0] /\ token' = [token EXCEPT ![r] = FALSE]
  /\ set' = [set EXCEPT ![r] = 0] /\ seenVis' = [seenVis EXCEPT ![r] = None]
  /\ body' = [body EXCEPT ![r] = None]
  /\ since' = [since EXCEPT ![r] = Nothing]
  /\ UNCHANGED <<rows, request, commits>>

--------------------------------------------------------------------------------
(***************************************************************************)
(* The owner's devices and keys.  A request reads, then writes; a failed   *)
(* audit record after the write changes the answer and nothing else.       *)
(***************************************************************************)
NoArg == [key |-> None, device |-> None]

Begin(q, what, k, d) ==
  /\ pc[q] = "idle"
  /\ pc' = [pc EXCEPT ![q] = what]
  /\ arg' = [arg EXCEPT ![q] = [key |-> k, device |-> d]]
  /\ UNCHANGED <<rows, reader, since, commits>>

End(q) ==
  /\ pc' = [pc EXCEPT ![q] = "idle"]
  /\ arg' = [arg EXCEPT ![q] = NoArg]
  /\ UNCHANGED <<reader, commits>>

\* device.Register: one insert.
Register(d) ==
  /\ device[d] = "none"
  /\ device' = [device EXCEPT ![d] = "active"]
  /\ UNCHANGED <<handle, owner, key, on, state, vis, members, default, access, reader, request, commits>>
  /\ Witness

\* publickey.Add: the device must be active; one key per fingerprint.
Add(q) == \E k \in Key, d \in Device : device[d] = "active" /\ Begin(q, "create", k, d)

CreateKey(q) ==
  /\ pc[q] = "create"
  /\ IF key[arg[q].key] = "none"
     THEN /\ key' = [key EXCEPT ![arg[q].key] = "active"]
          /\ on' = [on EXCEPT ![arg[q].key] = arg[q].device]
     ELSE UNCHANGED <<key, on>>
  /\ End(q)
  /\ UNCHANGED <<handle, owner, device, state, vis, members, default, access>>
  /\ Witness

\* publickey.Revoke
Revoke(q) == \E k \in Key : key[k] = "active" /\ Begin(q, "revoke", k, None)

RevokeKey(q) ==
  /\ pc[q] = "revoke"
  /\ key' = [key EXCEPT ![arg[q].key] = "revoked"]
  /\ End(q)
  /\ UNCHANGED <<handle, owner, device, on, state, vis, members, default, access>>
  /\ Witness

\* device.Revoke
RevokeDevice(q) == \E d \in Device : device[d] = "active" /\ Begin(q, "retire", None, d)

RetireDevice(q) ==
  /\ pc[q] = "retire"
  /\ device' = [device EXCEPT ![arg[q].device] = "revoked"]
  /\ End(q)
  /\ UNCHANGED <<handle, owner, key, on, state, vis, members, default, access>>
  /\ Witness

--------------------------------------------------------------------------------
(***************************************************************************)
(* Commits of the other services, and of an operator.                      *)
(***************************************************************************)
Commit ==
  /\ commits < MaxCommits
  /\ commits' = commits + 1
  /\ Witness

\* keyset.SetVisibility
SetVisibility(s) ==
  /\ state[s] = "active"
  /\ vis' = [vis EXCEPT ![s] = IF @ = "public" THEN "protected" ELSE "public"]
  /\ UNCHANGED <<handle, owner, device, key, on, state, members, default, access, reader, request>>
  /\ Commit

\* keyset.Rename: a new row takes the members, the visibility and the flag.
RenameSet(s, t) ==
  /\ state[s] = "active" /\ state[t] = "none"
  /\ state' = [state EXCEPT ![s] = "quarantined", ![t] = "active"]
  /\ vis' = [vis EXCEPT ![t] = vis[s]]
  /\ members' = [members EXCEPT ![t] = members[s]]
  /\ default' = IF default = s THEN t ELSE default
  /\ UNCHANGED <<handle, owner, device, key, on, access, reader, request>>
  /\ Commit

\* keyset.SetDefault
SetDefault(s) ==
  /\ state[s] = "active" /\ default # s
  /\ default' = s
  /\ UNCHANGED <<handle, owner, device, key, on, state, vis, members, access, reader, request>>
  /\ Commit

\* keyset.Delete: not the default; the rows of its access keys, live or ended,
\* refer to the set and keep it.
DeleteSet(s) ==
  /\ Deletes
  /\ state[s] = "active" /\ s # default /\ access[s] = "none"
  /\ state' = [state EXCEPT ![s] = "gone"]
  /\ members' = [members EXCEPT ![s] = {}]
  /\ UNCHANGED <<handle, owner, device, key, on, vis, default, access, reader, request>>
  /\ Commit

\* accesskey.Mint, and Revoke or the end of the grace window.
Mint(s) ==
  /\ state[s] = "active" /\ access[s] # "live"
  /\ access' = [access EXCEPT ![s] = "live"]
  /\ UNCHANGED <<handle, owner, device, key, on, state, vis, members, default, reader, request>>
  /\ Commit

Lapse(s) ==
  /\ access[s] = "live"
  /\ access' = [access EXCEPT ![s] = "ended"]
  /\ UNCHANGED <<handle, owner, device, key, on, state, vis, members, default, reader, request>>
  /\ Commit

\* handle.Rename away from the name the readers use, and back.
MoveHandle ==
  /\ handle' = ~handle
  /\ UNCHANGED <<owner, device, key, on, state, vis, members, default, access, reader, request>>
  /\ Commit

\* Owners.UpdateStatus: suspension by an operator, and its end.
Suspend ==
  /\ owner' = ~owner
  /\ UNCHANGED <<handle, device, key, on, state, vis, members, default, access, reader, request>>
  /\ Commit

--------------------------------------------------------------------------------
\* bootstrap.Seed made the default set 1 with one key on one device; set 2 was
\* created after it.
Init ==
  /\ handle = TRUE
  /\ owner = TRUE
  /\ \E d \in Device, seeded \in Key :
       /\ device = [e \in Device |-> IF e = d THEN "active" ELSE "none"]
       /\ key = [k \in Key |-> IF k = seeded THEN "active" ELSE "none"]
       /\ on = [k \in Key |-> IF k = seeded THEN d ELSE None]
       /\ members = [s \in SetId |-> IF s = 1 THEN {seeded} ELSE {}]
  /\ state = [s \in SetId |-> IF s \in {1, 2} THEN "active" ELSE "none"]
  /\ vis = [s \in SetId |-> IF s = 1 THEN "public" ELSE "protected"]
  /\ default = 1
  /\ access = [s \in SetId |-> "none"]
  /\ rpc = [r \in Reader |-> "idle"]
  /\ wants = [r \in Reader |-> 0]
  /\ token = [r \in Reader |-> FALSE]
  /\ set = [r \in Reader |-> 0]
  /\ seenVis = [r \in Reader |-> None]
  /\ body = [r \in Reader |-> None]
  /\ pc = [q \in Req |-> "idle"]
  /\ arg = [q \in Req |-> NoArg]
  /\ since = [r \in Reader |-> Nothing]
  /\ commits = 0

Resolve(r) == GetHandle(r) \/ GetOwner(r) \/ GetSet(r) \/ Access(r) \/ List(r) \/ Fault(r)

Manage(q) ==
  \/ Add(q) \/ CreateKey(q) \/ Revoke(q) \/ RevokeKey(q) \/ RevokeDevice(q) \/ RetireDevice(q)

Next ==
  \/ \E r \in Reader : Ask(r) \/ Resolve(r) \/ Done(r)
  \/ \E q \in Req : Manage(q)
  \/ \E d \in Device : Register(d)
  \/ \E s \in SetId : SetVisibility(s) \/ SetDefault(s) \/ DeleteSet(s) \/ Mint(s) \/ Lapse(s)
  \/ \E s, t \in SetId : RenameSet(s, t)
  \/ MoveHandle
  \/ Suspend

Spec == Init /\ [][Next]_vars

--------------------------------------------------------------------------------
\* Rows and readers are well formed.
TypeOK ==
  /\ {handle, owner} \subseteq BOOLEAN
  /\ device \in [Device -> {"none", "active", "revoked"}]
  /\ key \in [Key -> {"none", "active", "revoked"}]
  /\ \A k \in Key : key[k] # "none" => on[k] \in Device /\ device[on[k]] # "none"
  /\ state \in [SetId -> {"none", "active", "quarantined", "gone"}]
  /\ vis \in [SetId -> {"public", "protected"}]
  /\ members \in [SetId -> SUBSET Key]
  /\ default \in SetId /\ state[default] = "active"
  /\ access \in [SetId -> {"none", "live", "ended"}]
  /\ \A r \in Reader : rpc[r] \in {"access", "list"} => set[r] \in SetId

\* Resolve: no body holds a key that was revoked before the request began,
\* whichever rows changed while it ran.
RevokedStaysUnserved ==
  \A r \in Reader : body[r] # None => body[r] \cap since[r].revoked = {}

\* Resolve: a body was given only if the handle was active and the owner in
\* good standing while the request ran, and its set was public or opened by the
\* reader's access key.
GatesHeld ==
  \A r \in Reader : body[r] # None =>
    /\ since[r].handle /\ since[r].owner
    /\ set[r] \in since[r].public \/ (token[r] /\ set[r] \in since[r].opened)

\* device.Revoke: a device is revoked as a unit; a reader who asks afterwards
\* gets no key of it.
RevokedDeviceIsSilent ==
  \A r \in Reader : body[r] # None => body[r] \cap since[r].retired = {}

================================================================================
