-------------------------------- MODULE Names --------------------------------
(***************************************************************************)
(* The lists of reserved and exempt names: the skeletons of               *)
(* internal/blocklist, the runtime edits of internal/service/listadmin,   *)
(* and the policy a daemon composes at start from the operator's seed and *)
(* the persisted edits.  Several daemons share one database; each has its *)
(* own lists in memory, a write may fail with or without effect, and a    *)
(* daemon may crash between any two writes of an edit.                    *)
(***************************************************************************)
EXTENDS Naturals, Sequences, FiniteSets

CONSTANTS
  Procs,         \* the daemons
  Entries,       \* the spellings an administrator may list
  Seeds,         \* the seeds the operator may configure, [allow, term]
  MaxEdits,      \* bound on edits
  MaxSeeds       \* bound on changes of the seed

VARIABLES
  seed,          \* what the operator configured
  lists,         \* lists[p]: the lists p enforces, or down
  overrides,     \* list_overrides: the last edit of each list and skeleton
  audited,       \* the edits the audit log records
  edit,          \* edit[p]: the edit that holds p's mutex
  settled,       \* what each edited entry may be, given the answers so far
  active,        \* whether the administrator is still active
  edits, seeds   \* edits begun and seed changes made

listVars == <<seed, lists, overrides, audited, edit, settled, active, edits, seeds>>

Kinds == {"allow", "term"}

-----------------------------------------------------------------------------
(* Skeletons.  A spelling is a sequence of glyphs.                        *)

\* The two tables a short name needs: a digit drawn for a letter, and the
\* separators.
leetspeak == [x \in {"1"} |-> "i"]
isSeparator(g) == g \in {"-", "_"}

writeFolded(g) == IF g \in DOMAIN leetspeak THEN leetspeak[g] ELSE g

Skeleton(s) ==
  LET kept == SelectSeq(s, LAMBDA g : ~isSeparator(g)) IN
  [k \in DOMAIN kept |-> writeFolded(kept[k])]

Skeletons(spellings) == {Skeleton(s) : s \in spellings}

-----------------------------------------------------------------------------
(* Composition at start                                                   *)

Down == [up |-> FALSE]
Rows(kind, state) == {o \in DOMAIN overrides : o[1] = kind /\ overrides[o].state = state}

\* Mutant: what was removed comes back from the seed.
replay_NoTombstone(s, kind) ==
  s \cup {overrides[o].entry : o \in {r \in Rows(kind, "present") :
                                        r[2] \notin Skeletons(s)}}

\* replay: the seed without what was removed, then what was added unless the
\* seed already has it under some spelling.
replay(s, kind) ==
  LET kept == {e \in s : <<kind, Skeleton(e)>> \notin Rows(kind, "removed")} IN
  kept \cup {overrides[o].entry : o \in {r \in Rows(kind, "present") :
                                           r[2] \notin Skeletons(kept)}}

\* SetAllowlist and SetExtraTerms refuse two entries of one skeleton.
Compiles(list) == Cardinality(Skeletons(list)) = Cardinality(list)

\* LoadPolicy through install: both lists compile, or nothing is installed
\* and the daemon does not start.
LoadPolicy(p) ==
  LET allow == replay(seed.allow, "allow")
      term == replay(seed.term, "term") IN
  /\ ~lists[p].up
  /\ Compiles(allow) /\ Compiles(term)
  /\ lists' = [lists EXCEPT ![p] =
                [up |-> TRUE, allow |-> allow, term |-> term, from |-> seed]]
  /\ UNCHANGED <<seed, overrides, audited, edit, settled, active, edits, seeds>>

-----------------------------------------------------------------------------
(* Edits                                                                  *)

NoEdit == [stage |-> "idle"]
Listed(list, entry) == {e \in list : Skeleton(e) = Skeleton(entry)}

\* nextSet: membership is by skeleton; a change that changes nothing is
\* refused.
nextSet(list, entry, add) ==
  IF add THEN list \cup {entry} ELSE list \ Listed(list, entry)
NotANoOp(list, entry, add) == add <=> Listed(list, entry) = {}

\* Mutant: no edit is audited first.
weakens_Never(kind, add) == FALSE

\* A weakening edit lets more names through.
weakens(kind, add) == (kind = "allow") = add

Key(e) == <<e.kind, Skeleton(e.entry)>>
State(e) == IF e.add THEN "present" ELSE "removed"

\* What an entry may be after an edit that did not answer with success.
Unsettle(e) ==
  settled' = [k \in DOMAIN settled \cup {Key(e)} |->
                IF k # Key(e) THEN settled[k]
                ELSE {State(e)} \cup (IF k \in DOMAIN settled THEN settled[k]
                                      ELSE {"never"})]

\* A success decides it, unless another daemon edited the entry meanwhile.
Settle(e) ==
  settled' = [settled EXCEPT ![Key(e)] =
                IF e.alone THEN {State(e)} ELSE @ \ {"never"}]

\* The daemons in the middle of an edit of the same entry.
Rivals(kind, entry) ==
  {q \in Procs : edit[q] # NoEdit /\ Key(edit[q]) = <<kind, Skeleton(entry)>>}

authorize == active

\* The start of edit: validateEntry, authorize, the mutex and nextSet.
Begin(p, kind, entry, add) ==
  /\ lists[p].up /\ edit[p] = NoEdit /\ edits < MaxEdits
  /\ Skeleton(entry) # <<>>
  /\ authorize
  /\ NotANoOp(lists[p][kind], entry, add)
  /\ LET e == [kind |-> kind, entry |-> entry, add |-> add,
               alone |-> Rivals(kind, entry) = {},
               next |-> nextSet(lists[p][kind], entry, add),
               stage |-> IF weakens(kind, add) THEN "audit_first"
                         ELSE "persist_first"] IN
     /\ edit' = [q \in Procs |->
                   IF q = p THEN e
                   ELSE IF q \in Rivals(kind, entry)
                   THEN [edit[q] EXCEPT !.alone = FALSE] ELSE edit[q]]
     /\ Unsettle(e)
  /\ edits' = edits + 1
  /\ UNCHANGED <<seed, lists, overrides, audited, active, seeds>>

AfterAudit(e) == IF e.stage = "audit_first" THEN "persist_second" ELSE "apply"
AfterPersist(e) == IF e.stage = "persist_first" THEN "audit_second" ELSE "apply"

\* A write succeeds, fails, or takes effect although its answer is lost.
Outcomes == {"ok", "failed", "unanswered"}

audit(p, outcome) ==
  LET e == edit[p] IN
  /\ e.stage \in {"audit_first", "audit_second"}
  /\ audited' = IF outcome = "failed" THEN audited
                ELSE audited \cup {<<e.kind, Skeleton(e.entry), State(e)>>}
  /\ edit' = [edit EXCEPT ![p] = IF outcome = "ok"
                                 THEN [e EXCEPT !.stage = AfterAudit(e)] ELSE NoEdit]
  /\ UNCHANGED <<seed, lists, overrides, settled, active, edits, seeds>>

\* persist: Put replaces the row of the same list and skeleton.
persist(p, outcome) ==
  LET e == edit[p] IN
  /\ e.stage \in {"persist_first", "persist_second"}
  /\ overrides' = IF outcome = "failed" THEN overrides
                  ELSE [k \in DOMAIN overrides \cup {Key(e)} |->
                          IF k = Key(e) THEN [entry |-> e.entry, state |-> State(e)]
                          ELSE overrides[k]]
  /\ edit' = [edit EXCEPT ![p] = IF outcome = "ok"
                                 THEN [e EXCEPT !.stage = AfterPersist(e)] ELSE NoEdit]
  /\ UNCHANGED <<seed, lists, audited, settled, active, edits, seeds>>

\* The swap of the list in memory; the set cannot fail to compile.
apply(p) ==
  LET e == edit[p] IN
  /\ e.stage = "apply"
  /\ lists' = [lists EXCEPT ![p][e.kind] = e.next]
  /\ edit' = [edit EXCEPT ![p] = NoEdit]
  /\ Settle(e)
  /\ UNCHANGED <<seed, overrides, audited, active, edits, seeds>>

-----------------------------------------------------------------------------
Crash(p) ==
  /\ lists[p].up
  /\ lists' = [lists EXCEPT ![p] = Down]
  /\ edit' = [edit EXCEPT ![p] = NoEdit]
  /\ UNCHANGED <<seed, overrides, audited, settled, active, edits, seeds>>

\* The operator edits the seed; a daemon sees it at its next start.
ChangeSeed(s) ==
  /\ seeds < MaxSeeds /\ s # seed
  /\ seed' = s
  /\ seeds' = seeds + 1
  /\ UNCHANGED <<lists, overrides, audited, edit, settled, active, edits>>

Disable ==
  /\ active
  /\ active' = FALSE
  /\ UNCHANGED <<seed, lists, overrides, audited, edit, settled, edits, seeds>>

ListsInit ==
  /\ seed \in Seeds
  /\ lists = [p \in Procs |-> Down]
  /\ overrides = <<>>
  /\ audited = {}
  /\ edit = [p \in Procs |-> NoEdit]
  /\ settled = <<>>
  /\ active = TRUE
  /\ edits = 0 /\ seeds = 0

ListsNext ==
  \/ \E p \in Procs :
       \/ LoadPolicy(p) \/ Crash(p) \/ apply(p)
       \/ \E outcome \in Outcomes : audit(p, outcome) \/ persist(p, outcome)
       \/ \E kind \in Kinds, entry \in Entries, add \in BOOLEAN :
            Begin(p, kind, entry, add)
  \/ \E s \in Seeds : ChangeSeed(s)
  \/ Disable

ListsSpec == ListsInit /\ [][ListsNext]_listVars

-----------------------------------------------------------------------------
Recorded(kind, sk, state) == <<kind, sk, state>> \in audited

(***************************************************************************)
(* Whatever a daemon lets through that its seed refuses, an exemption     *)
(* added or a term removed, the audit log records the edit, after every   *)
(* crash, failed write and restart (edit audits a weakening change before *)
(* it persists it).                                                       *)
(***************************************************************************)
WeakerIsRecorded ==
  \A p \in {q \in Procs : lists[q].up} :
    /\ \A sk \in Skeletons(lists[p].allow) \ Skeletons(lists[p].from.allow) :
         Recorded("allow", sk, "present")
    /\ \A sk \in Skeletons(lists[p].from.term) \ Skeletons(lists[p].term) :
         Recorded("term", sk, "removed")

(***************************************************************************)
(* What a start composes for an edited entry is what the last successful  *)
(* edit left, or what a later edit that was not answered with success     *)
(* tried to leave, under any seed and any spelling (replay over the rows  *)
(* keyed by skeleton).  A removed seed entry never comes back by itself.  *)
(***************************************************************************)
EditsSurvive ==
  \A k \in DOMAIN settled :
    "never" \notin settled[k] =>
      (IF k[2] \in Skeletons(replay(seed[k[1]], k[1])) THEN "present" ELSE "removed")
        \in settled[k]
=============================================================================
