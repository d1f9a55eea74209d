---------------------------- MODULE ManagedBlock ----------------------------
(***************************************************************************)
(* vallet-helper: the command a timer runs on each host to keep the       *)
(* managed block of an authorized_keys file equal to a published key set  *)
(* (cmd/vallet-helper over internal/managedblock).  Runs may overlap, the *)
(* user edits the same file, and a run, or the host, may stop anywhere.   *)
(* A line is a marker, a key or one of the user's lines; permission bits  *)
(* are left out.                                                          *)
(***************************************************************************)
EXTENDS Naturals, Sequences, SequencesExt, FiniteSets

CONSTANTS
  Timer,        \* the run a timer starts
  Manual,       \* a run a person starts beside it
  Keys,         \* keys the set may publish, in the order they are rendered
  UserLines,    \* lines the user may write
  Files,        \* the files a host may start with
  MaxFileBytes, \* the longest file a run reads, in lines
  MaxPublishes, \* bound on changes of the published set
  MaxEdits,     \* bound on the user's edits
  MaxFaults     \* bound on failed steps, crashes and power losses

VARIABLES
  published,    \* the set the server answers with
  file,         \* the target as the file system shows it
  saved,        \* the target as a power loss would leave it
  run,          \* run[h]: what helper h is doing
  own,          \* the lines outside the block as the user last left them
  raced,        \* whether the user edited between a run's read and its rename
  budget        \* changes, edits and faults left

vars == <<published, file, saved, run, own, raced, budget>>

BEGIN == "begin"
END == "end"
Absent == [kind |-> "absent"]
Regular(lines, newline) ==
  [kind |-> "regular", lines |-> lines, newline |-> newline, synced |-> TRUE]
Other == [kind |-> "other"]      \* a directory, a symlink, a device

-----------------------------------------------------------------------------
(* block.go                                                               *)

InOrder(keys) == SelectSeq(Keys, LAMBDA k : k \in keys)

\* Render: the markers around one canonical line per key, in a fixed order.
Render(keys) == <<BEGIN>> \o InOrder(keys) \o <<END>>

At(lines, marker) == {i \in DOMAIN lines : lines[i] = marker}

\* locate: no marker at all, one well-formed pair, or an ambiguous file.
locate(lines) ==
  LET b == At(lines, BEGIN)  e == At(lines, END) IN
  CASE b = {} /\ e = {} -> [state |-> "none"]
    [] /\ Cardinality(b) = 1 /\ Cardinality(e) = 1
       /\ \A i \in b, j \in e : i < j
       -> [state |-> "found", start |-> CHOOSE i \in b : TRUE,
           stop |-> CHOOSE j \in e : TRUE]
    [] OTHER -> [state |-> "malformed"]

Inside(lines) ==
  LET at == locate(lines) IN
  IF at.state = "found" THEN SubSeq(lines, at.start + 1, at.stop - 1) ELSE <<>>

\* blockKeyCount counts every line between the markers that is not blank.
blockKeyCount(lines) == Len(Inside(lines))

\* Merge: splice in place, or append at the end.
Merge(lines, block) ==
  LET at == locate(lines) IN
  IF at.state = "found"
  THEN SubSeq(lines, 1, at.start - 1) \o block
       \o SubSeq(lines, at.stop + 1, Len(lines))
  ELSE lines \o block

Lines(f) == IF f.kind = "regular" THEN f.lines ELSE <<>>

\* The merged file ends in a newline, unless the file did not and has lines
\* after its block.
EndsInNewline(f) ==
  LET at == locate(Lines(f)) IN
  at.state = "found" /\ at.stop < Len(Lines(f)) => f.newline

\* The user's part of a file.
Outside(f) ==
  IF f.kind # "regular" THEN <<>>
  ELSE LET at == locate(f.lines) IN
       IF at.state = "found"
       THEN SubSeq(f.lines, 1, at.start - 1)
            \o SubSeq(f.lines, at.stop + 1, Len(f.lines))
       ELSE f.lines

-----------------------------------------------------------------------------
(* The command, over apply.go                                             *)

Helpers == {Timer, Manual}

\* The flags: the timer's command line is fixed and has neither flag.
Options(h) ==
  IF h = Timer THEN {[allowEmpty |-> FALSE, dryRun |-> FALSE]}
  ELSE [allowEmpty : BOOLEAN, dryRun : BOOLEAN]

Idle == [step |-> "idle"]
Spend(what) == budget[what] > 0 /\ budget' = [budget EXCEPT ![what] = @ - 1]
Set(h, r) == run' = [run EXCEPT ![h] = r]

\* run: the flags, and Fetch, which answers with the set of that moment.
\* A set that does not fetch or render ends the run with nothing opened.
Fetch(h, opts) ==
  /\ run[h].step = "idle"
  /\ Set(h, [step |-> "read", keys |-> published, opts |-> opts])
  /\ UNCHANGED <<published, file, saved, own, raced, budget>>

\* readExisting, Merge and the guard on an emptied block.  What Merge makes is
\* not measured, so a run may write a file that the next one does not read.
TooLarge(f) == Len(Lines(f)) > MaxFileBytes

Refused(f, r) ==
  \/ f.kind = "other" \/ TooLarge(f)
  \/ f.kind = "regular" /\ locate(f.lines).state = "malformed"
  \/ ~r.opts.allowEmpty /\ blockKeyCount(Lines(f)) > 0 /\ r.keys = {}

\* Mutant: a file that has a block is left alone.
Unchanged_AnyBlock(f, merged) ==
  f.kind = "regular" /\ locate(f.lines).state = "found"

\* Nothing to write: the bytes are the same, newline included.
Unchanged(f, merged) ==
  f.kind = "regular" /\ f.lines = merged /\ f.newline = EndsInNewline(f)

\* Apply, to its decision: read the target once, then merge in memory.
Apply(h) ==
  LET r == run[h]
      merged == Merge(Lines(file), Render(r.keys)) IN
  /\ r.step = "read"
  /\ Set(h, IF Refused(file, r) \/ r.opts.dryRun \/ Unchanged(file, merged)
            THEN Idle
            ELSE [step |-> "write", content |-> merged, newline |-> EndsInNewline(file)])
  /\ UNCHANGED <<published, file, saved, own, raced, budget>>

\* Mutant: the temporary file is renamed before its bytes are synced.
writeAtomic_NoSync(h) ==
  /\ run[h].step = "write"
  /\ file' = [Regular(run[h].content, run[h].newline) EXCEPT !.synced = FALSE]
  /\ Set(h, [step |-> "sync_dir"])
  /\ UNCHANGED <<published, saved, own, raced, budget>>

\* writeAtomic, to the rename: the temporary file is complete and synced
\* before it takes the target's name.  What happens to it earlier is not
\* visible at the target.
writeAtomic(h) ==
  /\ run[h].step = "write"
  /\ file' = Regular(run[h].content, run[h].newline)
  /\ Set(h, [step |-> "sync_dir"])
  /\ UNCHANGED <<published, saved, own, raced, budget>>

\* defaultSyncDir makes the rename durable.
SyncDir(h) ==
  /\ run[h].step = "sync_dir"
  /\ saved' = file
  /\ Set(h, Idle)
  /\ UNCHANGED <<published, file, own, raced, budget>>

\* A failed step or a killed run: before the rename the target is as it was.
Stop(h) ==
  /\ run[h].step # "idle"
  /\ Spend("faults")
  /\ Set(h, Idle)
  /\ UNCHANGED <<published, file, saved, own, raced>>

\* The host loses power: the target is as last synced or as last renamed, and
\* a renamed file whose bytes were never synced may come back empty.
PowerLoss ==
  /\ Spend("faults")
  /\ \E f \in {saved, file} \cup
              (IF file.kind = "regular" /\ ~file.synced
               THEN {Regular(<<>>, TRUE)} ELSE {}) :
       file' = f /\ saved' = f
  /\ run' = [h \in Helpers |-> Idle]
  /\ UNCHANGED <<published, own, raced>>

Publish(keys) ==
  /\ keys # published
  /\ Spend("publishes")
  /\ published' = keys
  /\ UNCHANGED <<file, saved, run, own, raced>>

\* The user adds a line of their own at the end of a file they may edit.
UserEdits(u) ==
  /\ file.kind = "regular"
  /\ Spend("edits")
  /\ file' = Regular(Append(file.lines, u), TRUE)
  /\ saved' = file'
  /\ own' = Outside(file')
  /\ raced' = (raced \/ \E h \in Helpers : run[h].step = "write")
  /\ UNCHANGED <<published, run>>

Init ==
  /\ published \in SUBSET Range(Keys)
  /\ file \in Files
  /\ saved = file
  /\ own = Outside(file)
  /\ run = [h \in Helpers |-> Idle]
  /\ raced = FALSE
  /\ budget = [publishes |-> MaxPublishes, edits |-> MaxEdits, faults |-> MaxFaults]

Step(h) == Apply(h) \/ writeAtomic(h) \/ SyncDir(h)

Next ==
  \/ \E h \in Helpers :
       Step(h) \/ Stop(h) \/ \E opts \in Options(h) : Fetch(h, opts)
  \/ PowerLoss
  \/ \E keys \in SUBSET Range(Keys) : Publish(keys)
  \/ \E u \in UserLines : UserEdits(u)

\* The timer keeps starting runs, and a started run goes on.
Spec ==
  /\ Init /\ [][Next]_vars
  /\ \A h \in Helpers : WF_vars(Step(h))
  /\ WF_vars(\E opts \in Options(Timer) : Fetch(Timer, opts))

-----------------------------------------------------------------------------
(***************************************************************************)
(* Whatever runs overlap, fail or lose power, the lines outside the       *)
(* markers are exactly those the user last left, unless the user edited   *)
(* between a run's read and its rename (Merge is a splice, and the rename *)
(* of a synced file replaces the target whole).                           *)
(***************************************************************************)
OwnLinesKept == ~raced => Outside(file) = own

(***************************************************************************)
(* Once the published set, the user and the faults settle, the block      *)
(* comes to hold exactly the published keys and stays so, although a run  *)
(* that fetched an older set may still overwrite it once.  What the timer *)
(* refuses stays for ever (readExisting, locate, the guard of Apply): a   *)
(* file with ambiguous markers or that is not a regular file; an empty    *)
(* set, which takes a run with -allow-empty; and a file over the limit on *)
(* its size, be it the user's doing or that of a run, whose result no one *)
(* measures.  No later set is taken then, be it ever so small.            *)
(***************************************************************************)
Converges ==
  <>[](\/ file.kind = "other" \/ published = {} \/ TooLarge(file)
       \/ file.kind = "regular" /\ locate(file.lines).state = "malformed"
       \/ file.kind = "regular" /\ Inside(file.lines) = InOrder(published))
=============================================================================
