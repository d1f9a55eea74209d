------------------------------ MODULE NameGuard ------------------------------
(***************************************************************************)
(* What a daemon lets through under the lists it enforces: the matching of *)
(* internal/blocklist over every way to read a name, behind                *)
(* internal/nameguard.                                                     *)
(***************************************************************************)
EXTENDS Names
LOCAL INSTANCE SequencesExt

CONSTANTS
  Identifiers,   \* the names the guard is asked about
  WholeTerms,    \* the built-in lists matched against the whole skeleton
  PartTerms,     \* the built-in list matched as a part of it
  maxAmbiguousRunes,
  MaxInput       \* MaxInputBytes

ambiguousReadings == [x \in {"i"} |-> <<"l">>]

Positions(sk) ==
  SelectSeq([k \in DOMAIN sk |-> k], LAMBDA k : sk[k] \in DOMAIN ambiguousReadings)

\* Grow the candidates at one position: the ones so far, then each of them
\* with each other reading there.
Grow(sk, candidates, pos) ==
  LET readings == ambiguousReadings[sk[pos]] IN
  candidates \o FlattenSeq([r \in DOMAIN readings |->
                  [c \in DOMAIN candidates |->
                     [candidates[c] EXCEPT ![pos] = readings[r]]]])

\* Mutant: one position at a time is read another way.
expandCandidates_OneAtATime(sk) ==
  LET at == Positions(sk) IN
  IF Len(at) > maxAmbiguousRunes THEN [ok |-> FALSE]
  ELSE [ok |-> TRUE,
        all |-> <<sk>> \o FlattenSeq([k \in DOMAIN at |->
                            Tail(Grow(sk, <<sk>>, at[k]))])]

\* Every reading of a skeleton, or none when there are too many.
expandCandidates(sk) ==
  LET at == Positions(sk) IN
  IF Len(at) > maxAmbiguousRunes THEN [ok |-> FALSE]
  ELSE [ok |-> TRUE,
        all |-> FoldLeft(LAMBDA cs, pos : Grow(sk, cs, pos), <<sk>>, at)]

HasPart(s, part) ==
  \E k \in 0..(Len(s) - Len(part)) : SubSeq(s, k + 1, k + Len(part)) = part

\* The built-in lists, each with how it matches.
DefaultLists ==
  {[mode |-> "whole", terms |-> WholeTerms], [mode |-> "part", terms |-> PartTerms]}

Hits(list, reading) ==
  \E t \in list.terms : IF list.mode = "whole" THEN reading = Skeleton(t)
                         ELSE HasPart(reading, Skeleton(t))

\* Matcher.Check over the lists l of one daemon.
Check(l, name) ==
  LET sk == Skeleton(name)
      readings == expandCandidates(sk) IN
  /\ Len(name) <= MaxInput
  /\ sk # <<>>
  /\ \/ sk \in Skeletons(l.allow)
     \/ /\ readings.ok
        /\ \A r \in Range(readings.all) :
             /\ r \notin Skeletons(l.term)
             /\ \A list \in DefaultLists : ~Hits(list, r)

\* Guard.Check: the syntax of the kind comes first; names here satisfy it.
GuardCheck(l, name) == Check(l, name)

-----------------------------------------------------------------------------
\* Every way to read a skeleton: each stroke as either letter.
ReadsAs(sk) ==
  {r \in [DOMAIN sk -> Range(sk) \cup {"l"}] :
     \A k \in DOMAIN sk : r[k] = sk[k] \/ (sk[k] = "i" /\ r[k] = "l")}

(***************************************************************************)
(* A name the guard lets through is exempt under exactly its skeleton, or *)
(* none of its readings is a reserved term or contains a forbidden part,  *)
(* whatever lists the edits left (Check over candidateSkeletons).         *)
(***************************************************************************)
NoReservedReading ==
  \A p \in {q \in Procs : lists[q].up}, name \in Identifiers :
    GuardCheck(lists[p], name) =>
      \/ Skeleton(name) \in Skeletons(lists[p].allow)
      \/ \A r \in ReadsAs(Skeleton(name)) :
           /\ r \notin Skeletons(lists[p].term \cup WholeTerms)
           /\ \A t \in PartTerms : ~HasPart(r, Skeleton(t))
=============================================================================
