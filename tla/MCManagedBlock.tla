--------------------------- MODULE MCManagedBlock ---------------------------
(***************************************************************************)
(* ManagedBlock and Certs for TLC in two settings; a behaviour stays in    *)
(* the one it starts in, where one of the two moves.                       *)
(*                                                                         *)
(*   block         a timer and a person update an authorized_keys file     *)
(*   certificates  of every mode, at either pace                           *)
(***************************************************************************)
EXTENDS ManagedBlock, Certs

VARIABLE setting

MCKeys == <<"k1", "k2">>

\* No file, an empty one, one without a last newline, a block in the middle
\* and at the end, ambiguous markers, and something that is not a file.
MCFiles ==
  {Absent, Other, Regular(<<>>, TRUE), Regular(<<"mine">>, FALSE),
   Regular(<<"mine", BEGIN, "k1", END, "yours">>, FALSE),
   Regular(<<"mine", BEGIN, END>>, TRUE),
   Regular(<<BEGIN, "k1", END, BEGIN, END>>, TRUE)}

-----------------------------------------------------------------------------
In(s, A) == setting = s /\ A

MCInit ==
  /\ setting \in {"block", "certificates"}
  /\ Init /\ CertsInit
  /\ setting = "certificates" => file = Absent /\ published = {}
  /\ setting = "block" => mode = "manual" /\ pace = "rough"

MCNext ==
  /\ \/ In("block", Next) /\ UNCHANGED certVars
     \/ In("certificates", CertsNext) /\ UNCHANGED vars
  /\ UNCHANGED setting

\* The fairness of each component, in its own setting.
MCFairness ==
  /\ \A h \in Helpers : WF_vars(In("block", Step(h)))
  /\ WF_vars(In("block", \E opts \in Options(Timer) : Fetch(Timer, opts)))
  /\ WF_certVars(In("certificates", StartUp))
  /\ WF_certVars(In("certificates", Loop))
  /\ WF_certVars(In("certificates", Handshake))
  /\ WF_certVars(In("certificates", OperatorInstalls))
  /\ WF_certVars(In("certificates", Tick))

MCSpec == MCInit /\ [][MCNext]_<<vars, certVars, setting>> /\ MCFairness
=============================================================================
