-------------------------------- MODULE Lineage --------------------------------
(***************************************************************************)
(* What a rotation lineage promises, with the storage engine, the          *)
(* transactions and the denylist left out: a lineage has at most one       *)
(* current credential; only a rotation of the current one replaces it, by  *)
(* an identifier never used before; and a lineage that has lost its        *)
(* current credential never has one again.                                 *)
(***************************************************************************)
CONSTANTS Cred, NoCred

VARIABLES
  current,   \* the live credential of each lineage, or NoCred
  minted     \* identifiers that have ever been used

Init ==
  /\ current = [l \in Cred |-> NoCred]
  /\ minted = {}

\* A lineage is named after its root.
Start(l) ==
  /\ l \notin minted
  /\ current' = [current EXCEPT ![l] = l]
  /\ minted' = minted \cup {l}

Rotate(l, c) ==
  /\ current[l] # NoCred
  /\ c \notin minted
  /\ current' = [current EXCEPT ![l] = c]
  /\ minted' = minted \cup {c}

Kill(l) ==
  /\ current[l] # NoCred
  /\ current' = [current EXCEPT ![l] = NoCred]
  /\ UNCHANGED minted

Next ==
  \E l \in Cred : Start(l) \/ Kill(l) \/ \E c \in Cred : Rotate(l, c)

Spec == Init /\ [][Next]_<<current, minted>>

================================================================================
