----------------------------- MODULE UsageLedger -----------------------------
(***************************************************************************)
(* What the usage pipeline promises: a request that was let through to a   *)
(* provider is recorded, once, either with the usage it reported or as     *)
(* interrupted, and the record never changes.                              *)
(***************************************************************************)
CONSTANT Events

VARIABLES accepted, recorded

Init ==
  /\ accepted = {}
  /\ recorded = [e \in Events |-> "none"]

Accept(e) ==
  /\ accepted' = accepted \cup {e}
  /\ UNCHANGED recorded

\* Several events may be recorded by one transaction.
Record(S) ==
  /\ S # {}
  /\ \A e \in S : recorded[e] = "none"
  /\ \E what \in [S -> {"real", "interrupted"}] :
       recorded' = [e \in Events |-> IF e \in S THEN what[e] ELSE recorded[e]]
  /\ UNCHANGED accepted

Next ==
  \/ \E e \in Events : Accept(e)
  \/ \E S \in SUBSET Events : Record(S)

LedgerSpec == Init /\ [][Next]_<<accepted, recorded>>
=============================================================================
