------------------------------ MODULE Semaphore ------------------------------
(***************************************************************************)
(* What internal/reliability/queue.go promises its callers: at most        *)
(* MaxInFlight of them hold a slot, and a slot that is given back is one   *)
(* that was held.                                                          *)
(***************************************************************************)
EXTENDS Naturals, FiniteSets

CONSTANTS Requests, MaxInFlight

VARIABLE holders

SemInit == holders = {}

Take(r) ==
  /\ r \notin holders
  /\ Cardinality(holders) < MaxInFlight
  /\ holders' = holders \cup {r}

GiveBack(r) ==
  /\ r \in holders
  /\ holders' = holders \ {r}

SemNext == \E r \in Requests : Take(r) \/ GiveBack(r)

SemSpec == SemInit /\ [][SemNext]_holders
=============================================================================
