---------------------------- MODULE BreakerPolicy ----------------------------
(***************************************************************************)
(* What the circuit breaker of internal/reliability/breaker.go promises,   *)
(* without generations, counters of probes in flight or lazy transitions.  *)
(* voters is the set of calls whose outcome still counts: every change of  *)
(* mode empties it, so a call admitted in one period can never influence   *)
(* another.                                                                *)
(***************************************************************************)
EXTENDS Naturals, FiniteSets

CONSTANTS Calls, FailureThreshold, HalfOpenMaxProbes

VARIABLES
  mode,      \* "closed", "open" or "half-open"
  voters,    \* calls admitted in this period that have not reported yet
  tally      \* failures in a row when closed, successes when half-open

policyVars == <<mode, voters, tally>>

PolicyInit == mode = "closed" /\ voters = {} /\ tally = 0

Enter(newMode) == mode' = newMode /\ voters' = {} /\ tally' = 0

Join(c) ==
  /\ c \notin voters
  /\ \/ mode = "closed"
     \/ mode = "half-open" /\ Cardinality(voters) < HalfOpenMaxProbes
  /\ voters' = voters \cup {c}
  /\ UNCHANGED <<mode, tally>>

Report(c, newTally) ==
  /\ c \in voters
  /\ voters' = voters \ {c}
  /\ tally' = newTally
  /\ UNCHANGED mode

\* The call was abandoned, or failed in a way that says nothing about the provider.
Withdraw(c) == Report(c, tally)

Succeed(c) ==
  \/ mode = "closed" /\ Report(c, 0)
  \/ mode = "half-open" /\ tally + 1 < HalfOpenMaxProbes /\ Report(c, tally + 1)
  \/ /\ mode = "half-open" /\ tally + 1 >= HalfOpenMaxProbes
     /\ c \in voters
     /\ Enter("closed")

Fail(c) ==
  \/ mode = "closed" /\ tally + 1 < FailureThreshold /\ Report(c, tally + 1)
  \/ /\ mode = "half-open" \/ (mode = "closed" /\ tally + 1 >= FailureThreshold)
     /\ c \in voters
     /\ Enter("open")

TimeUp == mode = "open" /\ Enter("half-open")

PolicyNext ==
  \/ \E c \in Calls : Join(c) \/ Withdraw(c) \/ Succeed(c) \/ Fail(c)
  \/ TimeUp

PolicySpec == PolicyInit /\ [][PolicyNext]_policyVars
=============================================================================
