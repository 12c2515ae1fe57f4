------------------------------- MODULE Breaker -------------------------------
(***************************************************************************)
(* internal/reliability/breaker.go: the circuit breaker of one provider.   *)
(*                                                                         *)
(* Every method holds breaker.mu for its whole body, so each is one step.  *)
(* Calls is the set of requests that use the breaker; permit[c] is the     *)
(* *Permit the request holds.  A request that got a permit calls Complete  *)
(* at most a few times and always ends with the deferred Abandon.          *)
(*                                                                         *)
(* Time: the code only asks whether now has reached openedUntil, so the    *)
(* model keeps openLeft, the time that is left until then (0 in the past   *)
(* and for the zero time).  The rejected counter, read by metrics only, is *)
(* left out.                                                               *)
(***************************************************************************)
EXTENDS Failure, FiniteSets

CONSTANTS
  Calls,              \* the requests that share this breaker
  FailureThreshold,
  OpenDuration,
  HalfOpenMaxProbes,
  Outcomes,           \* the outcomes a call may report: failures or NoFailure
  MaxGeneration       \* bound: the provider stops failing at this generation

ASSUME BreakerAssumption ==
  /\ IsFiniteSet(Calls)
  /\ FailureThreshold \in Nat \ {0}
  /\ OpenDuration \in Nat \ {0}
  /\ HalfOpenMaxProbes \in Nat \ {0}
  /\ Outcomes \subseteq FailureRecord
  /\ MaxGeneration \in Nat

VARIABLES
  state, generation, consecutiveFailures, openLeft,
  halfOpenInFlight, halfOpenSuccesses,
  permit              \* [Calls -> Permits]

breakerFields == <<state, generation, consecutiveFailures, openLeft,
                   halfOpenInFlight, halfOpenSuccesses>>
breakerVars == <<breakerFields, permit>>

StateClosed == "closed"
StateOpen == "open"
StateHalfOpen == "half-open"

NoPermit == [held |-> FALSE, generation |-> 0, probe |-> FALSE, completed |-> FALSE]
Permits == [held : BOOLEAN, generation : Nat, probe : BOOLEAN, completed : BOOLEAN]

\* A held permit that has not been completed: its CompareAndSwap would succeed.
Pending(c) == permit[c].held /\ ~permit[c].completed

TypeOK ==
  /\ state \in {StateClosed, StateOpen, StateHalfOpen}
  /\ generation \in Nat
  /\ consecutiveFailures \in 0..FailureThreshold
  /\ openLeft \in 0..OpenDuration
  /\ halfOpenInFlight \in 0..HalfOpenMaxProbes
  /\ halfOpenSuccesses \in 0..(HalfOpenMaxProbes - 1)
  /\ permit \in [Calls -> Permits]

Init ==
  /\ state = StateClosed
  /\ generation = 0
  /\ consecutiveFailures = 0
  /\ openLeft = 0
  /\ halfOpenInFlight = 0
  /\ halfOpenSuccesses = 0
  /\ permit = [c \in Calls |-> NoPermit]

-----------------------------------------------------------------------------
\* advance: an open breaker whose time is up is half-open when next looked at.
Due == state = StateOpen /\ openLeft = 0

\* The state, generation and probe count that advance leaves behind.
AdvancedState == IF Due THEN StateHalfOpen ELSE state
AdvancedGeneration == IF Due THEN generation + 1 ELSE generation
AdvancedInFlight == IF Due THEN 0 ELSE halfOpenInFlight
AdvancedSuccesses == IF Due THEN 0 ELSE halfOpenSuccesses

advance ==
  /\ state' = AdvancedState
  /\ generation' = AdvancedGeneration
  /\ halfOpenSuccesses' = AdvancedSuccesses
  /\ UNCHANGED <<consecutiveFailures, openLeft>>

open ==
  /\ state' = StateOpen
  /\ generation' = generation + 1
  /\ consecutiveFailures' = FailureThreshold
  /\ openLeft' = OpenDuration
  /\ halfOpenInFlight' = 0
  /\ halfOpenSuccesses' = 0

close ==
  /\ state' = StateClosed
  /\ generation' = generation + 1
  /\ consecutiveFailures' = 0
  /\ openLeft' = 0
  /\ halfOpenInFlight' = 0
  /\ halfOpenSuccesses' = 0

-----------------------------------------------------------------------------
Admit(c, isProbe) ==
  permit' = [permit EXCEPT ![c] = [held |-> TRUE, generation |-> AdvancedGeneration,
                                   probe |-> isProbe, completed |-> FALSE]]

ProbeSlotFree == AdvancedInFlight < HalfOpenMaxProbes

Allow(c) ==
  /\ ~permit[c].held
  /\ advance
  /\ \/ /\ AdvancedState = StateClosed
        /\ Admit(c, FALSE)
        /\ halfOpenInFlight' = AdvancedInFlight
     \/ /\ AdvancedState = StateHalfOpen
        /\ ProbeSlotFree
        /\ Admit(c, TRUE)
        /\ halfOpenInFlight' = AdvancedInFlight + 1

\* The other outcome of Allow: a breaker Failure, and no permit.
Reject(c) ==
  /\ ~permit[c].held
  /\ \/ AdvancedState = StateOpen
     \/ AdvancedState = StateHalfOpen /\ ~ProbeSlotFree
  /\ advance
  /\ halfOpenInFlight' = AdvancedInFlight
  /\ UNCHANGED permit

Snapshot ==
  /\ advance
  /\ halfOpenInFlight' = AdvancedInFlight
  /\ UNCHANGED permit

-----------------------------------------------------------------------------
Decremented == IF halfOpenInFlight > 0 THEN halfOpenInFlight - 1 ELSE 0

\* A probe's slot is free again.
FreeSlot ==
  /\ halfOpenInFlight' = Decremented
  /\ UNCHANGED <<state, generation, consecutiveFailures, openLeft>>

\* Mutant of UncountedProbe: a failure that does not count keeps its slot.
UncountedProbeLeaks == UNCHANGED breakerFields

\* A probe that failed without saying anything about the provider.
UncountedProbe == FreeSlot /\ UNCHANGED halfOpenSuccesses

completeProbe(failure) ==
  \/ /\ ~IsFailure(failure)
     /\ halfOpenSuccesses + 1 >= HalfOpenMaxProbes
     /\ close
  \/ /\ ~IsFailure(failure)
     /\ halfOpenSuccesses + 1 < HalfOpenMaxProbes
     /\ halfOpenSuccesses' = halfOpenSuccesses + 1
     /\ FreeSlot
  \/ /\ SignalsFor(failure).CountBreaker
     /\ open
  \/ /\ IsFailure(failure)
     /\ ~SignalsFor(failure).CountBreaker
     /\ UncountedProbe

\* Mutant of ThresholdReached: opens one failure too late.
ThresholdReachedLate == consecutiveFailures + 1 > FailureThreshold

ThresholdReached == consecutiveFailures + 1 >= FailureThreshold

completeClosed(failure) ==
  \/ /\ ~IsFailure(failure)
     /\ consecutiveFailures' = 0
     /\ UNCHANGED <<state, generation, openLeft, halfOpenInFlight, halfOpenSuccesses>>
  \/ /\ SignalsFor(failure).CountBreaker
     /\ ~ThresholdReached
     /\ consecutiveFailures' = consecutiveFailures + 1
     /\ UNCHANGED <<state, generation, openLeft, halfOpenInFlight, halfOpenSuccesses>>
  \/ /\ SignalsFor(failure).CountBreaker
     /\ ThresholdReached
     /\ open
  \/ /\ IsFailure(failure)
     /\ ~SignalsFor(failure).CountBreaker
     /\ UNCHANGED breakerFields

\* The early returns of complete and completeProbe: only a permit of the
\* current generation, in the state that issued it, has a say.
Ignored(c) ==
  \/ permit[c].generation # generation
  \/ state # (IF permit[c].probe THEN StateHalfOpen ELSE StateClosed)

complete(c, failure) ==
  \/ Ignored(c) /\ UNCHANGED breakerFields
  \/ ~Ignored(c) /\ permit[c].probe /\ completeProbe(failure)
  \/ ~Ignored(c) /\ ~permit[c].probe /\ completeClosed(failure)

Complete(c, failure) ==
  /\ Pending(c)
  /\ complete(c, failure)
  /\ permit' = [permit EXCEPT ![c].completed = TRUE]

abandon(c) ==
  /\ halfOpenInFlight' =
       IF /\ permit[c].generation = generation
          /\ permit[c].probe
          /\ state = StateHalfOpen
       THEN Decremented
       ELSE halfOpenInFlight
  /\ UNCHANGED <<state, generation, consecutiveFailures, openLeft, halfOpenSuccesses>>

\* The deferred Abandon with which every holder ends: it gives the slot back
\* unless the permit was completed before.
Abandon(c) ==
  /\ permit[c].held
  /\ IF permit[c].completed THEN UNCHANGED breakerFields ELSE abandon(c)
  /\ permit' = [permit EXCEPT ![c] = NoPermit]

Tick ==
  /\ openLeft > 0
  /\ openLeft' = openLeft - 1
  /\ UNCHANGED <<state, generation, consecutiveFailures,
                 halfOpenInFlight, halfOpenSuccesses, permit>>

Next ==
  \/ \E c \in Calls : Allow(c) \/ Reject(c) \/ Abandon(c)
  \/ \E c \in Calls, failure \in Outcomes :
       /\ SignalsFor(failure).CountBreaker => generation < MaxGeneration
       /\ Complete(c, failure)
  \/ Snapshot
  \/ Tick

Spec == Init /\ [][Next]_breakerVars

\* Every holder returns (attempts are bounded by the attempt timeout) and its
\* deferred Abandon runs; time passes.  Nothing is assumed about new calls.
FairSpec == Spec /\ \A c \in Calls : WF_breakerVars(Abandon(c)) /\ WF_breakerVars(Tick)
-----------------------------------------------------------------------------
Current(c) == Pending(c) /\ permit[c].generation = generation

\* The probes of the present half-open period that have not reported.
CurrentProbes == {c \in Calls : Current(c) /\ permit[c].probe}

\* Counting by counter and counting by permits agree (Allow, complete, abandon):
\* no path leaks a half-open slot and none gives one back twice, whatever
\* mixture of completions, double completions, abandons and stale permits runs.
InFlightIsPendingProbes ==
  halfOpenInFlight = Cardinality(CurrentProbes)

\* A permit that can still vote was issued in the state the breaker is in now:
\* a plain permit means closed, a probe means half-open, and an open breaker
\* has no voter.  The state tests behind the generation test never fire.
VoteMatchesState ==
  \A c \in Calls :
    Current(c) => state = (IF permit[c].probe THEN StateHalfOpen ELSE StateClosed)

\* The breaker implements BreakerPolicy: the generation numbers, the lazy
\* transition to half-open and the probe counter cannot be told from a breaker
\* that forgets all outstanding calls whenever it changes mode and becomes
\* half-open the moment its time is up.
Policy == INSTANCE BreakerPolicy WITH
  mode   <- AdvancedState,
  voters <- {c \in Calls : Current(c)},
  tally  <- IF state = StateClosed THEN consecutiveFailures
            ELSE IF state = StateHalfOpen THEN halfOpenSuccesses ELSE 0

ImplementsPolicy == Policy!PolicySpec

\* Half-open with every probe slot taken: all calls are rejected.
Saturated == state = StateHalfOpen /\ halfOpenInFlight >= HalfOpenMaxProbes

\* A half-open breaker does not stay shut for ever because of its own probes:
\* once they have returned, with any outcome or none, there is a slot again or
\* the breaker has left the half-open state.
NeverWedged == Saturated ~> ~Saturated
=============================================================================
