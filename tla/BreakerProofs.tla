---------------------------- MODULE BreakerProofs ----------------------------
(***************************************************************************)
(* Proofs about the circuit breaker, for any set of calls, thresholds and  *)
(* outcomes.  The inductive invariant adds one fact to what the runs       *)
(* check: no permit carries a generation the breaker has not reached, so   *)
(* every change of generation strips all outstanding permits of their say. *)
(***************************************************************************)
EXTENDS Breaker, FiniteSetTheorems, TLAPS

PermitsFromPast == \A c \in Calls : permit[c].generation <= generation

BreakerInv ==
  /\ TypeOK
  /\ PermitsFromPast
  /\ VoteMatchesState
  /\ InFlightIsPendingProbes

-----------------------------------------------------------------------------
\* CurrentProbes is finite, so its cardinality is a number that behaves.
LEMMA ProbesFinite ==
  /\ IsFiniteSet(CurrentProbes)
  /\ Cardinality(CurrentProbes) \in Nat
BY BreakerAssumption, FS_Subset, FS_CardinalityType DEF CurrentProbes

\* A call that starts to vote as a probe is one more, one that stops is one less.
LEMMA ProbesAddRemove ==
  ASSUME NEW c
  PROVE  /\ c \notin CurrentProbes =>
              Cardinality(CurrentProbes \cup {c}) = Cardinality(CurrentProbes) + 1
         /\ c \in CurrentProbes =>
              /\ Cardinality(CurrentProbes \ {c}) = Cardinality(CurrentProbes) - 1
              /\ Cardinality(CurrentProbes) > 0
<1>1. c \in CurrentProbes => Cardinality(CurrentProbes) # 0
  BY ProbesFinite, FS_EmptySet
<1> QED
  BY <1>1, ProbesFinite, FS_AddElement, FS_RemoveElement

\* A new generation that leaves the permits alone has no probe yet.
LEMMA NewGenerationHasNoProbe ==
  ASSUME TypeOK, PermitsFromPast, generation' = generation + 1,
         \A d \in Calls : permit'[d].generation <= generation
  PROVE  \A d \in Calls : ~Current(d)'
BY DEF TypeOK, PermitsFromPast, Current, Pending

-----------------------------------------------------------------------------
\* The types of the breaker's fields and permits: the counters stay within the
\* configured threshold and number of probes (Allow, complete, abandon).
LEMMA TypeStep == TypeOK /\ [Next]_breakerVars => TypeOK'
<1> SUFFICES ASSUME TypeOK, [Next]_breakerVars PROVE TypeOK'
  OBVIOUS
<1> USE BreakerAssumption DEF TypeOK, Permits, StateClosed, StateOpen, StateHalfOpen
<1> USE DEF advance, Due, AdvancedState, AdvancedGeneration, AdvancedInFlight,
            AdvancedSuccesses
<1>1. ASSUME NEW c \in Calls, Allow(c) PROVE TypeOK'
  <2>1. PICK isProbe \in BOOLEAN : Admit(c, isProbe)
    BY <1>1 DEF Allow, ProbeSlotFree
  <2>2. permit' \in [Calls -> Permits]
    BY <2>1 DEF Admit
  <2>3. /\ advance
        /\ halfOpenInFlight' \in {AdvancedInFlight, AdvancedInFlight + 1}
        /\ halfOpenInFlight' # AdvancedInFlight => AdvancedInFlight < HalfOpenMaxProbes
    BY <1>1 DEF Allow, ProbeSlotFree
  <2> QED
    BY <2>2, <2>3
<1>2. ASSUME NEW c \in Calls, Reject(c) PROVE TypeOK'
  BY <1>2 DEF Reject
<1>3. ASSUME NEW c \in Calls, Abandon(c) PROVE TypeOK'
  BY <1>3 DEF Abandon, abandon, Decremented, NoPermit, breakerFields
<1>4. ASSUME NEW c \in Calls, NEW failure \in Outcomes, Complete(c, failure)
      PROVE TypeOK'
  <2>1. permit' \in [Calls -> Permits]
    BY <1>4 DEF Complete
  <2>2. CASE UNCHANGED breakerFields
    BY <2>1, <2>2 DEF breakerFields
  <2>3. CASE completeProbe(failure)
    BY <2>1, <2>3 DEF completeProbe, FreeSlot, UncountedProbe, open, close, Decremented
  <2>4. CASE completeClosed(failure)
    BY <2>1, <2>4 DEF completeClosed, ThresholdReached, open, breakerFields
  <2> QED
    BY <1>4, <2>2, <2>3, <2>4 DEF Complete, complete
<1>5. CASE Snapshot
  BY <1>5 DEF Snapshot
<1>6. CASE Tick
  BY <1>6 DEF Tick
<1>7. CASE UNCHANGED breakerVars
  BY <1>7 DEF breakerVars, breakerFields
<1> QED
  BY <1>1, <1>2, <1>3, <1>4, <1>5, <1>6, <1>7 DEF Next

-----------------------------------------------------------------------------
\* When no call is current, nothing is in flight and no vote can mismatch.
LEMMA NobodyCurrent ==
  ASSUME \A d \in Calls : ~Current(d)', halfOpenInFlight' = 0
  PROVE  VoteMatchesState' /\ InFlightIsPendingProbes'
<1>1. CurrentProbes' = {}
  BY DEF CurrentProbes
<1> QED
  BY <1>1, FS_EmptySet DEF VoteMatchesState, InFlightIsPendingProbes

\* Allow preserves the invariant: a new probe is counted, a plain permit is not.
LEMMA AllowStep ==
  ASSUME BreakerInv, NEW c \in Calls, Allow(c), TypeOK'
  PROVE  BreakerInv'
<1> USE DEF BreakerInv
<1>1. PICK isProbe \in BOOLEAN : Admit(c, isProbe)
  BY DEF Allow, ProbeSlotFree
<1>2. /\ permit'[c] = [held |-> TRUE, generation |-> AdvancedGeneration,
                       probe |-> isProbe, completed |-> FALSE]
      /\ \A d \in Calls \ {c} : permit'[d] = permit[d]
  BY <1>1 DEF Admit, TypeOK
<1>3. generation' = AdvancedGeneration /\ state' = AdvancedState
  BY DEF Allow, ProbeSlotFree, advance
<1>4. PermitsFromPast'
  BY <1>2, <1>3 DEF PermitsFromPast, AdvancedGeneration, TypeOK, Permits
<1>5. ~Current(c)
  BY DEF Allow, ProbeSlotFree, Current, Pending
<1>6. CASE Due
  <2>1. isProbe /\ state' = StateHalfOpen /\ halfOpenInFlight' = 1
    BY <1>1, <1>2, <1>3, <1>6
       DEF Allow, ProbeSlotFree, Admit, AdvancedState, AdvancedInFlight, StateHalfOpen,
           StateClosed, TypeOK
  <2>2. \A d \in Calls : Current(d)' <=> d = c
    BY <1>2, <1>3, <1>6 DEF AdvancedGeneration, Current, Pending, PermitsFromPast, TypeOK
  <2>3. CurrentProbes' = {c}
    BY <1>2, <2>1, <2>2 DEF CurrentProbes
  <2>4. permit'[c].probe
    BY <1>2, <2>1
  <2>5. VoteMatchesState'
    BY <2>1, <2>2, <2>4 DEF VoteMatchesState
  <2>6. InFlightIsPendingProbes'
    BY <2>1, <2>3, FS_Singleton DEF InFlightIsPendingProbes
  <2> QED
    BY <1>4, <2>5, <2>6
<1>7. CASE ~Due
  <2>1. generation' = generation /\ state' = state
    BY <1>3, <1>7 DEF AdvancedGeneration, AdvancedState
  <2>2. \A d \in Calls \ {c} : Current(d)' <=> Current(d)
    BY <1>2, <2>1 DEF Current, Pending
  <2>3. CASE isProbe
    <3>1. state = StateHalfOpen /\ halfOpenInFlight' = halfOpenInFlight + 1
      BY <1>1, <1>2, <1>7, <2>3
         DEF Allow, ProbeSlotFree, Admit, AdvancedState, AdvancedInFlight, TypeOK
    <3>2. CurrentProbes' = CurrentProbes \cup {c}
      BY <1>2, <1>3, <2>2, <2>3 DEF CurrentProbes, Current, Pending
    <3>3. c \notin CurrentProbes
      BY <1>5 DEF CurrentProbes
    <3> QED
      BY <1>2, <1>4, <2>1, <2>2, <2>3, <3>1, <3>2, <3>3, ProbesAddRemove
         DEF VoteMatchesState, InFlightIsPendingProbes
  <2>4. CASE ~isProbe
    <3>1. state = StateClosed /\ halfOpenInFlight' = halfOpenInFlight
      BY <1>1, <1>2, <1>7, <2>4
         DEF Allow, ProbeSlotFree, Admit, AdvancedState, AdvancedInFlight, TypeOK
    <3>2. CurrentProbes' = CurrentProbes
      BY <1>2, <1>5, <2>2, <2>4 DEF CurrentProbes
    <3> QED
      BY <1>2, <1>4, <2>1, <2>2, <2>4, <3>1, <3>2
         DEF VoteMatchesState, InFlightIsPendingProbes
  <2> QED
    BY <2>3, <2>4
<1> QED
  BY <1>6, <1>7

\* Looking at the breaker (Snapshot, or an Allow that is rejected) preserves
\* the invariant: at most the lazy transition to half-open happens.
LEMMA AdvanceStep ==
  ASSUME BreakerInv, advance, halfOpenInFlight' = AdvancedInFlight,
         UNCHANGED permit, TypeOK'
  PROVE  BreakerInv'
<1> USE DEF BreakerInv
<1>1. generation' = AdvancedGeneration /\ state' = AdvancedState
  BY DEF advance
<1>2. PermitsFromPast'
  BY <1>1 DEF PermitsFromPast, AdvancedGeneration, TypeOK, Permits
<1>3. CASE Due
  <2>1. generation' = generation + 1 /\ halfOpenInFlight' = 0
    BY <1>1, <1>3 DEF AdvancedGeneration, AdvancedInFlight
  <2>2. \A d \in Calls : ~Current(d)'
    BY <2>1, NewGenerationHasNoProbe DEF PermitsFromPast
  <2> QED
    BY <1>2, <2>1, <2>2, NobodyCurrent
<1>4. CASE ~Due
  <2>1. generation' = generation /\ state' = state /\ halfOpenInFlight' = halfOpenInFlight
    BY <1>1, <1>4 DEF AdvancedGeneration, AdvancedState, AdvancedInFlight
  <2>2. \A d \in Calls : Current(d)' <=> Current(d)
    BY <2>1 DEF Current, Pending
  <2>3. CurrentProbes' = CurrentProbes
    BY <2>2 DEF CurrentProbes
  <2> QED
    BY <1>2, <2>1, <2>2, <2>3 DEF VoteMatchesState, InFlightIsPendingProbes
<1> QED
  BY <1>3, <1>4

\* A call that stops voting while the generation stays: the probe count goes
\* down exactly when it was a current probe.
LEMMA StopVoting ==
  ASSUME BreakerInv, NEW c \in Calls,
         ~Current(c)', \A d \in Calls \ {c} : permit'[d] = permit[d],
         permit'[c].generation <= generation,
         generation' = generation, state' = state,
         halfOpenInFlight' = IF c \in CurrentProbes THEN Decremented
                             ELSE halfOpenInFlight,
         TypeOK'
  PROVE  BreakerInv'
<1> USE DEF BreakerInv
<1>1. PermitsFromPast'
  BY DEF PermitsFromPast
<1>2. \A d \in Calls \ {c} : Current(d)' <=> Current(d)
  BY DEF Current, Pending
<1>3. VoteMatchesState'
  BY <1>2 DEF VoteMatchesState
<1>4. CurrentProbes' = CurrentProbes \ {c}
  BY <1>2 DEF CurrentProbes
<1>5. InFlightIsPendingProbes'
  <2>1. CASE c \in CurrentProbes
    BY <1>4, <2>1, ProbesAddRemove DEF InFlightIsPendingProbes, Decremented
  <2>2. CASE c \notin CurrentProbes
    <3>1. CurrentProbes' = CurrentProbes
      BY <1>4, <2>2
    <3> QED
      BY <2>2, <3>1 DEF InFlightIsPendingProbes
  <2> QED
    BY <2>1, <2>2
<1> QED
  BY <1>1, <1>3, <1>5

\* Complete preserves the invariant: stale permits change nothing, a current
\* probe frees its slot, and a change of state silences everyone.
LEMMA CompleteStep ==
  ASSUME BreakerInv, NEW c \in Calls, NEW failure \in Outcomes,
         Complete(c, failure), TypeOK'
  PROVE  BreakerInv'
<1> USE DEF BreakerInv
<1>1. /\ permit'[c] = [permit[c] EXCEPT !.completed = TRUE]
      /\ \A d \in Calls \ {c} : permit'[d] = permit[d]
  BY DEF Complete, TypeOK
<1>2. permit'[c].completed /\ permit'[c].generation = permit[c].generation
  BY <1>1 DEF TypeOK, Permits
<1>3. ~Current(c)' /\ Pending(c)
  BY <1>2 DEF Current, Pending, Complete
<1>4. \A d \in Calls : permit'[d].generation <= generation
  BY <1>1, <1>2 DEF PermitsFromPast
<1>5. CASE open \/ close
  <2>1. generation' = generation + 1 /\ halfOpenInFlight' = 0
    BY <1>5 DEF open, close
  <2>2. \A d \in Calls : ~Current(d)'
    BY <1>4, <2>1, NewGenerationHasNoProbe
  <2>3. PermitsFromPast'
    BY <1>4, <2>1 DEF PermitsFromPast, TypeOK, Permits
  <2> QED
    BY <2>1, <2>2, <2>3, NobodyCurrent
<1>6. CASE Ignored(c) /\ UNCHANGED breakerFields
  <2>1. c \notin CurrentProbes
    BY <1>6 DEF Ignored, CurrentProbes, Current, VoteMatchesState
  <2> QED
    BY <1>1, <1>3, <1>4, <1>6, <2>1, StopVoting DEF breakerFields
<1>7. CASE ~Ignored(c) /\ permit[c].probe /\ completeProbe(failure)
  <2>1. c \in CurrentProbes
    BY <1>3, <1>7 DEF Ignored, CurrentProbes, Current
  <2>2. CASE ~(open \/ close)
    <3>1. generation' = generation /\ state' = state /\ halfOpenInFlight' = Decremented
      BY <1>7, <2>2 DEF completeProbe, FreeSlot, UncountedProbe
    <3> QED
      BY <1>1, <1>3, <1>4, <2>1, <3>1, StopVoting
  <2> QED
    BY <1>5, <2>2
<1>8. CASE ~Ignored(c) /\ ~permit[c].probe /\ completeClosed(failure)
  <2>1. c \notin CurrentProbes
    BY <1>8 DEF CurrentProbes
  <2>2. CASE ~(open \/ close)
    <3>1. generation' = generation /\ state' = state /\ halfOpenInFlight' = halfOpenInFlight
      BY <1>8, <2>2 DEF completeClosed, ThresholdReached, breakerFields
    <3> QED
      BY <1>1, <1>3, <1>4, <2>1, <3>1, StopVoting
  <2> QED
    BY <1>5, <2>2
<1> QED
  BY <1>6, <1>7, <1>8 DEF Complete, complete

\* The deferred Abandon preserves the invariant: it frees a slot only for a
\* probe that was never completed.
LEMMA AbandonStep ==
  ASSUME BreakerInv, NEW c \in Calls, Abandon(c), TypeOK'
  PROVE  BreakerInv'
<1> USE DEF BreakerInv
<1>1. permit'[c] = NoPermit /\ \A d \in Calls \ {c} : permit'[d] = permit[d]
  BY DEF Abandon, TypeOK
<1>2. ~Current(c)' /\ permit'[c].generation <= generation
  BY <1>1 DEF NoPermit, Current, Pending, TypeOK
<1>3. generation' = generation /\ state' = state
  BY DEF Abandon, abandon, breakerFields
<1>4. CASE permit[c].completed
  <2>1. c \notin CurrentProbes /\ halfOpenInFlight' = halfOpenInFlight
    BY <1>4 DEF CurrentProbes, Current, Pending, Abandon, breakerFields
  <2> QED
    BY <1>1, <1>2, <1>3, <2>1, StopVoting
<1>5. CASE ~permit[c].completed
  <2>1. c \in CurrentProbes <=> /\ permit[c].generation = generation
                                /\ permit[c].probe
                                /\ state = StateHalfOpen
    BY <1>5 DEF CurrentProbes, Current, Pending, Abandon, VoteMatchesState
  <2>2. halfOpenInFlight' = IF c \in CurrentProbes THEN Decremented
                            ELSE halfOpenInFlight
    BY <1>5, <2>1 DEF Abandon, abandon
  <2> QED
    BY <1>1, <1>2, <1>3, <2>2, StopVoting
<1> QED
  BY <1>4, <1>5

\* One step per operation of the breaker.
LEMMA InvStep == BreakerInv /\ [Next]_breakerVars => BreakerInv'
<1> SUFFICES ASSUME BreakerInv, [Next]_breakerVars PROVE BreakerInv'
  OBVIOUS
<1>0. TypeOK'
  BY TypeStep DEF BreakerInv
<1>1. ASSUME NEW c \in Calls, Allow(c) PROVE BreakerInv'
  BY <1>0, <1>1, AllowStep
<1>2. ASSUME NEW c \in Calls, Reject(c) PROVE BreakerInv'
  BY <1>0, <1>2, AdvanceStep DEF Reject
<1>3. ASSUME NEW c \in Calls, Abandon(c) PROVE BreakerInv'
  BY <1>0, <1>3, AbandonStep
<1>4. ASSUME NEW c \in Calls, NEW failure \in Outcomes, Complete(c, failure)
      PROVE BreakerInv'
  BY <1>0, <1>4, CompleteStep
<1>5. CASE Snapshot
  BY <1>0, <1>5, AdvanceStep DEF Snapshot
<1>6. CASE Tick \/ UNCHANGED breakerVars
  <2>1. UNCHANGED <<state, generation, halfOpenInFlight, permit>>
    BY <1>6 DEF Tick, breakerVars, breakerFields
  <2>2. CurrentProbes' = CurrentProbes /\ \A d \in Calls : Current(d)' <=> Current(d)
    BY <2>1 DEF CurrentProbes, Current, Pending
  <2> QED
    BY <1>0, <2>1, <2>2
       DEF BreakerInv, PermitsFromPast, VoteMatchesState, InFlightIsPendingProbes
<1> QED
  BY <1>1, <1>2, <1>3, <1>4, <1>5, <1>6 DEF Next

\* A new breaker is closed and has given no permit.
LEMMA InitInv == Init => BreakerInv
<1> SUFFICES ASSUME Init PROVE BreakerInv
  OBVIOUS
<1>1. TypeOK
  BY BreakerAssumption DEF Init, TypeOK, Permits, NoPermit, StateClosed
<1>2. \A c \in Calls : ~Current(c)
  BY DEF Init, Current, Pending, NoPermit
<1>3. CurrentProbes = {}
  BY <1>2 DEF CurrentProbes
<1> QED
  BY <1>1, <1>2, <1>3, FS_EmptySet
     DEF BreakerInv, Init, PermitsFromPast, VoteMatchesState,
         InFlightIsPendingProbes, NoPermit

\* The invariant holds in every reachable state.
THEOREM Invariance == Spec => []BreakerInv
<1>1. Init => BreakerInv
  BY InitInv
<1>2. BreakerInv /\ [Next]_breakerVars => BreakerInv'
  BY InvStep
<1> QED
  BY <1>1, <1>2, PTL DEF Spec

\* The counters of breaker.go stay within the configured bounds, whatever the
\* thresholds, the number of concurrent calls and the outcomes they report.
THEOREM TypeCorrect == Spec => []TypeOK
BY Invariance, PTL DEF BreakerInv

\* breaker.go never leaks or double-frees a half-open slot: the counter equals
\* the number of unreported probes of the present half-open period.
THEOREM ProbeAccounting == Spec => []InFlightIsPendingProbes
BY Invariance, PTL DEF BreakerInv

\* A permit that can still vote was issued in the breaker's present state.
THEOREM VotesAreCurrent == Spec => []VoteMatchesState
BY Invariance, PTL DEF BreakerInv

-----------------------------------------------------------------------------
Voters == {c \in Calls : Current(c)}
Tally == IF state = StateClosed THEN consecutiveFailures
         ELSE IF state = StateHalfOpen THEN halfOpenSuccesses ELSE 0

\* A half-open breaker's voters are its probes, so there are as many voters as
\* the code's counter says.
LEMMA HalfOpenVoters ==
  ASSUME BreakerInv, state = StateHalfOpen
  PROVE  Cardinality(Voters) = halfOpenInFlight
<1>1. Voters = CurrentProbes
  BY DEF BreakerInv, VoteMatchesState, Voters, CurrentProbes, StateHalfOpen, StateClosed
<1> QED
  BY <1>1 DEF BreakerInv, InFlightIsPendingProbes

\* An open breaker has no voters.
LEMMA OpenHasNoVoter ==
  ASSUME BreakerInv, state = StateOpen
  PROVE  Voters = {}
BY DEF BreakerInv, VoteMatchesState, Voters, StateOpen, StateHalfOpen, StateClosed

\* The lazy transition to half-open is invisible to the policy.
LEMMA AdvanceIsStutter ==
  ASSUME BreakerInv, advance, UNCHANGED permit
  PROVE  /\ AdvancedState' = AdvancedState
         /\ Voters' = Voters
         /\ Tally' = Tally
<1> USE DEF BreakerInv
<1>1. CASE Due
  <2>1. state' = StateHalfOpen /\ generation' = generation + 1 /\ halfOpenSuccesses' = 0
    BY <1>1 DEF advance, AdvancedState, AdvancedGeneration, AdvancedSuccesses
  <2>2. Voters' = {}
    BY <2>1, NewGenerationHasNoProbe DEF PermitsFromPast, Voters
  <2> QED
    BY <1>1, <2>1, <2>2, OpenHasNoVoter
       DEF Due, AdvancedState, Tally, StateOpen, StateHalfOpen, StateClosed
<1>2. CASE ~Due
  <2>1. UNCHANGED <<state, generation, halfOpenSuccesses, consecutiveFailures, openLeft>>
    BY <1>2 DEF advance, AdvancedState, AdvancedGeneration, AdvancedSuccesses
  <2>2. Voters' = Voters
    BY <2>1 DEF Voters, Current, Pending
  <2> QED
    BY <2>1, <2>2 DEF AdvancedState, Due, Tally
<1> QED
  BY <1>1, <1>2

\* The policy counts its voters as this module does.
LEMMA SameCardinality == \A S : Policy!Cardinality(S) = Cardinality(S)
BY Zenon DEF Policy!Cardinality, Cardinality

\* An Allow that succeeds is a call joining the voters.
LEMMA AllowIsJoin ==
  ASSUME BreakerInv, NEW c \in Calls, Allow(c)
  PROVE  Policy!Join(c)
<1> USE DEF BreakerInv
<1>1. PICK isProbe \in BOOLEAN : Admit(c, isProbe)
  BY DEF Allow, ProbeSlotFree
<1>2. /\ permit'[c] = [held |-> TRUE, generation |-> AdvancedGeneration,
                       probe |-> isProbe, completed |-> FALSE]
      /\ \A d \in Calls \ {c} : permit'[d] = permit[d]
  BY <1>1 DEF Admit, TypeOK
<1>3. /\ generation' = AdvancedGeneration
      /\ state' = AdvancedState
      /\ halfOpenSuccesses' = AdvancedSuccesses
      /\ UNCHANGED <<consecutiveFailures, openLeft>>
  BY DEF Allow, ProbeSlotFree, advance
<1>4. c \notin Voters
  BY DEF Allow, ProbeSlotFree, Voters, Current, Pending
<1>5. Current(c)'
  BY <1>2, <1>3 DEF Current, Pending
<1>6. CASE Due
  <2>1. Voters = {}
    BY <1>6, OpenHasNoVoter DEF Due
  <2>2. \A d \in Calls \ {c} : ~Current(d)'
    BY <1>2, <1>3, <1>6 DEF AdvancedGeneration, Current, Pending, PermitsFromPast,
                            TypeOK, Permits
  <2>3. Voters' = Voters \cup {c}
    BY <1>5, <2>1, <2>2 DEF Voters
  <2>4. state' = StateHalfOpen /\ AdvancedState = StateHalfOpen /\ halfOpenSuccesses' = 0
    BY <1>3, <1>6 DEF AdvancedState, AdvancedSuccesses
  <2>5. AdvancedState' = AdvancedState /\ Tally' = Tally /\ Tally = 0
    BY <1>6, <2>4 DEF AdvancedState, Due, Tally, StateOpen, StateHalfOpen, StateClosed
  <2>6. Cardinality(Voters) < HalfOpenMaxProbes
    BY <2>1, FS_EmptySet, BreakerAssumption
  <2> QED
    BY <1>4, <2>3, <2>4, <2>5, <2>6, SameCardinality DEF Policy!Join, Voters, Tally, StateHalfOpen
<1>7. CASE ~Due
  <2>1. UNCHANGED <<generation, state, halfOpenSuccesses>>
    BY <1>3, <1>7 DEF AdvancedGeneration, AdvancedState, AdvancedSuccesses
  <2>2. \A d \in Calls \ {c} : Current(d)' <=> Current(d)
    BY <1>2, <2>1 DEF Current, Pending
  <2>3. Voters' = Voters \cup {c}
    BY <1>5, <2>2 DEF Voters
  <2>4. AdvancedState' = AdvancedState /\ Tally' = Tally
    BY <1>3, <2>1 DEF AdvancedState, Due, Tally
  <2>5. AdvancedState = StateHalfOpen => Cardinality(Voters) = AdvancedInFlight
    BY <1>7, HalfOpenVoters DEF AdvancedState, AdvancedInFlight
  <2>6. \/ AdvancedState = StateClosed
        \/ AdvancedState = StateHalfOpen /\ Cardinality(Voters) < HalfOpenMaxProbes
    BY <2>5 DEF Allow, ProbeSlotFree
  <2> QED
    BY <1>4, <2>3, <2>4, <2>6, SameCardinality DEF Policy!Join, Voters, Tally, StateHalfOpen, StateClosed
<1> QED
  BY <1>6, <1>7

\* While the generation stays, a call that stops voting only removes itself.
LEMMA StopVotingVoters ==
  ASSUME NEW c \in Calls, ~Current(c)', UNCHANGED generation,
         \A d \in Calls \ {c} : permit'[d] = permit[d]
  PROVE  Voters' = Voters \ {c}
BY DEF Voters, Current, Pending

\* A completion is a report of a voter, a change of mode, or invisible.
LEMMA CompleteIsReport ==
  ASSUME BreakerInv, NEW c \in Calls, NEW failure \in Outcomes, Complete(c, failure)
  PROVE  Policy!Succeed(c) \/ Policy!Fail(c) \/ Policy!Withdraw(c)
         \/ UNCHANGED Policy!policyVars
<1> USE DEF BreakerInv
<1>1. /\ permit'[c] = [permit[c] EXCEPT !.completed = TRUE]
      /\ \A d \in Calls \ {c} : permit'[d] = permit[d]
  BY DEF Complete, TypeOK
<1>2. permit'[c].completed /\ permit'[c].generation = permit[c].generation
  BY <1>1 DEF TypeOK, Permits
<1>3. ~Current(c)' /\ Pending(c)
  BY <1>2 DEF Current, Pending, Complete
<1>4. \A d \in Calls : permit'[d].generation <= generation
  BY <1>1, <1>2 DEF PermitsFromPast
<1>5. ASSUME generation' = generation + 1 PROVE Voters' = {}
  BY <1>4, <1>5, NewGenerationHasNoProbe DEF Voters
<1>6. ASSUME generation' = generation PROVE Voters' = Voters \ {c}
  BY <1>1, <1>3, <1>6, StopVotingVoters
<1>7. ASSUME open PROVE AdvancedState' = "open" /\ Voters' = {} /\ Tally' = 0
  BY <1>5, <1>7, BreakerAssumption
     DEF open, AdvancedState, Due, Tally, StateOpen, StateClosed, StateHalfOpen
<1>8. ASSUME close PROVE AdvancedState' = "closed" /\ Voters' = {} /\ Tally' = 0
  BY <1>5, <1>8
     DEF close, AdvancedState, Due, Tally, StateOpen, StateClosed, StateHalfOpen
<1>9. CASE Ignored(c) /\ UNCHANGED breakerFields
  <2>1. c \notin Voters
    BY <1>9 DEF Ignored, Voters, Current, VoteMatchesState
  <2>2. Voters' = Voters
    BY <1>6, <1>9, <2>1 DEF breakerFields
  <2> QED
    BY <1>9, <2>2 DEF breakerFields, Policy!policyVars, AdvancedState, Due, Voters
<1>10. CASE ~Ignored(c) /\ permit[c].probe /\ completeProbe(failure)
  <2>1. c \in Voters /\ state = StateHalfOpen /\ AdvancedState = "half-open"
        /\ Tally = halfOpenSuccesses
    BY <1>3, <1>10 DEF Ignored, Voters, Current, AdvancedState, Due, Tally,
                      StateOpen, StateClosed, StateHalfOpen
  <2>2. CASE close /\ halfOpenSuccesses + 1 >= HalfOpenMaxProbes
    BY <1>8, <2>1, <2>2 DEF Policy!Succeed, Policy!Enter, Voters, Tally
  <2>3. CASE open
    BY <1>7, <2>1, <2>3 DEF Policy!Fail, Policy!Enter, Voters, Tally
  <2>4. CASE /\ halfOpenSuccesses + 1 < HalfOpenMaxProbes
             /\ halfOpenSuccesses' = halfOpenSuccesses + 1
             /\ UNCHANGED <<state, generation, consecutiveFailures, openLeft>>
    <3>1. AdvancedState' = "half-open" /\ Tally' = Tally + 1 /\ Voters' = Voters \ {c}
      BY <1>6, <2>1, <2>4 DEF AdvancedState, Due, Tally, StateOpen, StateClosed, StateHalfOpen
    <3> QED
      BY <2>1, <2>4, <3>1 DEF Policy!Succeed, Policy!Report, Voters, Tally
  <2>5. CASE UNCHANGED <<state, generation, consecutiveFailures, openLeft, halfOpenSuccesses>>
    <3>1. AdvancedState' = AdvancedState /\ Tally' = Tally /\ Voters' = Voters \ {c}
      BY <1>6, <2>5 DEF AdvancedState, Due, Tally
    <3> QED
      BY <2>1, <3>1 DEF Policy!Withdraw, Policy!Report, Voters, Tally
  <2> QED
    BY <1>10, <2>2, <2>3, <2>4, <2>5 DEF completeProbe, FreeSlot, UncountedProbe
<1>11. CASE ~Ignored(c) /\ ~permit[c].probe /\ completeClosed(failure)
  <2>1. c \in Voters /\ state = StateClosed /\ AdvancedState = "closed"
        /\ Tally = consecutiveFailures
    BY <1>3, <1>11 DEF Ignored, Voters, Current, AdvancedState, Due, Tally,
                      StateOpen, StateClosed, StateHalfOpen
  <2>2. CASE open /\ consecutiveFailures + 1 >= FailureThreshold
    BY <1>7, <2>1, <2>2 DEF Policy!Fail, Policy!Enter, Voters, Tally
  <2>3. CASE UNCHANGED <<state, generation, openLeft>>
    <3>1. AdvancedState' = "closed" /\ Tally' = consecutiveFailures' /\ Voters' = Voters \ {c}
      BY <1>6, <2>1, <2>3 DEF AdvancedState, Due, Tally, StateOpen, StateClosed
    <3>2. CASE consecutiveFailures' = 0
      BY <2>1, <3>1, <3>2 DEF Policy!Succeed, Policy!Report, Voters, Tally
    <3>3. CASE consecutiveFailures + 1 < FailureThreshold
               /\ consecutiveFailures' = consecutiveFailures + 1
      BY <2>1, <3>1, <3>3 DEF Policy!Fail, Policy!Report, Voters, Tally
    <3>4. CASE consecutiveFailures' = consecutiveFailures
      BY <2>1, <3>1, <3>4 DEF Policy!Withdraw, Policy!Report, Voters, Tally
    <3>5. CASE open
      BY <2>3, <3>5 DEF open, TypeOK
    <3>6. ~ThresholdReached => consecutiveFailures + 1 < FailureThreshold
      BY BreakerAssumption DEF ThresholdReached, TypeOK
    <3> QED
      BY <1>11, <3>2, <3>3, <3>4, <3>5, <3>6 DEF completeClosed, breakerFields
  <2> QED
    BY <1>11, <2>2, <2>3 DEF completeClosed, ThresholdReached, breakerFields
<1> QED
  BY <1>9, <1>10, <1>11 DEF Complete, complete

\* The deferred Abandon withdraws a voter, or is invisible.
LEMMA AbandonIsWithdraw ==
  ASSUME BreakerInv, NEW c \in Calls, Abandon(c)
  PROVE  Policy!Withdraw(c) \/ UNCHANGED Policy!policyVars
<1> USE DEF BreakerInv
<1>1. permit'[c] = NoPermit /\ \A d \in Calls \ {c} : permit'[d] = permit[d]
  BY DEF Abandon, TypeOK
<1>2. ~Current(c)'
  BY <1>1 DEF NoPermit, Current, Pending
<1>3. UNCHANGED <<state, generation, consecutiveFailures, openLeft, halfOpenSuccesses>>
  BY DEF Abandon, abandon, breakerFields
<1>4. Voters' = Voters \ {c}
  BY <1>1, <1>2, <1>3, StopVotingVoters
<1>5. AdvancedState' = AdvancedState /\ Tally' = Tally
  BY <1>3 DEF AdvancedState, Due, Tally
<1>6. CASE c \in Voters
  BY <1>4, <1>5, <1>6 DEF Policy!Withdraw, Policy!Report, Voters, Tally
<1>7. CASE c \notin Voters
  <2>1. Voters' = Voters
    BY <1>4, <1>7
  <2> QED
    BY <1>5, <2>1 DEF Policy!policyVars, Voters, Tally
<1> QED
  BY <1>6, <1>7

\* The clock reaching openedUntil is the policy's TimeUp.
LEMMA TickIsTimeUp ==
  ASSUME BreakerInv, Tick
  PROVE  Policy!TimeUp \/ UNCHANGED Policy!policyVars
<1> USE DEF BreakerInv
<1>1. UNCHANGED <<state, generation, consecutiveFailures, halfOpenSuccesses, permit>>
  BY DEF Tick
<1>2. Voters' = Voters /\ Tally' = Tally
  BY <1>1 DEF Voters, Current, Pending, Tally
<1>3. CASE state = StateOpen /\ openLeft = 1
  <2>1. Voters = {} /\ Tally = 0 /\ AdvancedState = "open" /\ AdvancedState' = "half-open"
    BY <1>1, <1>3, OpenHasNoVoter
       DEF Tick, TypeOK, AdvancedState, Due, Tally, StateOpen, StateClosed, StateHalfOpen
  <2> QED
    BY <1>2, <2>1 DEF Policy!TimeUp, Policy!Enter, Voters, Tally
<1>4. CASE ~(state = StateOpen /\ openLeft = 1)
  <2>1. AdvancedState' = AdvancedState
    BY <1>1, <1>4 DEF Tick, TypeOK, AdvancedState, Due
  <2> QED
    BY <1>2, <2>1 DEF Policy!policyVars, Voters, Tally
<1> QED
  BY <1>3, <1>4

\* Every operation of breaker.go is a step of the policy or invisible to it.
LEMMA PolicyStep ==
  BreakerInv /\ [Next]_breakerVars => [Policy!PolicyNext]_(Policy!policyVars)
<1> SUFFICES ASSUME BreakerInv, [Next]_breakerVars
             PROVE  [Policy!PolicyNext]_(Policy!policyVars)
  OBVIOUS
<1>0. ASSUME advance, UNCHANGED permit PROVE UNCHANGED Policy!policyVars
  BY <1>0, AdvanceIsStutter DEF Policy!policyVars, Voters, Tally
<1>1. ASSUME NEW c \in Calls, Allow(c) PROVE Policy!PolicyNext
  BY <1>1, AllowIsJoin DEF Policy!PolicyNext
<1>2. ASSUME NEW c \in Calls, Reject(c) PROVE UNCHANGED Policy!policyVars
  BY <1>0, <1>2 DEF Reject
<1>3. ASSUME NEW c \in Calls, Abandon(c)
      PROVE Policy!PolicyNext \/ UNCHANGED Policy!policyVars
  BY <1>3, AbandonIsWithdraw DEF Policy!PolicyNext
<1>4. ASSUME NEW c \in Calls, NEW failure \in Outcomes, Complete(c, failure)
      PROVE Policy!PolicyNext \/ UNCHANGED Policy!policyVars
  BY <1>4, CompleteIsReport DEF Policy!PolicyNext
<1>5. CASE Snapshot
  BY <1>0, <1>5 DEF Snapshot
<1>6. CASE Tick
  BY <1>6, TickIsTimeUp DEF Policy!PolicyNext
<1>7. CASE UNCHANGED breakerVars
  BY <1>7 DEF breakerVars, breakerFields, Policy!policyVars, AdvancedState, Due,
              Current, Pending
<1> QED
  BY <1>1, <1>2, <1>3, <1>4, <1>5, <1>6, <1>7 DEF Next

\* breaker.go implements BreakerPolicy: outcomes of calls admitted before the
\* last change of mode never count, at most HalfOpenMaxProbes probes vote at a
\* time, and it opens and closes exactly when the policy does.
THEOREM Refinement == Spec => ImplementsPolicy
<1>1. Init => Policy!PolicyInit
  <2> SUFFICES ASSUME Init PROVE Policy!PolicyInit
    OBVIOUS
  <2>1. {c \in Calls : Current(c)} = {}
    BY DEF Init, Current, Pending, NoPermit
  <2> QED
    BY <2>1 DEF Init, Policy!PolicyInit, AdvancedState, Due, StateClosed, StateOpen
<1>2. BreakerInv /\ [Next]_breakerVars => [Policy!PolicyNext]_(Policy!policyVars)
  BY PolicyStep
<1> QED
  BY <1>1, <1>2, Invariance, PTL DEF Spec, ImplementsPolicy, Policy!PolicySpec
=============================================================================
