------------------------- MODULE OrchestratorProofs -------------------------
(***************************************************************************)
(* The second half of the proofs about the way of a request: the stream,   *)
(* the end of an attempt, the invariant of OrchestratorSteps for the whole *)
(* next-state relation, and what follows from it.  The orchestrator keeps  *)
(* to the protocol of the breaker, so what is proved of the breaker alone  *)
(* (BreakerProofs) holds of the breaker in the orchestrator.               *)
(***************************************************************************)
EXTENDS OrchestratorSteps

-----------------------------------------------------------------------------
(* The stream and the end of the call.                                     *)

\* The first event of a stream: the attempt is counted, the plan committed.
LEMMA StreamOpenedInv ==
  ASSUME OrchestratorInv, NEW r \in Requests, StreamOpened(r)
  PROVE  OrchestratorInv'
<1> DEFINE x == req[r]
           a == req[r].attempts + 1
           l == [x EXCEPT !.attempts = a, !.committed = TRUE]
<1>0. /\ Typed /\ RequestInv(r) /\ GenerationBound /\ pc[r] = "call" /\ NilError \in Errors
      /\ UNCHANGED <<breakerPart, stateVersion, selection, holders, ctx, faulted>>
      /\ req' = [req EXCEPT ![r] = l]
      /\ pc' = [pc EXCEPT ![r] = "relay"] /\ "relay" \in Places
  BY DEF OrchestratorInv, StreamOpened, keyPart, SetLocals, GoTo, Places
<1>3. /\ req[r].failure = NoFailure /\ req[r].attempts < MaxAttempts
      /\ Spent(r) <= Allowed(r) + 1
  BY <1>0 DEF RequestInv, Spends, Before
<1>4. x \in Locals /\ a \in 0..MaxAttempts
  BY <1>0, <1>3, LocalFields, OrchestratorAssumption
<1>5. /\ l \in Locals /\ l.attempts = a /\ l.key = x.key /\ l.failure = x.failure
      /\ l.candidate = x.candidate /\ l.calls = x.calls
      /\ l.excluded = x.excluded /\ l.refused = x.refused
  <2> HIDE DEF x, a
  <2> QED
    BY <1>4, Zenon DEF Locals
<1> HIDE DEF l
<1>6. /\ pc'[r] = "relay" /\ req'[r] = l /\ permit' = permit /\ generation' = generation
      /\ RequestInv(r)' => OrchestratorInv'
  BY <1>0, <1>5, QuietStep, Zenon DEF Typed
<1>7. RequestInv(r)'
  <2>1. Holds(r)'
    BY <1>0, <1>5, <1>6
       DEF RequestInv, Holds, Pends, MayHoldSlot, Asks, B!Pending, K!Outstanding
  <2>2. Spent(r)' = Spent(r)
    BY <1>5, <1>6 DEF Spent
  <2>3. Allowed(r)' = Allowed(r) + 1
    <3>1. MaxAttempts * req[r].candidate \in Nat /\ req[r].attempts \in Nat
      BY <1>0, LocalFields, OrchestratorAssumption
    <3> QED
      BY <1>5, <1>6, <3>1 DEF Allowed
  <2>4. Spends(r)'
    BY <1>3, <1>6, <2>2, <2>3 DEF Spends, Before
  <2>5. Avoids(r)'
    BY <1>0, <1>5, <1>6 DEF RequestInv, Avoids, NextExcluded
  <2>6. Votes(r)'
    BY <1>0, <1>3, <1>5, <1>6, Zenon DEF RequestInv, Votes
  <2> QED
    BY <2>1, <2>4, <2>5, <2>6 DEF RequestInv
<1> QED
  BY <1>6, <1>7

\* A panic of the adapter: key.Complete and permit.Complete are skipped.
LEMMA PanicsInv ==
  ASSUME OrchestratorInv, NEW r \in Requests, Panics(r)
  PROVE  OrchestratorInv'
<1>0. /\ Typed /\ RequestInv(r) /\ GenerationBound /\ pc[r] = "call"
      /\ UNCHANGED <<breakerPart, stateVersion, holders, ctx, req, faulted>>
      /\ selection' = [selection EXCEPT ![r] = K!NoSelection]
      /\ pc' = [pc EXCEPT ![r] = "release"] /\ "release" \in Places
  BY DEF OrchestratorInv, Panics, GoTo, Places
<1>1. /\ selection' \in [Requests -> K!Selections]
      /\ \A h \in Requests \ {r} : selection'[h] = selection[h]
      /\ ~K!Outstanding(r)'
  BY <1>0 DEF Typed, K!NoSelection, K!Selections, K!Outstanding
<1>2. req' = [req EXCEPT ![r] = req[r]] /\ req[r] \in Locals
  BY <1>0 DEF Typed
<1>3. /\ pc'[r] = "release" /\ permit' = permit /\ generation' = generation
      /\ RequestInv(r)' => OrchestratorInv'
  BY <1>0, <1>1, <1>2, QuietStep, Zenon DEF Typed
<1>4. RequestInv(r)'
  <2>1. Holds(r)'
    BY <1>0, <1>1, <1>3 DEF RequestInv, Holds, Pends, MayHoldSlot, Asks
  <2>2. Spends(r)'
    BY <1>0, <1>3, FinalFailures DEF RequestInv, Spends, Before, Spent, Allowed
  <2>3. Avoids(r)' /\ Votes(r)'
    BY <1>0, <1>3, Zenon DEF RequestInv, Avoids, NextExcluded, Votes
  <2> QED
    BY <2>1, <2>2, <2>3 DEF RequestInv
<1> QED
  BY <1>3, <1>4

\* A stream ends: Finish, FinishError or Abort, up to key.Complete.
LEMMA StreamEndsInv ==
  ASSUME OrchestratorInv, NEW r \in Requests, NEW f \in Reportable, StreamEnds(r, f)
  PROVE  OrchestratorInv'
<1> DEFINE x == req[r]
           l == [x EXCEPT !.failure = f]
<1>0. /\ Typed /\ RequestInv(r) /\ GenerationBound /\ pc[r] = "relay"
      /\ UNCHANGED <<breakerPart, holders, ctx>>
      /\ req' = [req EXCEPT ![r] = l] /\ MayFail(r, f) /\ K!Complete(r, f)
      /\ faulted' = (faulted \/ SignalsFor(f).CountBreaker)
      /\ pc' = [pc EXCEPT ![r] = "feedback"] /\ "feedback" \in Places
  BY DEF OrchestratorInv, StreamEnds, SetLocals, GoTo, Places
<1>3. /\ selection' \in [Requests -> K!Selections]
      /\ \A h \in Requests \ {r} : selection'[h] = selection[h]
      /\ ~K!Outstanding(r)' /\ stateVersion' \in [K!Keys -> Nat]
  BY <1>0, KeyCompleteFacts
<1>4. x \in Locals /\ f \in Known
  BY <1>0, LocalFields DEF Known
<1>5. /\ l \in Locals /\ l.attempts = x.attempts /\ l.key = x.key /\ l.failure = f
      /\ l.candidate = x.candidate /\ l.calls = x.calls
      /\ l.excluded = x.excluded /\ l.refused = x.refused
  <2> HIDE DEF x
  <2> QED
    BY <1>4, Zenon DEF Locals
<1> HIDE DEF l
<1>6. faulted' \in BOOLEAN /\ (faulted => faulted') /\ holders \subseteq Requests
  BY <1>0 DEF Typed
<1>7. /\ pc'[r] = "feedback" /\ req'[r] = l /\ permit' = permit /\ generation' = generation
      /\ RequestInv(r)' => OrchestratorInv'
  BY <1>0, <1>3, <1>5, <1>6, QuietStep, Zenon
<1>8. RequestInv(r)'
  <2>1. Holds(r)'
    BY <1>0, <1>3, <1>7
       DEF RequestInv, Holds, Pends, MayHoldSlot, Asks, B!Pending
  <2>2. Spent(r)' = Spent(r) /\ Allowed(r)' = Allowed(r)
    BY <1>5, <1>7 DEF Spent, Allowed
  <2>3. Spends(r)'
    BY <1>0, <1>5, <1>7, <2>2 DEF RequestInv, Spends, Before
  <2>4. req[r].failure = NoFailure
    BY <1>0 DEF RequestInv, Votes
  <2>5. Avoids(r)'
    BY <1>0, <1>5, <1>7, <2>4, FinalFailures DEF RequestInv, Avoids, NextExcluded, Quiet
  <2>6. permit[r].held /\ permit[r].generation \in Nat /\ generation \in Nat
    BY <1>0, Zenon DEF Typed, RequestInv, Holds, Pends, B!Pending, B!Permits
  <2>7. permit[r].generation <= generation
    BY <1>0, <2>6 DEF RequestInv, Votes
  <2>8. SignalsFor(f).CountBreaker => faulted' /\ permit[r].generation < MaxGeneration
    BY <1>0, <2>6, <2>7, BelowBound, OrchestratorAssumption, Zenon DEF MayFail
  <2>9. Votes(r)'
    BY <1>5, <1>7, <2>7, <2>8, Zenon DEF Votes
  <2> QED
    BY <2>1, <2>3, <2>5, <2>9 DEF RequestInv
<1> QED
  BY <1>7, <1>8

\* Every end of a stream reports an outcome that the breaker knows.
LEMMA FinishInv ==
  ASSUME OrchestratorInv, NEW r \in Requests, Finish(r)
  PROVE  OrchestratorInv'
<1>0. Typed /\ RequestInv(r)
  BY DEF OrchestratorInv
<1>1. CASE StreamEnds(r, NoFailure)
  <2>1. NilError \in Errors
    BY <1>0, <1>1 DEF StreamEnds, RequestInv, Votes
  <2>2. NilError.kind = "nil"
    BY DEF NilError, SentinelError
  <2>3. LiveFailure(NilError) = NoFailure
    BY <2>2, NilIsNoFailure DEF LiveFailure
  <2>4. NoFailure \in Reportable
    BY <2>1, <2>3, Zenon DEF Reportable
  <2> QED
    BY <1>1, <2>4, StreamEndsInv
<1>2. ASSUME NEW err \in Answers(r),
             StreamEnds(r, FromProvider(ctx[r], err, MaximumRetryAfter, DefaultCooldown))
      PROVE  OrchestratorInv'
  <2> DEFINE f == FromProvider(ctx[r], err, MaximumRetryAfter, DefaultCooldown)
  <2>1. f \in Reportable
    BY <1>0, AnswerFacts
  <2> QED
    BY <1>2, <2>1, StreamEndsInv
<1>3. CASE StreamEnds(r, Failed("canceled"))
  BY <1>3, EndsReportable, StreamEndsInv
<1> QED
  BY <1>1, <1>2, <1>3 DEF Finish

\* permit.Complete.
LEMMA PermitCompleteInv ==
  ASSUME OrchestratorInv, NEW r \in Requests, PermitComplete(r)
  PROVE  OrchestratorInv'
<1>0. /\ Typed /\ RequestInv(r) /\ GenerationBound /\ pc[r] = "feedback"
      /\ B!Complete(r, req[r].failure)
      /\ UNCHANGED <<stateVersion, selection, holders, ctx, req, faulted>>
  BY DEF OrchestratorInv, PermitComplete, keyPart
<1>1. /\ pc'[r] = "release" /\ pc' \in [Requests -> Places]
      /\ \A h \in Requests \ {r} : pc'[h] = pc[h]
  BY <1>0 DEF Typed, PermitComplete, GoTo, Places
<1>2. SignalsFor(req[r].failure).CountBreaker =>
        faulted /\ permit[r].generation < MaxGeneration
  BY <1>0, Zenon DEF RequestInv, Votes
<1>3. /\ BreakerMoves
      /\ ~SignalsFor(req[r].failure).CountBreaker => StaysHealthy
      /\ permit' \in [Requests -> B!Permits]
      /\ \A h \in Requests \ {r} : permit'[h] = permit[h]
      /\ permit'[r].generation = permit[r].generation
  BY <1>0, <1>2, CompleteFacts
<1>4. Typed'
  BY <1>0, <1>1, <1>3 DEF Typed, BreakerMoves
<1>5. Frame(r)
  BY <1>0, <1>1, <1>3 DEF Frame
<1>6. RequestInv(r)'
  <2>1. Holds(r)'
    BY <1>0, <1>1 DEF RequestInv, Holds, Pends, MayHoldSlot, Asks, K!Outstanding
  <2>2. Spends(r)'
    BY <1>0, <1>1 DEF RequestInv, Spends, Before, Spent, Allowed
  <2>3. Avoids(r)'
    BY <1>0 DEF RequestInv, Avoids, NextExcluded
  <2>4. /\ permit[r].held /\ permit[r].generation \in Nat
        /\ generation \in Nat /\ generation' \in Nat
    BY <1>0, <1>3 DEF Typed, RequestInv, Holds, Pends, B!Pending, B!Permits, BreakerMoves
  <2>5. permit[r].generation <= generation'
    BY <1>0, <1>3, <2>4 DEF RequestInv, Votes, BreakerMoves
  <2>6. Votes(r)'
    BY <1>1, <1>3, <2>5 DEF Votes
  <2> QED
    BY <2>1, <2>2, <2>3, <2>6 DEF RequestInv
<1>7. ~faulted' => StaysHealthy
  BY <1>0, <1>2, <1>3
<1> QED
  BY <1>0, <1>3, <1>4, <1>5, <1>6, <1>7, StepInv

\* lease.Release, of the zero lease as well.
LEMMA LeaseReleaseInv ==
  ASSUME OrchestratorInv, NEW r \in Requests, LeaseRelease(r)
  PROVE  OrchestratorInv'
<1>0. /\ Typed /\ RequestInv(r) /\ GenerationBound /\ pc[r] = "release"
      /\ holders' = holders \ {r}
      /\ UNCHANGED <<breakerPart, stateVersion, selection, ctx, req, faulted>>
      /\ pc' = [pc EXCEPT ![r] = "return"] /\ "return" \in Places
  BY DEF OrchestratorInv, LeaseRelease, keyPart, S!GiveBack, GoTo, Places
<1>1. req' = [req EXCEPT ![r] = req[r]] /\ req[r] \in Locals
  BY <1>0 DEF Typed
<1>2. /\ pc'[r] = "return" /\ permit' = permit /\ generation' = generation
      /\ RequestInv(r)' => OrchestratorInv'
  BY <1>0, <1>1, QuietStep, Zenon DEF Typed
<1>3. RequestInv(r)'
  <2>1. Holds(r)'
    BY <1>0, <1>2 DEF RequestInv, Holds, Pends, MayHoldSlot, Asks, K!Outstanding
  <2>2. Spends(r)'
    BY <1>0, <1>2 DEF RequestInv, Spends, Before, Spent, Allowed
  <2>3. Avoids(r)' /\ Votes(r)'
    BY <1>0, <1>2, Zenon DEF RequestInv, Avoids, NextExcluded, Votes
  <2> QED
    BY <2>1, <2>2, <2>3 DEF RequestInv
<1> QED
  BY <1>2, <1>3

-----------------------------------------------------------------------------
(* The end of an attempt: retry, fallback, or the end of the request.      *)

\* A request that starts over, alone or with the calls of earlier candidates.
LEMMA FreshLocals ==
  /\ Fresh \in Locals /\ Fresh.attempts = 0 /\ Fresh.calls = 0 /\ Fresh.candidate = 1
  /\ Fresh.failure = NoFailure /\ Fresh.excluded = {} /\ Fresh.refused = {}
<1>1. 1 \in 1..Candidates /\ 0 \in 0..MaxAttempts
  BY OrchestratorAssumption
<1>2. NoFailure \in Known
  BY DEF Known
<1> QED
  BY <1>1, <1>2, Zenon DEF Fresh, Locals

\* What the retry loops find at "return", or WaitCut at "backoff".
LEMMA ReturnFacts ==
  ASSUME OrchestratorInv, NEW r \in Requests, pc[r] \in {"return", "backoff"}
  PROVE  /\ ~K!Outstanding(r) /\ r \notin holders
         /\ Spent(r) <= Allowed(r) \/ (Spent(r) <= Allowed(r) + 1 /\ req[r].attempts < MaxAttempts)
         /\ SignalsFor(req[r].failure).Retry \/ SignalsFor(req[r].failure).SwitchKey
              => Spent(r) <= Allowed(r)
<1>1. RequestInv(r)
  BY DEF OrchestratorInv
<1> QED
  BY <1>1, Zenon DEF RequestInv, Holds, Asks, MayHoldSlot, Spends, Quiet

\* A step that goes back to the head of a loop, holding nothing.
LEMMA RestartInv ==
  ASSUME OrchestratorInv, NEW r \in Requests, pc[r] \in {"return", "backoff"},
         NEW place \in {"idle", "admit", "backoff"}, pc' = [pc EXCEPT ![r] = place],
         req' \in [Requests -> Locals], \A h \in Requests \ {r} : req'[h] = req[h],
         ctx' \in [Requests -> {"live", "canceled", "deadline"}],
         UNCHANGED <<keyPart, holders, faulted>>,
         BreakerMoves, StaysHealthy, permit' \in [Requests -> B!Permits],
         \A h \in Requests \ {r} : permit'[h] = permit[h], ~permit'[r].held,
         req'[r].failure = NoFailure, req'[r].attempts < MaxAttempts,
         Spent(r)' <= Allowed(r)', req'[r].refused \subseteq req'[r].excluded
  PROVE  OrchestratorInv'
<1>0. Typed /\ RequestInv(r) /\ UNCHANGED <<stateVersion, selection, holders, faulted>>
  BY DEF OrchestratorInv, keyPart
<1>1. /\ pc'[r] = place /\ pc' \in [Requests -> Places]
      /\ \A h \in Requests \ {r} : pc'[h] = pc[h]
  BY <1>0 DEF Typed, Places
<1>2. ~K!Outstanding(r) /\ r \notin holders
  BY ReturnFacts
<1>3. Typed'
  BY <1>0, <1>1 DEF Typed, BreakerMoves
<1>4. Frame(r)
  BY <1>0, <1>1 DEF Frame
<1>5. Holds(r)'
  BY <1>0, <1>1, <1>2 DEF Holds, Pends, Asks, MayHoldSlot, K!Outstanding
<1>6. Spends(r)'
  BY <1>1 DEF Spends, Before
<1>7. Avoids(r)' /\ Votes(r)'
  BY <1>1 DEF Avoids, NextExcluded, Votes
<1>8. RequestInv(r)'
  BY <1>5, <1>6, <1>7 DEF RequestInv
<1> QED
  BY <1>0, <1>3, <1>4, <1>8, StepInv

\* The request is over.
LEMMA OverInv ==
  ASSUME OrchestratorInv, NEW r \in Requests, pc[r] \in {"return", "backoff"}, Over(r),
         UNCHANGED <<keyPart, holders>>,
         BreakerMoves, StaysHealthy, permit' \in [Requests -> B!Permits],
         \A h \in Requests \ {r} : permit'[h] = permit[h], ~permit'[r].held
  PROVE  OrchestratorInv'
<1>0. Typed
  BY DEF OrchestratorInv
<1>1. /\ pc' = [pc EXCEPT ![r] = "idle"] /\ req' = [req EXCEPT ![r] = Fresh]
      /\ ctx' = [ctx EXCEPT ![r] = "live"] /\ faulted' = faulted
  BY DEF Over, GoTo, SetLocals
<1>2. /\ req' \in [Requests -> Locals] /\ req'[r] = Fresh
      /\ \A h \in Requests \ {r} : req'[h] = req[h]
      /\ ctx' \in [Requests -> {"live", "canceled", "deadline"}]
  BY <1>0, <1>1, FreshLocals DEF Typed
<1>3. Spent(r)' <= Allowed(r)'
  BY <1>2, FreshLocals, OrchestratorAssumption DEF Spent, Allowed
<1>4. 0 < MaxAttempts
  BY OrchestratorAssumption
<1> QED
  BY <1>1, <1>2, <1>3, <1>4, FreshLocals, RestartInv, Zenon

\* One more candidate, MaxAttempts more calls.
LEMMA NextAllowance ==
  ASSUME NEW m \in Nat, NEW c \in Nat
  PROVE  m * (c + 1) = m * c + m
OBVIOUS

\* FallbackOrOver of LeavesCandidate.
LEMMA FallbackInv ==
  ASSUME OrchestratorInv, NEW r \in Requests, pc[r] = "return", FallbackOrOver(r),
         UNCHANGED <<keyPart, holders>>,
         BreakerMoves, StaysHealthy, permit' \in [Requests -> B!Permits],
         \A h \in Requests \ {r} : permit'[h] = permit[h], ~permit'[r].held
  PROVE  OrchestratorInv'
<1> DEFINE c == req[r].candidate + 1
           n == req[r].calls
           l == [Fresh EXCEPT !.candidate = c, !.calls = n]
<1>0. Typed
  BY DEF OrchestratorInv
<1>1. CASE Over(r)
  BY <1>1, OverInv
<1>2. CASE /\ req[r].candidate < Candidates /\ req' = [req EXCEPT ![r] = l]
           /\ pc' = [pc EXCEPT ![r] = "admit"] /\ UNCHANGED <<ctx, faulted>>
  <2>1. c \in 1..Candidates /\ n \in Nat
    BY <1>0, <1>2, LocalFields, OrchestratorAssumption
  <2>2. /\ l \in Locals /\ l.candidate = c /\ l.calls = n /\ l.attempts = Fresh.attempts
        /\ l.failure = Fresh.failure /\ l.excluded = Fresh.excluded
        /\ l.refused = Fresh.refused
    <3> HIDE DEF c, n
    <3>1. Fresh \in Locals
      BY FreshLocals
    <3> QED
      BY <2>1, <3>1, Zenon DEF Locals
  <2> HIDE DEF l
  <2>3. /\ req' \in [Requests -> Locals] /\ req'[r] = l
        /\ \A h \in Requests \ {r} : req'[h] = req[h]
        /\ ctx' \in [Requests -> {"live", "canceled", "deadline"}]
    BY <1>0, <1>2, <2>2 DEF Typed
  <2>4. Spent(r)' <= Allowed(r)'
    <3> DEFINE p == MaxAttempts * req[r].candidate
               q == MaxAttempts * c
    <3>1. /\ req[r].candidate \in Nat /\ req[r].attempts \in 0..MaxAttempts /\ n \in Nat
          /\ MaxAttempts \in Nat
      BY <1>0, LocalFields, OrchestratorAssumption
    <3>2. p \in Nat /\ q = p + MaxAttempts
      BY <3>1, NextAllowance
    <3>3. Spent(r) = n + MaxAttempts /\ Allowed(r) = p + req[r].attempts
      BY DEF Spent, Allowed
    <3>4. Spent(r)' = n + MaxAttempts /\ Allowed(r)' = q + 0
      BY <2>2, <2>3, FreshLocals DEF Spent, Allowed
    <3>5. Spent(r) <= Allowed(r)
            \/ (Spent(r) <= Allowed(r) + 1 /\ req[r].attempts < MaxAttempts)
      BY ReturnFacts
    <3> HIDE DEF p, q, n
    <3> QED
      BY <3>1, <3>2, <3>3, <3>4, <3>5
  <2>5. 0 < MaxAttempts
    BY OrchestratorAssumption
  <2> QED
    BY <1>2, <2>2, <2>3, <2>4, <2>5, FreshLocals, RestartInv, Zenon
<1> QED
  BY <1>1, <1>2 DEF FallbackOrOver, SetLocals, GoTo

\* Retries: the next attempt of the candidate, without the keys that refused it.
LEMMA RetriesInv ==
  ASSUME OrchestratorInv, NEW r \in Requests, Retries(r)
  PROVE  OrchestratorInv'
<1> DEFINE x == req[r]
           e == NextExcluded(r)
           p == NextPreferred(r)
           l == [x EXCEPT !.excluded = e, !.preferred = p,
                          !.key = K!NoKey, !.failure = NoFailure]
<1>0. /\ Typed /\ RequestInv(r) /\ GenerationBound /\ pc[r] = "return"
      /\ ShouldRetry(req[r].failure, req[r].attempts) /\ Abandoned(r)
      /\ UNCHANGED <<keyPart, holders, ctx, faulted>>
      /\ req' = [req EXCEPT ![r] = l] /\ pc' = [pc EXCEPT ![r] = "backoff"]
  BY DEF OrchestratorInv, Retries, SetLocals, GoTo
<1>1. /\ BreakerMoves /\ StaysHealthy /\ permit' \in [Requests -> B!Permits]
      /\ \A h \in Requests \ {r} : permit'[h] = permit[h]
      /\ ~permit'[r].held
  BY <1>0, AbandonedFacts
<1>2. /\ x \in Locals /\ e \in SUBSET K!Keys /\ p \in K!Keys \cup {K!NoKey}
      /\ req[r].refused \subseteq e
  BY <1>0, LocalFields DEF NextExcluded, NextPreferred, RequestInv, Avoids
<1>3. /\ l \in Locals /\ l.candidate = x.candidate /\ l.calls = x.calls
      /\ l.attempts = x.attempts /\ l.failure = NoFailure
      /\ l.excluded = e /\ l.refused = x.refused
  <2>1. NoFailure \in Known
    BY DEF Known
  <2> HIDE DEF x, e, p
  <2> QED
    BY <1>2, <2>1, Zenon DEF Locals
<1> HIDE DEF l, e, p
<1>4. /\ req' \in [Requests -> Locals] /\ req'[r] = l
      /\ \A h \in Requests \ {r} : req'[h] = req[h]
      /\ ctx' \in [Requests -> {"live", "canceled", "deadline"}]
  BY <1>0, <1>3 DEF Typed
<1>5. Spent(r) <= Allowed(r) /\ req[r].attempts < MaxAttempts
  BY <1>0, ReturnFacts DEF ShouldRetry
<1>6. Spent(r)' <= Allowed(r)'
  BY <1>3, <1>4, <1>5 DEF Spent, Allowed
<1> QED
  BY <1>0, <1>1, <1>2, <1>3, <1>4, <1>5, <1>6, RestartInv, Zenon

\* Returns, LeavesCandidate and WaitCut give everything back.
LEMMA LeavesInv ==
  ASSUME OrchestratorInv, NEW r \in Requests,
         Returns(r) \/ LeavesCandidate(r) \/ WaitCut(r)
  PROVE  OrchestratorInv'
<1>0. Typed /\ RequestInv(r) /\ GenerationBound
  BY DEF OrchestratorInv
<1>1. ASSUME Abandoned(r)
      PROVE  /\ BreakerMoves /\ StaysHealthy /\ permit' \in [Requests -> B!Permits]
             /\ \A h \in Requests \ {r} : permit'[h] = permit[h]
             /\ ~permit'[r].held
  BY <1>0, <1>1, AbandonedFacts
<1>2. CASE Returns(r)
  BY <1>1, <1>2, OverInv DEF Returns
<1>3. CASE LeavesCandidate(r)
  BY <1>1, <1>3, FallbackInv, Zenon DEF LeavesCandidate
<1>4. CASE WaitCut(r)
  <2>1. /\ pc[r] = "backoff" /\ Over(r) /\ UNCHANGED breakerPart
        /\ UNCHANGED <<keyPart, holders>>
    BY <1>4 DEF WaitCut
  <2>2. BreakerMoves /\ StaysHealthy /\ permit' = permit
    BY <1>0, <2>1, BreakerIdle
  <2>3. /\ permit' \in [Requests -> B!Permits] /\ ~permit'[r].held
        /\ \A h \in Requests \ {r} : permit'[h] = permit[h]
    BY <1>0, <2>1, <2>2, Zenon DEF Typed, RequestInv, Holds
  <2> QED
    BY <2>1, <2>2, <2>3, OverInv
<1> QED
  BY <1>2, <1>3, <1>4

-----------------------------------------------------------------------------
(* The invariant.                                                          *)

\* Time alone moves nothing that the invariant speaks of.
LEMMA IdleInv ==
  ASSUME OrchestratorInv,
         UNCHANGED <<state, generation, consecutiveFailures, permit, stateVersion,
                     selection, holders, pc, ctx, req, faulted>>
  PROVE  OrchestratorInv'
<1>1. Typed /\ GenerationBound /\ HealthyStaysClosed
  BY DEF OrchestratorInv
<1>2. Typed'
  BY <1>1 DEF Typed
<1>3. GenerationBound' /\ HealthyStaysClosed'
  BY <1>1 DEF GenerationBound, HealthyStaysClosed
<1>4. PICK r : r \notin Requests
  BY NoSetContainsEverything
<1>5. Frame(r)
  BY DEF Frame
<1>6. generation <= generation'
  BY <1>1 DEF Typed
<1>7. \A h \in Requests : RequestInv(h)'
  BY <1>2, <1>4, <1>5, <1>6, FrameInv
<1> QED
  BY <1>2, <1>3, <1>7 DEF OrchestratorInv

\* The first states: no request, a closed breaker, a free queue.
LEMMA InitInv == Init => OrchestratorInv
<1> SUFFICES ASSUME Init PROVE OrchestratorInv
  OBVIOUS
<1>1. /\ state = B!StateClosed /\ generation = 0 /\ consecutiveFailures = 0
      /\ permit = [r \in Requests |-> B!NoPermit]
      /\ stateVersion = [k \in K!Keys |-> 0]
      /\ selection = [r \in Requests |-> K!NoSelection] /\ holders = {}
      /\ pc = [r \in Requests |-> "idle"] /\ ctx = [r \in Requests |-> "live"]
      /\ req = [r \in Requests |-> Fresh] /\ faulted = FALSE
  BY DEF Init, B!Init, S!SemInit
<1>2. /\ B!NoPermit \in B!Permits /\ ~B!NoPermit.held
      /\ K!NoSelection \in K!Selections /\ K!NoSelection.key = K!NoKey
  BY DEF B!NoPermit, B!Permits, K!NoSelection, K!Selections
<1>3. Typed
  BY <1>1, <1>2, FreshLocals, Zenon DEF Typed, Places
<1>4. GenerationBound /\ HealthyStaysClosed
  BY <1>1, OrchestratorAssumption
     DEF GenerationBound, HealthyStaysClosed, B!StateClosed, B!StateOpen, B!StateHalfOpen
<1>5. ASSUME NEW r \in Requests PROVE RequestInv(r)
  <2>1. pc[r] = "idle" /\ req[r] = Fresh /\ ~permit[r].held /\ ~K!Outstanding(r)
    BY <1>1, <1>2 DEF K!Outstanding
  <2>2. Holds(r)
    BY <1>1, <2>1 DEF Holds, Pends, Asks
  <2>3. Spent(r) <= Allowed(r)
    BY <2>1, FreshLocals, OrchestratorAssumption DEF Spent, Allowed
  <2>4. Spends(r)
    BY <2>1, <2>3, FreshLocals, OrchestratorAssumption DEF Spends
  <2>5. Avoids(r) /\ Votes(r)
    BY <2>1, FreshLocals, Zenon DEF Avoids, NextExcluded, Votes
  <2> QED
    BY <2>2, <2>4, <2>5 DEF RequestInv
<1> QED
  BY <1>3, <1>4, <1>5 DEF OrchestratorInv

\* Every step of every request, and of time, keeps the invariant.
LEMMA NextInv == OrchestratorInv /\ [Next]_vars => OrchestratorInv'
<1> SUFFICES ASSUME OrchestratorInv, [Next]_vars PROVE OrchestratorInv'
  OBVIOUS
<1>1. ASSUME NEW r \in Requests, Step(r) PROVE OrchestratorInv'
  BY <1>1, MovesInv, AdmittedInv, CircuitOpenInv, AcquireSlotInv, RefusalsInv, SelectKeyInv,
     AnsweredInv, StreamOpenedInv, PanicsInv, PermitCompleteInv, LeaseReleaseInv, LeavesInv,
     RetriesInv, Zenon DEF Step
<1>2. ASSUME NEW r \in Requests, Begin(r) \/ \E how \in Endings : ContextEnds(r, how)
      PROVE  OrchestratorInv'
  BY <1>2, MovesInv
<1>3. ASSUME NEW r \in Requests, Finish(r) PROVE OrchestratorInv'
  BY <1>3, FinishInv
<1>4. CASE Tick
  BY <1>4, IdleInv DEF Tick
<1>5. CASE UNCHANGED vars
  BY <1>5, IdleInv DEF vars, breakerPart, keyPart, requestPart
<1> QED
  BY <1>1, <1>2, <1>3, <1>4, <1>5 DEF Next

\* The inductive invariant holds in every reachable state.
THEOREM OrchestratorInvariance == Spec => []OrchestratorInv
<1>1. Init => OrchestratorInv
  BY InitInv
<1>2. OrchestratorInv /\ [Next]_vars => OrchestratorInv'
  BY NextInv
<1> QED
  BY <1>1, <1>2, PTL DEF Spec

\* Every path out of executeOnce and prepareStreamOnce, a panic of the adapter
\* included, gives back permit, slot and key, whatever the limits.
THEOREM NothingHeldOutside == Spec => []OutsideHoldsNothing
<1>1. OrchestratorInv => OutsideHoldsNothing
  BY Zenon DEF OrchestratorInv, RequestInv, Holds, OutsideHoldsNothing, MayHoldSlot, Asks
<1> QED
  BY <1>1, OrchestratorInvariance, PTL

\* A request calls the upstream at most MaxAttempts times for each candidate that
\* Execute has tried, although the loops run on uncounted through waits for a key.
THEOREM CallsAreBounded == Spec => []CallsBounded
<1>1. OrchestratorInv => CallsBounded
  <2> SUFFICES ASSUME OrchestratorInv, NEW r \in Requests
               PROVE  req[r].calls <= MaxAttempts * req[r].candidate
    BY DEF CallsBounded
  <2> DEFINE p == MaxAttempts * req[r].candidate
  <2>1. Typed /\ Spends(r) /\ pc[r] \in Places
    BY DEF OrchestratorInv, RequestInv, Typed
  <2>2. /\ req[r].candidate \in Nat /\ req[r].attempts \in 0..MaxAttempts
        /\ req[r].calls \in Nat /\ MaxAttempts \in Nat
    BY <2>1, LocalFields, OrchestratorAssumption
  <2>3. p \in Nat
    BY <2>2
  <2>4. \/ Spent(r) <= Allowed(r)
        \/ Spent(r) <= Allowed(r) + 1 /\ req[r].attempts < MaxAttempts
    BY <2>1 DEF Spends, Before
  <2>5. Spent(r) = req[r].calls + MaxAttempts /\ Allowed(r) = p + req[r].attempts
    BY DEF Spent, Allowed
  <2> HIDE DEF p
  <2>6. req[r].calls <= p
    BY <2>2, <2>3, <2>4, <2>5
  <2> QED
    BY <2>6 DEF p
<1> QED
  BY <1>1, OrchestratorInvariance, PTL

\* Clients that go away, budgets that end, a full queue and keys that cool down
\* never count against a provider that did not fail by its own fault.
THEOREM HealthyProviderServes == Spec => []HealthyStaysClosed
BY OrchestratorInvariance, PTL DEF OrchestratorInv

-----------------------------------------------------------------------------
(* What the steps show of the breaker and the keys.                        *)

\* The time that an open breaker still waits is a natural number.
UsageInv == OrchestratorInv /\ openLeft \in Nat

\* Allow, Complete and the deferred Abandon are called in the order, with the
\* permits and with the outcomes that Breaker.tla allows.
LEMMA BreakerStep == UsageInv /\ [Next]_vars => [B!Next]_(B!breakerVars)
<1> SUFFICES ASSUME OrchestratorInv, openLeft \in Nat, [Next]_vars
             PROVE  [B!Next]_(B!breakerVars)
  BY DEF UsageInv
<1>0. UNCHANGED breakerPart => UNCHANGED B!breakerVars
  BY DEF breakerPart, B!breakerVars, B!breakerFields
<1>1. ASSUME NEW r \in Requests, Admitted(r) \/ CircuitOpen(r) PROVE B!Next
  BY <1>1 DEF Admitted, CircuitOpen, B!Next
<1>2. ASSUME NEW r \in Requests, PermitComplete(r) PROVE B!Next
  <2>1. B!Complete(r, req[r].failure) /\ pc[r] = "feedback"
    BY <1>2 DEF PermitComplete
  <2>2. req[r].failure \in Reportable
    BY <2>1, Zenon DEF OrchestratorInv, RequestInv, Votes
  <2>3. generation < MaxGeneration + 3
    BY OrchestratorAssumption DEF OrchestratorInv, Typed, GenerationBound
  <2> QED
    BY <2>1, <2>2, <2>3 DEF B!Next
<1>3. ASSUME NEW r \in Requests, Returns(r) \/ Retries(r) \/ LeavesCandidate(r)
      PROVE  B!Next \/ UNCHANGED breakerPart
  <2>1. Abandoned(r)
    BY <1>3 DEF Returns, Retries, LeavesCandidate
  <2> QED
    BY <2>1 DEF Abandoned, B!Next
<1>4. ASSUME NEW r \in Requests,
             \/ Begin(r) \/ AcquireSlot(r) \/ WaitForSlot(r) \/ QueueFull(r)
             \/ QueueGivesUp(r) \/ SelectKey(r) \/ KeysExhausted(r) \/ StreamTooLate(r)
             \/ StreamOpened(r) \/ Panics(r) \/ LeaseRelease(r) \/ WaitOver(r) \/ WaitCut(r)
      PROVE  UNCHANGED breakerPart
  BY <1>4 DEF Begin, AcquireSlot, WaitForSlot, QueueFull, QueueGivesUp, SelectKey,
              KeysExhausted, StreamTooLate, Fails, StreamOpened, Panics, LeaseRelease,
              WaitOver, WaitCut
<1>5. ASSUME NEW r \in Requests, NEW err, Answered(r, err) PROVE UNCHANGED breakerPart
  BY <1>5 DEF Answered, Fails
<1>6. ASSUME NEW r \in Requests, Finish(r) PROVE UNCHANGED breakerPart
  BY <1>6, Zenon DEF Finish, StreamEnds
<1>7. ASSUME NEW r \in Requests, NEW how, ContextEnds(r, how) PROVE UNCHANGED breakerPart
  BY <1>7 DEF ContextEnds
<1>8. CASE Tick
  <2>1. UNCHANGED <<state, generation, consecutiveFailures, halfOpenInFlight,
                    halfOpenSuccesses, permit>>
    BY <1>8 DEF Tick
  <2>2. CASE openLeft > 0
    <3>1. openLeft' = openLeft - 1
      BY <1>8, <2>2 DEF Tick, K!Passed
    <3> QED
      BY <2>1, <2>2, <3>1 DEF B!Next, B!Tick
  <2>3. CASE ~(openLeft > 0)
    <3>1. openLeft' = 0
      BY <1>8, <2>3 DEF Tick, K!Passed
    <3> QED
      BY <2>1, <2>3, <3>1, <1>0 DEF breakerPart
  <2> QED
    BY <2>2, <2>3
<1>9. CASE UNCHANGED vars
  BY <1>0, <1>9 DEF vars
<1> QED
  BY <1>0, <1>1, <1>2, <1>3, <1>4, <1>5, <1>6, <1>7, <1>8, <1>9, Zenon DEF Next, Step

\* The breaker sets the time to its duration, clears it or lets it pass.
LEMMA OpenLeftStep ==
  ASSUME openLeft \in Nat, [B!Next]_(B!breakerVars)
  PROVE  openLeft' \in Nat
<1>1. openLeft' \in {openLeft, 0, OpenDuration} \/ (openLeft > 0 /\ openLeft' = openLeft - 1)
  <2>1. ASSUME NEW c \in Requests, NEW f, B!Complete(c, f)
        PROVE  openLeft' \in {openLeft, 0, OpenDuration}
    BY <2>1 DEF B!Complete, B!complete, B!completeProbe, B!completeClosed, B!open, B!close,
                B!UncountedProbe, B!FreeSlot, B!breakerFields
  <2>2. ASSUME NEW c \in Requests, B!Allow(c) \/ B!Reject(c) \/ B!Abandon(c)
        PROVE  openLeft' = openLeft
    BY <2>2, Zenon DEF B!Allow, B!Reject, B!Abandon, B!abandon, B!advance, B!breakerFields
  <2>3. B!Snapshot \/ UNCHANGED B!breakerVars => openLeft' = openLeft
    BY DEF B!Snapshot, B!advance, B!breakerVars, B!breakerFields
  <2> QED
    BY <2>1, <2>2, <2>3 DEF B!Next, B!Tick
<1> QED
  BY <1>1, OrchestratorAssumption

\* The requests use the breaker as Breaker.tla allows (executeOnce and
\* prepareStreamOnce): what is proved of the breaker holds for them.
THEOREM BreakerUsage == Spec => UsesBreaker
<1>1. Init => B!Init
  BY DEF Init
<1>2. Init => UsageInv
  BY InitInv DEF Init, B!Init, UsageInv
<1>3. UsageInv /\ [Next]_vars => UsageInv'
  BY NextInv, BreakerStep, OpenLeftStep DEF UsageInv
<1> QED
  BY <1>1, <1>2, <1>3, BreakerStep, PTL DEF Spec, UsesBreaker, B!Spec

\* A request that goes from "choose" to "call" has selected a key.
LEMMA OnlySelectCalls ==
  ASSUME Typed, Next, NEW r \in Requests, pc[r] = "choose", pc'[r] = "call"
  PROVE  SelectKey(r)
<1>0. pc \in [Requests -> Places]
  BY DEF Typed
<1>1. \A h \in Requests : \A place : GoTo(h, place) => h = r /\ place = "call"
  BY <1>0 DEF GoTo
<1>2. UNCHANGED pc => FALSE
  OBVIOUS
<1>3. ASSUME NEW h \in Requests, Step(h) PROVE SelectKey(r)
  <2>1. ~Admitted(h) /\ ~CircuitOpen(h) /\ ~AcquireSlot(h) /\ ~WaitForSlot(h)
    BY <1>1 DEF Admitted, CircuitOpen, AcquireSlot, WaitForSlot, Ends
  <2>2. ~QueueFull(h) /\ ~QueueGivesUp(h) /\ ~KeysExhausted(h)
    <3>1. \A f : ~Ends(h, f, "feedback")
      BY <1>1 DEF Ends
    <3> QED
      BY <3>1 DEF QueueFull, QueueGivesUp, KeysExhausted
  <2>3. ~StreamTooLate(h) /\ ~StreamOpened(h) /\ ~Panics(h) /\ \A err : ~Answered(h, err)
    BY <1>1, Zenon DEF StreamTooLate, StreamOpened, Panics, Answered, Fails
  <2>4. ~PermitComplete(h) /\ ~LeaseRelease(h) /\ ~Returns(h) /\ ~Retries(h)
    BY <1>1 DEF PermitComplete, LeaseRelease, Returns, Retries, Over
  <2>5. ~LeavesCandidate(h) /\ ~WaitOver(h) /\ ~WaitCut(h)
    BY <1>1 DEF LeavesCandidate, FallbackOrOver, WaitOver, WaitCut, Over
  <2>6. SelectKey(h)
    BY <1>3, <2>1, <2>2, <2>3, <2>4, <2>5, Zenon DEF Step
  <2>7. h = r
    BY <1>1, <2>6 DEF SelectKey
  <2> QED
    BY <2>6, <2>7
<1>4. ASSUME NEW h \in Requests PROVE ~Begin(h) /\ ~Finish(h) /\ \A how : ~ContextEnds(h, how)
  BY <1>1, <1>2, Zenon DEF Begin, Finish, StreamEnds, ContextEnds
<1>5. ~Tick
  BY <1>2 DEF Tick
<1> QED
  BY <1>3, <1>4, <1>5 DEF Next

\* While Execute works on one candidate, no key is asked again that answered 401
\* or 403 to it, however many retries and waits come between.
THEOREM RefusedKeysAvoided == Spec => RefusedKeyAvoided
<1>1. OrchestratorInv /\ [Next]_vars =>
        [\A r \in Requests : pc[r] = "choose" /\ pc'[r] = "call"
           => selection'[r].key \notin req[r].refused]_vars
  <2> SUFFICES ASSUME OrchestratorInv, Next, NEW r \in Requests,
                      pc[r] = "choose", pc'[r] = "call"
               PROVE  selection'[r].key \notin req[r].refused
    OBVIOUS
  <2>1. Typed /\ RequestInv(r)
    BY DEF OrchestratorInv
  <2>2. K!selectKey(r, req[r].preferred, req[r].excluded)
    BY <2>1, OnlySelectCalls, Zenon DEF SelectKey
  <2>3. selection'[r].key \in K!Keys \ req[r].excluded
    BY <2>1, <2>2, SelectFacts
  <2>4. req[r].refused \subseteq req[r].excluded
    BY <2>1, FinalFailures, Zenon DEF RequestInv, Spends, Before, Avoids, NextExcluded, Quiet
  <2> QED
    BY <2>3, <2>4
<1> QED
  BY <1>1, OrchestratorInvariance, PTL DEF Spec, RefusedKeyAvoided
-----------------------------------------------------------------------------
(* What is proved of the breaker holds where the requests use it.          *)

BP == INSTANCE BreakerProofs WITH
  Calls <- Requests, Outcomes <- Reportable,
  MaxGeneration <- MaxGeneration + 3

\* The limits and outcomes of the requests are as the breaker assumes them.
LEMMA BreakerAssumed == BP!BreakerAssumption
<1>1. FailureRecord = BP!FailureRecord
  BY DEF FailureRecord, BP!FailureRecord, Categories, BP!Categories, TimeoutScopes,
         BP!TimeoutScopes
<1>2. BP!IsFiniteSet(Requests)
  BY OrchestratorAssumption DEF IsFiniteSet, BP!IsFiniteSet
<1>3. MaxGeneration + 3 \in Nat
  BY OrchestratorAssumption
<1> QED
  BY <1>1, <1>2, <1>3, OrchestratorAssumption, ReportableAssumption DEF BP!BreakerAssumption

\* The two instances of the breaker are the same specification.
LEMMA SameBreaker == B!Spec => BP!Spec
<1>1. B!Init => BP!Init
  BY DEF B!Init, BP!Init, B!StateClosed, BP!StateClosed, B!NoPermit, BP!NoPermit
<1>2. [B!Next]_(B!breakerVars) => [BP!Next]_(BP!breakerVars)
  BY DEF B!Next, BP!Next, B!breakerVars, BP!breakerVars, B!breakerFields, BP!breakerFields,
         B!Allow, BP!Allow, B!Reject, BP!Reject, B!Abandon, BP!Abandon, B!abandon, BP!abandon,
         B!Complete, BP!Complete, B!complete, BP!complete, B!completeProbe, BP!completeProbe,
         B!completeClosed, BP!completeClosed, B!Ignored, BP!Ignored, B!Pending, BP!Pending,
         B!Snapshot, BP!Snapshot, B!Tick, BP!Tick, B!advance, BP!advance, B!open, BP!open,
         B!close, BP!close, B!Due, BP!Due, B!AdvancedState, BP!AdvancedState,
         B!AdvancedGeneration, BP!AdvancedGeneration, B!AdvancedInFlight, BP!AdvancedInFlight,
         B!AdvancedSuccesses, BP!AdvancedSuccesses, B!Admit, BP!Admit,
         B!ProbeSlotFree, BP!ProbeSlotFree, B!Decremented, BP!Decremented,
         B!FreeSlot, BP!FreeSlot, B!UncountedProbe, BP!UncountedProbe,
         B!ThresholdReached, BP!ThresholdReached, B!NoPermit, BP!NoPermit,
         B!SignalsFor, BP!SignalsFor, B!TransientFault, BP!TransientFault,
         B!breakerHTTPStatus, BP!breakerHTTPStatus, B!IsFailure, BP!IsFailure,
         B!StateClosed, BP!StateClosed, B!StateOpen, BP!StateOpen,
         B!StateHalfOpen, BP!StateHalfOpen
<1> QED
  BY <1>1, <1>2, PTL DEF B!Spec, BP!Spec

\* Under any interleaving of retries, panics, ended contexts and streams, the
\* half-open slots of the breaker are exactly the probes that are out.
THEOREM ProbesAccounted == Spec => []BP!InFlightIsPendingProbes
BY BreakerUsage, SameBreaker, BreakerAssumed, BP!ProbeAccounting, PTL DEF UsesBreaker

\* Requests that run through executeOnce and prepareStreamOnce see a breaker that
\* keeps to BreakerPolicy.
THEOREM BreakerPolicyKept == Spec => BP!ImplementsPolicy
BY BreakerUsage, SameBreaker, BreakerAssumed, BP!Refinement, PTL DEF UsesBreaker
====
