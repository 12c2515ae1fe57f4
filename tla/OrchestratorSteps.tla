------------------------- MODULE OrchestratorSteps -------------------------
(***************************************************************************)
(* Proofs about the way of a request through breaker, queue and key        *)
(* selector, for any number of requests, candidates, attempts, slots and   *)
(* keys and any errors of the provider.  The inductive invariant says, for *)
(* every place of the attempt, what the request holds there, what it may   *)
(* still spend and what its failure may still do to the breaker.  Here:    *)
(* the invariant, and the steps up to the answer of the upstream; the rest *)
(* and the theorems are in OrchestratorProofs.                             *)
(***************************************************************************)
EXTENDS Orchestrator, TLAPS

\* The signals of a failure that is final: no retry, no other key, no vote.
Quiet(f) ==
  /\ ~SignalsFor(f).CountBreaker
  /\ ~SignalsFor(f).Retry
  /\ ~SignalsFor(f).SwitchKey
  /\ ~KeyRefused(f)

OverBudget == [Failed("timeout") EXCEPT !.timeout = "request_budget"]

\* The locals of a request (Execute, prepareStream, executeOnce).
Known == Reportable \cup {NoFailure, Failed("breaker")}
Locals ==
  [candidate : 1..Candidates, attempts : 0..MaxAttempts, excluded : SUBSET K!Keys,
   preferred : K!Keys \cup {K!NoKey}, key : K!Keys \cup {K!NoKey},
   failure : Known, committed : BOOLEAN, calls : Nat, refused : SUBSET K!Keys]

Typed ==
  /\ state \in {B!StateClosed, B!StateOpen, B!StateHalfOpen}
  /\ generation \in Nat
  /\ permit \in [Requests -> B!Permits]
  /\ stateVersion \in [K!Keys -> Nat]
  /\ selection \in [Requests -> K!Selections]
  /\ holders \subseteq Requests
  /\ pc \in [Requests -> Places]
  /\ ctx \in [Requests -> {"live", "canceled", "deadline"}]
  /\ req \in [Requests -> Locals]
  /\ faulted \in BOOLEAN

\* Before the upstream is called; while a permit is pending; after a slot was
\* taken; while a key is out.
Before == {"idle", "admit", "enqueue", "waiting", "choose", "call", "backoff"}
Pends == {"enqueue", "waiting", "choose", "call", "relay", "feedback"}
MayHoldSlot == {"choose", "call", "relay", "feedback", "release"}
Asks == {"call", "relay"}

\* What a request holds at each place.
Holds(r) ==
  /\ pc[r] \in {"idle", "admit", "backoff"} => ~permit[r].held
  /\ pc[r] \in Pends => B!Pending(r)
  /\ r \in holders => pc[r] \in MayHoldSlot
  /\ K!Outstanding(r) <=> pc[r] \in Asks
  /\ pc[r] \in Asks => req[r].key = selection[r].key

\* What it has spent: a call that was not counted as an attempt is the last one.
Spent(r) == req[r].calls + MaxAttempts
Allowed(r) == MaxAttempts * req[r].candidate + req[r].attempts
Spends(r) ==
  /\ pc[r] \in Before =>
       req[r].failure = NoFailure /\ req[r].attempts < MaxAttempts
  /\ pc[r] = "call" => Spent(r) <= Allowed(r) + 1
  /\ pc[r] \in {"feedback", "release", "return"} =>
       \/ Spent(r) <= Allowed(r)
       \/ /\ Spent(r) <= Allowed(r) + 1
          /\ req[r].attempts < MaxAttempts
          /\ Quiet(req[r].failure)
  /\ pc[r] \notin {"call", "feedback", "release", "return"} => Spent(r) <= Allowed(r)

\* The keys that refused the candidate are the ones excluded from its next attempt.
Avoids(r) == req[r].refused \subseteq NextExcluded(r)

\* A failure that counts is the provider's own, of a call that was admitted below
\* the bound on generations.
Votes(r) ==
  /\ permit[r].held => permit[r].generation <= generation
  /\ pc[r] = "relay" => req[r].failure = NoFailure /\ NilError \in Errors
  /\ pc[r] = "feedback" =>
       /\ req[r].failure \in Reportable
       /\ SignalsFor(req[r].failure).CountBreaker =>
            faulted /\ permit[r].generation < MaxGeneration

RequestInv(r) == Holds(r) /\ Spends(r) /\ Avoids(r) /\ Votes(r)

\* After the last failure that counts the breaker opens, half-opens and closes.
GenerationBound ==
  /\ state = B!StateOpen => generation <= MaxGeneration
  /\ state = B!StateHalfOpen => generation <= MaxGeneration + 1
  /\ generation <= MaxGeneration + 2

\* The inductive invariant.
OrchestratorInv ==
  /\ Typed
  /\ \A r \in Requests : RequestInv(r)
  /\ GenerationBound
  /\ HealthyStaysClosed

-----------------------------------------------------------------------------
(* Counting.                                                               *)

\* One more attempt stays within the limit (runtime.attempts++).
LEMMA CountUp ==
  ASSUME NEW n \in Nat, NEW a \in 0..n, a < n
  PROVE  a + 1 \in 0..n
OBVIOUS

\* One more call, one more attempt and one more of both.
LEMMA OneMore ==
  ASSUME NEW c \in Nat, NEW m \in Nat
  PROVE  c + 1 + m = c + m + 1 /\ m + (c + 1) = m + c + 1 /\ (c <= m => c + 1 <= m + 1)
OBVIOUS

\* A failure below the bound on generations belongs to a permit below it.
LEMMA BelowBound ==
  ASSUME NEW a \in Nat, NEW b \in Nat, NEW c \in Nat, a <= b, b < c
  PROVE  a < c
OBVIOUS

-----------------------------------------------------------------------------
(* Failures: what FromProvider makes of an error, and the signals.         *)

\* The final failures: nothing went wrong, the client went away, the budget is
\* used up (SignalsFor).
LEMMA FinalFailures == Quiet(NoFailure) /\ Quiet(Failed("canceled")) /\ Quiet(OverBudget)
BY Zenon DEF Quiet, SignalsFor, TransientFault, KeyRefused, NoFailure, Failed, OverBudget,
       breakerHTTPStatus

\* The gateway's own refusals do not count against provider or key (SignalsFor).
LEMMA OwnRefusals ==
  ASSUME NEW f, f.category \in {"queue", "breaker", "key_exhausted"}
  PROVE  ~SignalsFor(f).CountBreaker /\ ~KeyRefused(f)
BY DEF SignalsFor, TransientFault, KeyRefused

\* Once the context has ended every error is the context's (FromProvider).
LEMMA EndedContext ==
  ASSUME NEW err, NEW c \in {"canceled", "deadline"}, err.kind # "nil"
  PROVE  FromProvider(c, err, MaximumRetryAfter, DefaultCooldown)
           \in {Failed("canceled"), OverBudget}
BY DEF FromProvider, OverBudget

\* The two failures of an ended context are among the reportable ones.
LEMMA EndsReportable == Failed("canceled") \in Reportable /\ OverBudget \in Reportable
<1>1. FromProvider("canceled", SentinelError("network"), MaximumRetryAfter, DefaultCooldown)
        = Failed("canceled")
  BY DEF FromProvider, SentinelError
<1>2. FromProvider("deadline", SentinelError("network"), MaximumRetryAfter, DefaultCooldown)
        = OverBudget
  BY DEF FromProvider, SentinelError, OverBudget
<1> QED
  BY <1>1, <1>2, Zenon DEF Reportable

\* No error, no failure (FromProvider).
LEMMA NilIsNoFailure ==
  ASSUME NEW c, NEW err, err.kind = "nil"
  PROVE  FromProvider(c, err, MaximumRetryAfter, DefaultCooldown) = NoFailure
BY DEF FromProvider

\* What a call reports: known to the breaker, and counted only if the context was
\* live and the error the provider's.
LEMMA AnswerFacts ==
  ASSUME Typed, NEW r \in Requests, NEW err \in Answers(r)
  PROVE  LET f == FromProvider(ctx[r], err, MaximumRetryAfter, DefaultCooldown) IN
         /\ f \in Reportable
         /\ SignalsFor(f).CountBreaker => Live(r) /\ SignalsFor(LiveFailure(err)).CountBreaker
         /\ ~Attempted(err) => Quiet(f)
<1> DEFINE f == FromProvider(ctx[r], err, MaximumRetryAfter, DefaultCooldown)
<1>0. ctx[r] \in {"live", "canceled", "deadline"}
  BY DEF Typed
<1>1. CASE Live(r)
  <2>1. err \in Errors /\ f = LiveFailure(err)
    BY <1>1 DEF Answers, Live, LiveFailure
  <2>2. f \in Reportable
    BY <2>1, Zenon DEF Reportable
  <2>3. ASSUME ~Attempted(err) PROVE Quiet(f)
    <3>1. err.kind \in {"invalid_request", "unsupported_capability"}
      BY <2>3 DEF Attempted
    <3>2. f = [Failed(SentinelCategory(err.kind)) EXCEPT !.tooLarge = FALSE]
      BY <1>1, <3>1, Zenon DEF FromProvider, Live
    <3>3. SentinelCategory(err.kind) \in {"local_validation", "unsupported_capability"}
      BY <3>1 DEF SentinelCategory
    <3>4. f.category \in {"local_validation", "unsupported_capability"}
      BY <3>2, <3>3 DEF Failed, NoFailure
    <3> HIDE DEF f
    <3> QED
      BY <3>4, Zenon DEF Quiet, SignalsFor, TransientFault, KeyRefused
  <2> QED
    BY <1>1, <2>1, <2>2, <2>3
<1>2. CASE ~Live(r) /\ err.kind = "nil"
  <2>1. f = NoFailure
    BY <1>2, NilIsNoFailure
  <2>2. \A kind \in {"canceled", "deadline", "network"} : SentinelError(kind).kind # "nil"
    BY DEF SentinelError
  <2>3. err \in Errors
    BY <1>2, <2>2 DEF Answers
  <2>4. f = LiveFailure(err)
    BY <1>2, <2>1, NilIsNoFailure DEF LiveFailure
  <2>5. f \in Reportable
    BY <2>3, <2>4, Zenon DEF Reportable
  <2> QED
    BY <2>1, <2>5, FinalFailures DEF Quiet
<1>3. CASE ~Live(r) /\ err.kind # "nil"
  <2>1. f \in {Failed("canceled"), OverBudget}
    BY <1>0, <1>3, EndedContext DEF Live
  <2> HIDE DEF f
  <2>2. f \in Reportable /\ Quiet(f)
    BY <2>1, EndsReportable, FinalFailures
  <2>3. ~SignalsFor(f).CountBreaker
    BY <2>2 DEF Quiet
  <2> QED
    BY <2>2, <2>3 DEF f
<1> QED
  BY <1>1, <1>2, <1>3

\* The failure of an ended context (contextFailure).
LEMMA ContextFacts ==
  ASSUME Typed, NEW r \in Requests, ~Live(r)
  PROVE  ContextFailure(r) \in Reportable /\ Quiet(ContextFailure(r))
<1>1. ctx[r] \in {"canceled", "deadline"}
  BY DEF Typed, Live
<1>2. SentinelError(ctx[r]).kind # "nil"
  BY <1>1 DEF SentinelError
<1>3. ContextFailure(r) \in {Failed("canceled"), OverBudget}
  BY <1>1, <1>2, EndedContext DEF ContextFailure
<1> QED
  BY <1>3, EndsReportable, FinalFailures

\* The failures of queue and key selector.
LEMMA RefusalFacts ==
  /\ Failed("queue") \in Reportable /\ Failed("queue").category = "queue"
  /\ \A f \in K!ExhaustedFailures : f \in Reportable /\ f.category = "key_exhausted"
BY Zenon DEF Reportable, K!ExhaustedFailures, K!ExhaustedFor, Failed, NoFailure, K!Failed, K!NoFailure

-----------------------------------------------------------------------------
(* What the steps of the breaker do to a request and to the bounds.        *)

\* A step of the breaker that keeps the bound on generations and keeps a breaker
\* without failures closed.
BreakerMoves ==
  /\ state' \in {B!StateClosed, B!StateOpen, B!StateHalfOpen}
  /\ generation' \in Nat
  /\ generation <= generation'
  /\ GenerationBound'

StaysHealthy ==
  state = B!StateClosed /\ consecutiveFailures = 0
    => state' = B!StateClosed /\ consecutiveFailures' = 0

\* advance moves an open breaker whose time is up to half-open, and no other.
LEMMA AdvanceFacts ==
  ASSUME Typed, GenerationBound, B!advance
  PROVE  BreakerMoves /\ StaysHealthy /\ generation' = B!AdvancedGeneration
BY OrchestratorAssumption
   DEF B!advance, B!AdvancedState, B!AdvancedGeneration, B!AdvancedSuccesses, B!Due, Typed,
       BreakerMoves, StaysHealthy, GenerationBound,
       B!StateClosed, B!StateOpen, B!StateHalfOpen

\* Allow hands out a pending permit of the present generation.
LEMMA AllowFacts ==
  ASSUME Typed, GenerationBound, NEW r \in Requests, B!Allow(r)
  PROVE  /\ BreakerMoves /\ StaysHealthy
         /\ permit' \in [Requests -> B!Permits]
         /\ \A h \in Requests \ {r} : permit'[h] = permit[h]
         /\ B!Pending(r)' /\ permit'[r].generation = generation'
<1>1. B!advance
  BY DEF B!Allow
<1>2. BreakerMoves /\ StaysHealthy /\ generation' = B!AdvancedGeneration /\ generation' \in Nat
  BY <1>1, AdvanceFacts DEF BreakerMoves
<1>3. PICK isProbe \in BOOLEAN : B!Admit(r, isProbe)
  BY Zenon DEF B!Allow
<1>4. permit' = [permit EXCEPT ![r] = [held |-> TRUE, generation |-> generation',
                                       probe |-> isProbe, completed |-> FALSE]]
  BY <1>2, <1>3 DEF B!Admit
<1>5. permit \in [Requests -> B!Permits]
  BY DEF Typed
<1> QED
  BY <1>2, <1>4, <1>5 DEF B!Permits, B!Pending

\* Reject hands out nothing.
LEMMA RejectFacts ==
  ASSUME Typed, GenerationBound, NEW r \in Requests, B!Reject(r)
  PROVE  BreakerMoves /\ StaysHealthy /\ permit' = permit /\ ~permit[r].held
<1>1. B!advance
  BY DEF B!Reject
<1> QED
  BY <1>1, AdvanceFacts DEF B!Reject

\* Complete changes state by an open or a close, an open only for a failure that
\* counts, reported with a permit of the present generation.
LEMMA CompleteFacts ==
  ASSUME Typed, GenerationBound, NEW r \in Requests, NEW f, B!Complete(r, f),
         SignalsFor(f).CountBreaker => permit[r].generation < MaxGeneration
  PROVE  /\ BreakerMoves
         /\ ~SignalsFor(f).CountBreaker => StaysHealthy
         /\ permit' \in [Requests -> B!Permits]
         /\ \A h \in Requests \ {r} : permit'[h] = permit[h]
         /\ permit'[r].generation = permit[r].generation
<1>0. /\ permit \in [Requests -> B!Permits]
      /\ permit' = [permit EXCEPT ![r].completed = TRUE]
  BY DEF Typed, B!Complete
<1>1. /\ permit' \in [Requests -> B!Permits]
      /\ \A h \in Requests \ {r} : permit'[h] = permit[h]
      /\ permit'[r].generation = permit[r].generation
  BY <1>0, Zenon DEF B!Permits
<1>a. B!SignalsFor(f) = SignalsFor(f)
  BY DEF SignalsFor, B!SignalsFor, TransientFault, B!TransientFault, breakerHTTPStatus,
         B!breakerHTTPStatus
<1>2. CASE UNCHANGED <<state, generation, consecutiveFailures>>
  BY <1>1, <1>2 DEF BreakerMoves, StaysHealthy, Typed, GenerationBound
<1>3. CASE state = B!StateHalfOpen /\ B!close
  BY <1>1, <1>3, OrchestratorAssumption
     DEF B!close, BreakerMoves, StaysHealthy, Typed, GenerationBound,
         B!StateClosed, B!StateOpen, B!StateHalfOpen
<1>4. CASE SignalsFor(f).CountBreaker /\ permit[r].generation = generation /\ B!open
  BY <1>1, <1>4, OrchestratorAssumption
     DEF B!open, BreakerMoves, Typed, GenerationBound,
         B!StateClosed, B!StateOpen, B!StateHalfOpen
<1>5. CASE UNCHANGED <<state, generation>> /\ consecutiveFailures' = 0
  BY <1>1, <1>5 DEF BreakerMoves, StaysHealthy, Typed, GenerationBound
<1>6. CASE UNCHANGED <<state, generation>> /\ SignalsFor(f).CountBreaker
  BY <1>1, <1>6 DEF BreakerMoves, Typed, GenerationBound
<1>7. B!complete(r, f)
  BY DEF B!Complete
<1>8. CASE B!Ignored(r) /\ UNCHANGED B!breakerFields
  BY <1>2, <1>8 DEF B!breakerFields
<1>9. CASE ~B!Ignored(r) /\ permit[r].probe /\ B!completeProbe(f)
  <2>1. permit[r].generation = generation /\ state = B!StateHalfOpen
    BY <1>9 DEF B!Ignored
  <2> QED
    BY <1>2, <1>3, <1>4, <1>9, <1>a, <2>1 DEF B!completeProbe, B!FreeSlot, B!UncountedProbe
<1>10. CASE ~B!Ignored(r) /\ ~permit[r].probe /\ B!completeClosed(f)
  <2>1. permit[r].generation = generation /\ state = B!StateClosed
    BY <1>10 DEF B!Ignored
  <2> QED
    BY <1>2, <1>4, <1>5, <1>6, <1>10, <1>a, <2>1 DEF B!completeClosed, B!breakerFields
<1> QED
  BY <1>7, <1>8, <1>9, <1>10 DEF B!complete

\* The deferred Abandon leaves no permit behind and changes no state.
LEMMA AbandonedFacts ==
  ASSUME Typed, GenerationBound, NEW r \in Requests, Abandoned(r)
  PROVE  /\ BreakerMoves /\ StaysHealthy
         /\ permit' \in [Requests -> B!Permits]
         /\ \A h \in Requests \ {r} : permit'[h] = permit[h]
         /\ ~permit'[r].held
<1>0. permit \in [Requests -> B!Permits]
  BY DEF Typed
<1>1. CASE ~permit[r].held
  <2>1. UNCHANGED <<state, generation, consecutiveFailures, permit>>
    BY <1>1 DEF Abandoned, breakerPart
  <2> QED
    BY <1>0, <1>1, <2>1 DEF BreakerMoves, StaysHealthy, Typed, GenerationBound
<1>2. CASE permit[r].held
  <2>1. /\ UNCHANGED <<state, generation, consecutiveFailures>>
        /\ permit' = [permit EXCEPT ![r] = B!NoPermit]
    BY <1>2 DEF Abandoned, B!Abandon, B!abandon, B!breakerFields
  <2>2. B!NoPermit \in B!Permits /\ ~B!NoPermit.held
    BY DEF B!NoPermit, B!Permits
  <2> QED
    BY <1>0, <2>1, <2>2 DEF BreakerMoves, StaysHealthy, Typed, GenerationBound
<1> QED
  BY <1>1, <1>2

\* What no step of the breaker touches stays.
LEMMA BreakerIdle ==
  ASSUME Typed, GenerationBound, UNCHANGED breakerPart
  PROVE  BreakerMoves /\ StaysHealthy /\ permit' = permit /\ generation' = generation
BY DEF breakerPart, BreakerMoves, StaysHealthy, Typed, GenerationBound

-----------------------------------------------------------------------------
(* The frame of a step of one request.                                     *)

Frame(r) ==
  \A h \in Requests \ {r} :
    /\ pc'[h] = pc[h] /\ permit'[h] = permit[h] /\ (h \in holders' <=> h \in holders)
    /\ selection'[h] = selection[h] /\ req'[h] = req[h]

\* A step of r leaves what the invariant says of the others alone.
LEMMA FrameInv ==
  ASSUME OrchestratorInv, Typed', NEW r, Frame(r),
         generation <= generation', faulted => faulted',
         NEW h \in Requests, h # r
  PROVE  RequestInv(h)'
<1>1. /\ pc'[h] = pc[h] /\ permit'[h] = permit[h] /\ (h \in holders' <=> h \in holders)
      /\ selection'[h] = selection[h] /\ req'[h] = req[h]
  BY DEF Frame
<1>2. RequestInv(h)
  BY DEF OrchestratorInv
<1>3. Holds(h)'
  BY <1>1, <1>2 DEF RequestInv, Holds, B!Pending, K!Outstanding
<1>4. Spends(h)'
  BY <1>1, <1>2 DEF RequestInv, Spends, Spent, Allowed
<1>5. Avoids(h)'
  BY <1>1, <1>2 DEF RequestInv, Avoids, NextExcluded
<1>6. Votes(h)'
  <2>1. permit[h].generation \in Nat /\ generation \in Nat /\ generation' \in Nat
    BY DEF OrchestratorInv, Typed, B!Permits
  <2> QED
    BY <1>1, <1>2, <2>1 DEF RequestInv, Votes
<1> QED
  BY <1>3, <1>4, <1>5, <1>6 DEF RequestInv

\* The parts of the invariant make the invariant.
LEMMA StepInv ==
  ASSUME OrchestratorInv, Typed', NEW r \in Requests, Frame(r), BreakerMoves,
         faulted => faulted', ~faulted' => StaysHealthy, RequestInv(r)'
  PROVE  OrchestratorInv'
<1>1. \A h \in Requests : RequestInv(h)'
  BY FrameInv DEF BreakerMoves
<1>2. HealthyStaysClosed'
  BY DEF OrchestratorInv, HealthyStaysClosed, StaysHealthy
<1> QED
  BY <1>1, <1>2 DEF OrchestratorInv, BreakerMoves

-----------------------------------------------------------------------------
(* The steps up to the upstream call.                                      *)

\* The locals of a request and their fields.
LEMMA LocalFields ==
  ASSUME Typed, NEW r \in Requests
  PROVE  /\ req[r] \in Locals
         /\ req[r].candidate \in 1..Candidates /\ req[r].attempts \in 0..MaxAttempts
         /\ req[r].excluded \subseteq K!Keys /\ req[r].refused \subseteq K!Keys
         /\ req[r].preferred \in K!Keys \cup {K!NoKey} /\ req[r].key \in K!Keys \cup {K!NoKey}
         /\ req[r].failure \in Known /\ req[r].committed \in BOOLEAN /\ req[r].calls \in Nat
         /\ MaxAttempts * req[r].candidate \in Nat /\ req[r].attempts \in Nat
         /\ Spent(r) \in Nat /\ Allowed(r) \in Nat
<1>1. /\ req[r] \in Locals
      /\ req[r].candidate \in 1..Candidates /\ req[r].attempts \in 0..MaxAttempts
      /\ req[r].excluded \subseteq K!Keys /\ req[r].refused \subseteq K!Keys
      /\ req[r].preferred \in K!Keys \cup {K!NoKey} /\ req[r].key \in K!Keys \cup {K!NoKey}
      /\ req[r].failure \in Known /\ req[r].committed \in BOOLEAN /\ req[r].calls \in Nat
  BY DEF Typed, Locals
<1>2. Spent(r) \in Nat
  BY <1>1, OrchestratorAssumption DEF Spent
<1>3. MaxAttempts * req[r].candidate \in Nat /\ req[r].attempts \in Nat
  BY <1>1, OrchestratorAssumption
<1>4. Allowed(r) \in Nat
  BY <1>3 DEF Allowed
<1> QED
  BY <1>1, <1>2, <1>3, <1>4

\* A step of a request that leaves breaker and context alone: what it does to the
\* request is all that there is to show.
LEMMA QuietStep ==
  ASSUME OrchestratorInv, NEW r \in Requests, NEW p \in Places, NEW l \in Locals,
         pc' = [pc EXCEPT ![r] = p], req' = [req EXCEPT ![r] = l],
         UNCHANGED <<breakerPart, ctx>>,
         holders' \subseteq Requests,
         \A h \in Requests \ {r} : h \in holders' <=> h \in holders,
         selection' \in [Requests -> K!Selections],
         \A h \in Requests \ {r} : selection'[h] = selection[h],
         stateVersion' \in [K!Keys -> Nat], faulted' \in BOOLEAN, faulted => faulted'
  PROVE  /\ pc'[r] = p /\ req'[r] = l /\ permit' = permit /\ generation' = generation
         /\ RequestInv(r)' => OrchestratorInv'
<1>1. Typed /\ GenerationBound
  BY DEF OrchestratorInv
<1>2. BreakerMoves /\ StaysHealthy /\ permit' = permit /\ generation' = generation
  BY <1>1, BreakerIdle
<1>3. pc'[r] = p /\ req'[r] = l
  BY <1>1 DEF Typed
<1>4. Typed'
  BY <1>1, <1>2 DEF Typed, BreakerMoves
<1>5. Frame(r)
  BY <1>1, <1>2 DEF Frame, Typed
<1> QED
  BY <1>2, <1>3, <1>4, <1>5, StepInv

\* A step that only moves a request on, or ends its context.
LEMMA MoveInv ==
  ASSUME OrchestratorInv, NEW r \in Requests, NEW place \in Places,
         pc' = [pc EXCEPT ![r] = place],
         ctx' \in [Requests -> {"live", "canceled", "deadline"}],
         UNCHANGED <<breakerPart, keyPart, holders, req, faulted>>,
         <<pc[r], place>> \in {<<"idle", "admit">>, <<"enqueue", "waiting">>,
                               <<"backoff", "admit">>}
           \/ place = pc[r]
  PROVE  OrchestratorInv'
<1>0. /\ Typed /\ RequestInv(r) /\ GenerationBound
      /\ UNCHANGED <<breakerPart, state, generation, permit, stateVersion, selection,
                     holders, req, faulted>>
  BY DEF OrchestratorInv, breakerPart, keyPart
<1>1. pc'[r] = place /\ pc' \in [Requests -> Places]
  BY <1>0 DEF Typed
<1>2. Typed'
  BY <1>0, <1>1 DEF Typed
<1>3. Frame(r)
  BY <1>0 DEF Frame, Typed
<1>4. RequestInv(r)'
  <2>1. Holds(r)'
    BY <1>0, <1>1 DEF RequestInv, Holds, Pends, MayHoldSlot, Asks, B!Pending, K!Outstanding
  <2>2. Spends(r)'
    BY <1>0, <1>1 DEF RequestInv, Spends, Before, Spent, Allowed
  <2>3. Avoids(r)' /\ Votes(r)'
    BY <1>0, <1>1 DEF RequestInv, Avoids, NextExcluded, Votes
  <2> QED
    BY <2>1, <2>2, <2>3 DEF RequestInv
<1>5. BreakerMoves /\ StaysHealthy
  BY <1>0, BreakerIdle
<1> QED
  BY <1>0, <1>2, <1>3, <1>4, <1>5, StepInv

\* Begin, WaitForSlot, WaitOver and ContextEnds move on or end the context only.
LEMMA MovesInv ==
  ASSUME OrchestratorInv, NEW r \in Requests,
         \/ Begin(r) \/ WaitForSlot(r) \/ WaitOver(r)
         \/ \E how \in Endings : ContextEnds(r, how)
  PROVE  OrchestratorInv'
<1>0. Typed
  BY DEF OrchestratorInv
<1>1. CASE Begin(r)
  <2>1. /\ pc' = [pc EXCEPT ![r] = "admit"] /\ pc[r] = "idle"
        /\ ctx' \in [Requests -> {"live", "canceled", "deadline"}]
        /\ UNCHANGED <<breakerPart, keyPart, holders, req, faulted>>
    BY <1>0, <1>1 DEF Begin, GoTo, Typed
  <2> QED
    BY <2>1, MoveInv, Zenon DEF Places
<1>2. CASE WaitForSlot(r)
  <2>1. /\ pc' = [pc EXCEPT ![r] = "waiting"] /\ pc[r] = "enqueue"
        /\ ctx' \in [Requests -> {"live", "canceled", "deadline"}]
        /\ UNCHANGED <<breakerPart, keyPart, holders, req, faulted>>
    BY <1>0, <1>2 DEF WaitForSlot, GoTo, Typed
  <2> QED
    BY <2>1, MoveInv, Zenon DEF Places
<1>3. CASE WaitOver(r)
  <2>1. /\ pc' = [pc EXCEPT ![r] = "admit"] /\ pc[r] = "backoff"
        /\ ctx' \in [Requests -> {"live", "canceled", "deadline"}]
        /\ UNCHANGED <<breakerPart, keyPart, holders, req, faulted>>
    BY <1>0, <1>3 DEF WaitOver, GoTo, Typed
  <2> QED
    BY <2>1, MoveInv, Zenon DEF Places
<1>4. ASSUME NEW how \in Endings, ContextEnds(r, how) PROVE OrchestratorInv'
  <2>1. /\ pc' = [pc EXCEPT ![r] = pc[r]] /\ pc[r] \in Places
        /\ ctx' \in [Requests -> {"live", "canceled", "deadline"}]
        /\ UNCHANGED <<breakerPart, keyPart, holders, req, faulted>>
    BY <1>0, <1>4, OrchestratorAssumption DEF ContextEnds, Typed
  <2> QED
    BY <2>1, MoveInv, Zenon
<1> QED
  BY <1>1, <1>2, <1>3, <1>4

\* An attempt that ends with a failure of its own and without a key.
LEMMA EndsFacts ==
  ASSUME OrchestratorInv, NEW r \in Requests, NEW f \in Known, NEW place \in Places,
         Ends(r, f, place)
  PROVE  /\ pc' \in [Requests -> Places] /\ req' \in [Requests -> Locals]
         /\ ctx' \in [Requests -> {"live", "canceled", "deadline"}]
         /\ faulted' = faulted
         /\ \A h \in Requests \ {r} : pc'[h] = pc[h] /\ req'[h] = req[h]
         /\ pc'[r] = place /\ req'[r].failure = f /\ req'[r].key = K!NoKey
         /\ Spent(r)' = Spent(r) /\ Allowed(r)' = Allowed(r)
         /\ req'[r].attempts = req[r].attempts
         /\ req'[r].excluded = req[r].excluded /\ req'[r].refused = req[r].refused
<1>1. Typed
  BY DEF OrchestratorInv
<1> DEFINE l == [req[r] EXCEPT !.failure = f, !.key = K!NoKey]
<1>2. /\ l \in Locals /\ l.failure = f /\ l.key = K!NoKey
      /\ l.candidate = req[r].candidate /\ l.attempts = req[r].attempts
      /\ l.calls = req[r].calls /\ l.excluded = req[r].excluded /\ l.refused = req[r].refused
  BY <1>1, LocalFields, Zenon DEF Locals
<1>3. req' = [req EXCEPT ![r] = l] /\ pc' = [pc EXCEPT ![r] = place] /\ ctx' = ctx
  BY DEF Ends, SetLocals, GoTo
<1> HIDE DEF l
<1>4. req'[r] = l
  BY <1>1, <1>3 DEF Typed
<1>5. Spent(r)' = Spent(r) /\ Allowed(r)' = Allowed(r)
  BY <1>2, <1>4 DEF Spent, Allowed
<1> QED
  BY <1>1, <1>2, <1>3, <1>4, <1>5 DEF Ends, Typed

\* Allow.
LEMMA AdmittedInv ==
  ASSUME OrchestratorInv, NEW r \in Requests, Admitted(r)
  PROVE  OrchestratorInv'
<1>0. /\ Typed /\ RequestInv(r) /\ GenerationBound /\ B!Allow(r) /\ pc[r] = "admit"
      /\ UNCHANGED <<stateVersion, selection, holders, ctx, req, faulted>>
  BY DEF OrchestratorInv, Admitted, keyPart
<1>1. /\ pc'[r] = "enqueue" /\ pc' \in [Requests -> Places]
      /\ \A h \in Requests \ {r} : pc'[h] = pc[h]
  BY <1>0 DEF Typed, Admitted, GoTo, Places
<1>2. /\ BreakerMoves /\ StaysHealthy
      /\ permit' \in [Requests -> B!Permits]
      /\ \A h \in Requests \ {r} : permit'[h] = permit[h]
      /\ B!Pending(r)' /\ permit'[r].generation = generation'
  BY <1>0, AllowFacts
<1>3. Typed'
  BY <1>0, <1>1, <1>2 DEF Typed, BreakerMoves
<1>4. Frame(r)
  BY <1>0, <1>1, <1>2 DEF Frame
<1>5. RequestInv(r)'
  <2>1. Holds(r)'
    BY <1>0, <1>1, <1>2 DEF RequestInv, Holds, Pends, MayHoldSlot, Asks, K!Outstanding
  <2>2. Spends(r)'
    BY <1>0, <1>1 DEF RequestInv, Spends, Before, Spent, Allowed
  <2>3. Avoids(r)'
    BY <1>0 DEF RequestInv, Avoids, NextExcluded
  <2>4. generation' \in Nat
    BY <1>2 DEF BreakerMoves
  <2>5. Votes(r)'
    BY <1>1, <1>2, <2>4 DEF Votes
  <2> QED
    BY <2>1, <2>2, <2>3, <2>5 DEF RequestInv
<1> QED
  BY <1>0, <1>2, <1>3, <1>4, <1>5, StepInv

\* Allow refuses: the attempt is over before it holds anything.
LEMMA CircuitOpenInv ==
  ASSUME OrchestratorInv, NEW r \in Requests, CircuitOpen(r)
  PROVE  OrchestratorInv'
<1>0. /\ Typed /\ RequestInv(r) /\ GenerationBound /\ B!Reject(r) /\ pc[r] = "admit"
      /\ UNCHANGED <<stateVersion, selection, holders>>
      /\ Ends(r, Failed("breaker"), "return")
  BY DEF OrchestratorInv, CircuitOpen, keyPart
<1>1. Failed("breaker") \in Known /\ Failed("breaker").category = "breaker" /\ "return" \in Places
  BY DEF Known, Failed, NoFailure, Places
<1>2. /\ pc' \in [Requests -> Places] /\ req' \in [Requests -> Locals]
      /\ ctx' \in [Requests -> {"live", "canceled", "deadline"}]
      /\ faulted' = faulted
      /\ \A h \in Requests \ {r} : pc'[h] = pc[h] /\ req'[h] = req[h]
      /\ pc'[r] = "return" /\ req'[r].failure = Failed("breaker")
      /\ Spent(r)' = Spent(r) /\ Allowed(r)' = Allowed(r)
      /\ req'[r].excluded = req[r].excluded /\ req'[r].refused = req[r].refused
  BY <1>0, <1>1, EndsFacts
<1>3. BreakerMoves /\ StaysHealthy /\ permit' = permit /\ ~permit[r].held
  BY <1>0, RejectFacts
<1>4. Typed'
  BY <1>0, <1>2, <1>3 DEF Typed, BreakerMoves
<1>5. Frame(r)
  BY <1>0, <1>2, <1>3 DEF Frame
<1>6. RequestInv(r)'
  <2>1. Holds(r)'
    BY <1>0, <1>2, <1>3, ZenonT(30) DEF RequestInv, Holds, Pends, MayHoldSlot, Asks, K!Outstanding
  <2>2. Spends(r)'
    BY <1>0, <1>2, ZenonT(30) DEF RequestInv, Spends, Before
  <2>3. req[r].refused \subseteq req[r].excluded
    BY <1>0, FinalFailures, ZenonT(30) DEF RequestInv, Avoids, NextExcluded, Spends, Before, Quiet
  <2>4. Avoids(r)'
    BY <1>2, <2>3 DEF Avoids, NextExcluded
  <2>5. Votes(r)'
    BY <1>2, <1>3 DEF Votes
  <2> QED
    BY <2>1, <2>2, <2>4, <2>5 DEF RequestInv
<1> QED
  BY <1>0, <1>2, <1>3, <1>4, <1>5, <1>6, StepInv

\* Acquire.
LEMMA AcquireSlotInv ==
  ASSUME OrchestratorInv, NEW r \in Requests, AcquireSlot(r)
  PROVE  OrchestratorInv'
<1>0. /\ Typed /\ RequestInv(r) /\ GenerationBound /\ pc[r] \in {"enqueue", "waiting"}
      /\ UNCHANGED <<breakerPart, stateVersion, selection, ctx, req, faulted>>
      /\ holders' = holders \cup {r}
  BY DEF OrchestratorInv, AcquireSlot, keyPart, S!Take
<1>1. /\ pc' = [pc EXCEPT ![r] = "choose"] /\ req' = [req EXCEPT ![r] = req[r]]
      /\ "choose" \in Places /\ req[r] \in Locals
  BY <1>0 DEF Typed, AcquireSlot, GoTo, Places
<1>2. /\ pc'[r] = "choose" /\ permit' = permit /\ generation' = generation
      /\ RequestInv(r)' => OrchestratorInv'
  BY <1>0, <1>1, QuietStep, Zenon DEF Typed
<1>3. RequestInv(r)'
  <2>1. Holds(r)'
    BY <1>0, <1>2 DEF RequestInv, Holds, Pends, MayHoldSlot, Asks, B!Pending, K!Outstanding
  <2>2. Spends(r)'
    BY <1>0, <1>2, Zenon DEF RequestInv, Spends, Before, Spent, Allowed
  <2>3. Avoids(r)' /\ Votes(r)'
    BY <1>0, <1>2, Zenon DEF RequestInv, Avoids, NextExcluded, Votes
  <2> QED
    BY <2>1, <2>2, <2>3 DEF RequestInv
<1> QED
  BY <1>2, <1>3

\* The queue, or the key selector, turns the attempt away.
LEMMA TurnedAwayInv ==
  ASSUME OrchestratorInv, NEW r \in Requests, pc[r] \in {"enqueue", "waiting", "choose"},
         NEW f \in Reportable, ~SignalsFor(f).CountBreaker, ~KeyRefused(f),
         Ends(r, f, "feedback"), UNCHANGED <<breakerPart, stateVersion, selection, holders>>
  PROVE  OrchestratorInv'
<1>0. Typed /\ RequestInv(r) /\ GenerationBound
  BY DEF OrchestratorInv
<1>1. f \in Known /\ "feedback" \in Places
  BY DEF Known, Places
<1>2. /\ pc' \in [Requests -> Places] /\ req' \in [Requests -> Locals]
      /\ ctx' \in [Requests -> {"live", "canceled", "deadline"}]
      /\ faulted' = faulted
      /\ \A h \in Requests \ {r} : pc'[h] = pc[h] /\ req'[h] = req[h]
      /\ pc'[r] = "feedback" /\ req'[r].failure = f
      /\ Spent(r)' = Spent(r) /\ Allowed(r)' = Allowed(r)
      /\ req'[r].excluded = req[r].excluded /\ req'[r].refused = req[r].refused
  BY <1>1, EndsFacts, Zenon
<1>3. BreakerMoves /\ StaysHealthy /\ permit' = permit /\ generation' = generation
  BY <1>0, BreakerIdle
<1>4. Typed'
  BY <1>0, <1>2, <1>3 DEF Typed, BreakerMoves
<1>5. Frame(r)
  BY <1>2, <1>3, Zenon DEF Frame
<1>6. RequestInv(r)'
  <2>1. Holds(r)'
    BY <1>0, <1>2, <1>3, ZenonT(30) DEF RequestInv, Holds, Pends, MayHoldSlot, Asks, B!Pending, K!Outstanding
  <2>2. Spends(r)'
    BY <1>0, <1>2, ZenonT(30) DEF RequestInv, Spends, Before
  <2>3. req[r].refused \subseteq req[r].excluded
    BY <1>0, FinalFailures, ZenonT(30) DEF RequestInv, Avoids, NextExcluded, Spends, Before, Quiet
  <2>4. Avoids(r)'
    BY <1>2, <2>3, Zenon DEF Avoids, NextExcluded
  <2>5. Votes(r)'
    BY <1>0, <1>2, <1>3, Zenon DEF RequestInv, Votes
  <2> QED
    BY <2>1, <2>2, <2>4, <2>5 DEF RequestInv
<1> QED
  BY <1>0, <1>2, <1>3, <1>4, <1>5, <1>6, StepInv, Zenon

\* QueueFull, QueueGivesUp and KeysExhausted turn the attempt away.
LEMMA RefusalsInv ==
  ASSUME OrchestratorInv, NEW r \in Requests,
         QueueFull(r) \/ QueueGivesUp(r) \/ KeysExhausted(r)
  PROVE  OrchestratorInv'
<1>0. Typed
  BY DEF OrchestratorInv
<1>1. /\ Failed("queue") \in Reportable
      /\ ~SignalsFor(Failed("queue")).CountBreaker /\ ~KeyRefused(Failed("queue"))
  BY RefusalFacts, OwnRefusals
<1>2. CASE QueueFull(r)
  <2>1. /\ pc[r] \in {"enqueue", "waiting", "choose"} /\ Ends(r, Failed("queue"), "feedback")
        /\ UNCHANGED <<breakerPart, stateVersion, selection, holders>>
    BY <1>2 DEF QueueFull, keyPart
  <2> QED
    BY <1>1, <2>1, TurnedAwayInv
<1>3. CASE QueueGivesUp(r)
  <2>1. /\ pc[r] \in {"enqueue", "waiting", "choose"}
        /\ \/ Ends(r, Failed("queue"), "feedback")
           \/ ~Live(r) /\ Ends(r, ContextFailure(r), "feedback")
        /\ UNCHANGED <<breakerPart, stateVersion, selection, holders>>
    BY <1>3 DEF QueueGivesUp, keyPart
  <2>2. CASE Ends(r, Failed("queue"), "feedback")
    BY <1>1, <2>1, <2>2, TurnedAwayInv
  <2>3. CASE ~Live(r) /\ Ends(r, ContextFailure(r), "feedback")
    <3>1. /\ ContextFailure(r) \in Reportable
          /\ ~SignalsFor(ContextFailure(r)).CountBreaker /\ ~KeyRefused(ContextFailure(r))
      BY <1>0, <2>3, ContextFacts DEF Quiet
    <3> QED
      BY <2>1, <2>3, <3>1, TurnedAwayInv
  <2> QED
    BY <2>1, <2>2, <2>3
<1>4. CASE KeysExhausted(r)
  <2>1. PICK f \in K!ExhaustedFailures :
          K!selectFails(req[r].excluded, f) /\ Ends(r, f, "feedback")
    BY <1>4 DEF KeysExhausted
  <2>2. f \in Reportable /\ ~SignalsFor(f).CountBreaker /\ ~KeyRefused(f)
    BY RefusalFacts, OwnRefusals
  <2>3. /\ pc[r] \in {"enqueue", "waiting", "choose"}
        /\ UNCHANGED <<breakerPart, stateVersion, selection, holders>>
    BY <1>4, <2>1 DEF KeysExhausted, K!selectFails
  <2> QED
    BY <2>1, <2>2, <2>3, TurnedAwayInv
<1> QED
  BY <1>2, <1>3, <1>4

-----------------------------------------------------------------------------
(* The upstream call and its feedback.                                     *)

\* selectKey answers a key that is not excluded.
LEMMA SelectFacts ==
  ASSUME Typed, NEW r \in Requests, K!selectKey(r, req[r].preferred, req[r].excluded)
  PROVE  /\ \E k \in K!Keys \ req[r].excluded :
              selection' = [selection EXCEPT ![r] = [key |-> k, version |-> stateVersion[k]]]
         /\ selection'[r].key \in K!Keys \ req[r].excluded
         /\ selection' \in [Requests -> K!Selections]
         /\ \A h \in Requests \ {r} : selection'[h] = selection[h]
         /\ K!Outstanding(r)'
         /\ stateVersion' = stateVersion
<1>1. req[r].preferred \in K!Keys \cup {K!NoKey}
  BY LocalFields
<1>2. PICK k \in K!Keys \ req[r].excluded :
        selection' = [selection EXCEPT ![r] = [key |-> k, version |-> stateVersion[k]]]
  BY <1>1 DEF K!selectKey, K!PreferredUsable, K!FirstUsable, K!Usable,
              K!newProviderKeySelection
<1>3. K!NoKey \notin K!Keys
  BY OrchestratorAssumption DEF K!NoKey, K!Keys
<1>4. stateVersion[k] \in Nat /\ selection \in [Requests -> K!Selections]
  BY DEF Typed
<1>5. stateVersion' = stateVersion
  BY DEF K!selectKey
<1> QED
  BY <1>2, <1>3, <1>4, <1>5, Zenon DEF K!Selections, K!Outstanding

\* Complete of a key ends the selection; the versions stay natural numbers.
LEMMA KeyCompleteFacts ==
  ASSUME Typed, NEW r \in Requests, NEW f, K!Complete(r, f)
  PROVE  /\ selection' \in [Requests -> K!Selections]
         /\ \A h \in Requests \ {r} : selection'[h] = selection[h]
         /\ ~K!Outstanding(r)'
         /\ stateVersion' \in [K!Keys -> Nat]
<1>1. selection' = [selection EXCEPT ![r] = K!NoSelection]
  BY DEF K!Complete
<1>2. K!NoSelection \in K!Selections /\ K!NoSelection.key = K!NoKey
  BY DEF K!NoSelection, K!Selections
<1>3. selection \in [Requests -> K!Selections]
  BY DEF Typed
<1>4. \/ stateVersion' = stateVersion
      \/ \E k : stateVersion' = [stateVersion EXCEPT ![k] = @ + 1]
  BY Zenon DEF K!Complete, K!ClearOwn, K!Disable, K!CoolDown
<1>5. stateVersion' \in [K!Keys -> Nat]
  BY <1>4 DEF Typed
<1> QED
  BY <1>1, <1>2, <1>3, <1>5 DEF K!Outstanding

\* selectKey, and the call begins.
LEMMA SelectKeyInv ==
  ASSUME OrchestratorInv, NEW r \in Requests, SelectKey(r)
  PROVE  OrchestratorInv'
<1>0. /\ Typed /\ RequestInv(r) /\ GenerationBound /\ pc[r] = "choose"
      /\ UNCHANGED <<breakerPart, holders, ctx, faulted>>
      /\ K!selectKey(r, req[r].preferred, req[r].excluded)
  BY DEF OrchestratorInv, SelectKey
<1>3. /\ selection'[r].key \in K!Keys
      /\ selection' \in [Requests -> K!Selections]
      /\ \A h \in Requests \ {r} : selection'[h] = selection[h]
      /\ K!Outstanding(r)' /\ stateVersion' = stateVersion
  BY <1>0, SelectFacts
<1> DEFINE l == [req[r] EXCEPT !.key = selection'[r].key, !.calls = @ + 1]
<1>4. /\ l \in Locals /\ l.key = selection'[r].key /\ l.calls = req[r].calls + 1
      /\ l.candidate = req[r].candidate /\ l.attempts = req[r].attempts
      /\ l.failure = req[r].failure /\ l.excluded = req[r].excluded
      /\ l.refused = req[r].refused
  <2> DEFINE x == req[r]
             k == selection'[r].key
             c == req[r].calls + 1
  <2>1. x \in Locals /\ k \in K!Keys /\ c \in Nat /\ l = [x EXCEPT !.key = k, !.calls = c]
    BY <1>0, <1>3, LocalFields
  <2> HIDE DEF l, x, k, c
  <2>2. /\ l \in Locals /\ l.key = k /\ l.calls = c
        /\ l.candidate = x.candidate /\ l.attempts = x.attempts
        /\ l.failure = x.failure /\ l.excluded = x.excluded /\ l.refused = x.refused
    BY <2>1, Zenon DEF Locals
  <2> QED
    BY <2>2 DEF x, k, c
<1>5. /\ req' = [req EXCEPT ![r] = l] /\ pc' = [pc EXCEPT ![r] = "call"] /\ "call" \in Places
  BY DEF SelectKey, SetLocals, GoTo, Places
<1> HIDE DEF l
<1>6. /\ pc'[r] = "call" /\ req'[r] = l /\ permit' = permit /\ generation' = generation
      /\ RequestInv(r)' => OrchestratorInv'
  BY <1>0, <1>3, <1>4, <1>5, QuietStep, Zenon DEF Typed
<1>7. RequestInv(r)'
  <2>1. Holds(r)'
    BY <1>0, <1>3, <1>4, <1>6, ZenonT(30)
       DEF RequestInv, Holds, Pends, MayHoldSlot, Asks, B!Pending
  <2>2. req[r].failure = NoFailure /\ req[r].attempts < MaxAttempts /\ Spent(r) <= Allowed(r)
    BY <1>0, ZenonT(30) DEF RequestInv, Spends, Before
  <2>3. Allowed(r)' = Allowed(r)
    BY <1>4, <1>6, Zenon DEF Allowed
  <2>4. Spent(r)' = Spent(r) + 1
    <3>1. req[r].calls \in Nat /\ MaxAttempts \in Nat
      BY <1>0, LocalFields, OrchestratorAssumption
    <3> QED
      BY <1>4, <1>6, <3>1, OneMore, Zenon DEF Spent
  <2>5. Spends(r)'
    <3>1. Spent(r) + 1 <= Allowed(r) + 1
      BY <1>0, <2>2, LocalFields, OneMore, Zenon
    <3> QED
      BY <1>4, <1>6, <2>2, <2>3, <2>4, <3>1, Zenon DEF Spends, Before
  <2>6. Avoids(r)'
    BY <1>0, <1>4, <1>6, <2>2, FinalFailures, Zenon DEF RequestInv, Avoids, NextExcluded, Quiet
  <2>7. Votes(r)'
    BY <1>0, <1>6, Zenon DEF RequestInv, Votes
  <2> QED
    BY <2>1, <2>5, <2>6, <2>7 DEF RequestInv
<1> QED
  BY <1>6, <1>7

\* The call answers, and key.Complete follows.
LEMMA FailsInv ==
  ASSUME OrchestratorInv, NEW r \in Requests, pc[r] = "call", NEW err \in Answers(r),
         Fails(r, err, FromProvider(ctx[r], err, MaximumRetryAfter, DefaultCooldown))
  PROVE  OrchestratorInv'
<1> DEFINE f == FromProvider(ctx[r], err, MaximumRetryAfter, DefaultCooldown)
           asked == selection[r].key
           refusedBy == IF KeyRefused(f) THEN {asked} ELSE {}
           l == [req[r] EXCEPT !.failure = f,
                               !.attempts = IF Attempted(err) THEN @ + 1 ELSE @,
                               !.refused = @ \cup refusedBy]
<1>0. Typed /\ RequestInv(r) /\ GenerationBound
  BY Zenon DEF OrchestratorInv
<1>1. /\ f \in Reportable
      /\ SignalsFor(f).CountBreaker => Live(r) /\ SignalsFor(LiveFailure(err)).CountBreaker
      /\ ~Attempted(err) => Quiet(f)
  BY <1>0, AnswerFacts, Zenon
<1>2. /\ MayFail(r, f) /\ K!Complete(r, f) /\ req' = [req EXCEPT ![r] = l]
      /\ faulted' = (faulted \/ (Live(r) /\ SignalsFor(LiveFailure(err)).CountBreaker))
      /\ pc' = [pc EXCEPT ![r] = "feedback"]
      /\ UNCHANGED <<breakerPart, holders, ctx>>
  BY DEF Fails, SetLocals, GoTo
<1> HIDE DEF f
<1>3. /\ req[r].failure = NoFailure /\ req[r].attempts < MaxAttempts
      /\ Spent(r) <= Allowed(r) + 1
      /\ asked # K!NoKey /\ req[r].key = asked /\ asked \in K!Keys
      /\ req[r].refused \subseteq req[r].excluded
  <2>1. selection[r] \in K!Selections
    BY <1>0 DEF Typed
  <2> QED
    BY <1>0, <2>1, FinalFailures, Zenon
       DEF RequestInv, Spends, Before, Holds, Asks, K!Outstanding, K!Selections, Avoids,
           NextExcluded, Quiet
<1>4. /\ l \in Locals /\ l.failure = f /\ l.key = req[r].key
      /\ l.candidate = req[r].candidate /\ l.calls = req[r].calls
      /\ l.attempts = IF Attempted(err) THEN req[r].attempts + 1 ELSE req[r].attempts
      /\ l.excluded = req[r].excluded /\ l.refused = req[r].refused \cup refusedBy
  <2> DEFINE a == IF Attempted(err) THEN req[r].attempts + 1 ELSE req[r].attempts
             s == req[r].refused \cup refusedBy
  <2>1. /\ req[r] \in Locals /\ req[r].attempts \in 0..MaxAttempts
        /\ req[r].refused \subseteq K!Keys
    BY <1>0, LocalFields, Zenon
  <2>2. a \in 0..MaxAttempts
    BY <1>3, <2>1, CountUp, OrchestratorAssumption, Zenon
  <2>3. s \in SUBSET K!Keys
    BY <1>3, <2>1, Zenon
  <2>4. f \in Known
    BY <1>1, Zenon DEF Known
  <2> DEFINE x == req[r]
  <2>5. x \in Locals /\ l = [x EXCEPT !.failure = f, !.attempts = a, !.refused = s]
    BY <2>1
  <2> HIDE DEF l, s, a, x
  <2>6. /\ l \in Locals /\ l.failure = f /\ l.attempts = a /\ l.refused = s
        /\ l.key = x.key /\ l.candidate = x.candidate /\ l.calls = x.calls
        /\ l.excluded = x.excluded
    BY <2>2, <2>3, <2>4, <2>5, Zenon DEF Locals
  <2> QED
    BY <2>6, ZenonT(30) DEF s, a, x
<1> HIDE DEF l
<1>5. /\ selection' \in [Requests -> K!Selections]
      /\ \A h \in Requests \ {r} : selection'[h] = selection[h]
      /\ ~K!Outstanding(r)' /\ stateVersion' \in [K!Keys -> Nat]
  BY <1>0, <1>2, KeyCompleteFacts, Zenon
<1>6. /\ faulted' \in BOOLEAN /\ (faulted => faulted') /\ "feedback" \in Places
      /\ holders \subseteq Requests
  BY <1>0, <1>2 DEF Typed, Places
<1>7. /\ pc'[r] = "feedback" /\ req'[r] = l /\ permit' = permit /\ generation' = generation
      /\ RequestInv(r)' => OrchestratorInv'
  BY <1>2, <1>4, <1>5, <1>6, QuietStep, Zenon
<1>8. RequestInv(r)'
  <2>1. Holds(r)'
    BY <1>0, <1>2, <1>5, <1>7, ZenonT(30)
       DEF RequestInv, Holds, Pends, MayHoldSlot, Asks, B!Pending
  <2>2. Spent(r)' = Spent(r)
    BY <1>4, <1>7, Zenon DEF Spent
  <2>3. Allowed(r)' = IF Attempted(err) THEN Allowed(r) + 1 ELSE Allowed(r)
    <3>1. MaxAttempts * req[r].candidate \in Nat /\ req[r].attempts \in Nat
      BY <1>0, LocalFields, Zenon
    <3> QED
      BY <1>4, <1>7, <3>1, OneMore, Zenon DEF Allowed
  <2>4. \/ Spent(r)' <= Allowed(r)'
        \/ /\ Spent(r)' <= Allowed(r)' + 1 /\ l.attempts < MaxAttempts /\ Quiet(f)
    BY <1>1, <1>3, <1>4, <2>2, <2>3, Zenon
  <2>5. Spends(r)'
    BY <1>4, <1>7, <2>4, ZenonT(30) DEF Spends, Before
  <2>6. Avoids(r)'
    BY <1>3, <1>4, <1>7 DEF Avoids, NextExcluded
  <2>7. permit[r].held /\ permit[r].generation \in Nat /\ generation \in Nat
    BY <1>0, Zenon DEF Typed, RequestInv, Holds, Pends, B!Pending, B!Permits
  <2>8. permit[r].generation <= generation
    BY <1>0, <2>7, Zenon DEF RequestInv, Votes
  <2>9. SignalsFor(f).CountBreaker => faulted' /\ permit[r].generation < MaxGeneration
    BY <1>1, <1>2, <2>7, <2>8, BelowBound, OrchestratorAssumption, Zenon DEF MayFail
  <2>10. Votes(r)'
    BY <1>1, <1>4, <1>7, <2>8, <2>9, Zenon DEF Votes
  <2> QED
    BY <2>1, <2>5, <2>6, <2>10, ZenonT(30) DEF RequestInv
<1> QED
  BY <1>7, <1>8, ZenonT(30)

\* Answered and StreamTooLate end the call with an error of Answers.
LEMMA AnsweredInv ==
  ASSUME OrchestratorInv, NEW r \in Requests,
         (\E err \in Answers(r) : Answered(r, err)) \/ StreamTooLate(r)
  PROVE  OrchestratorInv'
<1>1. ASSUME NEW err \in Answers(r), Answered(r, err) PROVE OrchestratorInv'
  BY <1>1, FailsInv, Zenon DEF Answered
<1>2. CASE StreamTooLate(r)
  <2>1. ctx[r] \in {"canceled", "deadline"}
    BY <1>2 DEF StreamTooLate, OrchestratorInv, Typed, Live
  <2>2. SentinelError(ctx[r]) \in Answers(r)
    BY <1>2, <2>1 DEF StreamTooLate, Answers
  <2> QED
    BY <1>2, <2>2, FailsInv, Zenon DEF StreamTooLate, ContextFailure
<1> QED
  BY <1>1, <1>2
====
