---------------------------- MODULE Orchestrator ----------------------------
(***************************************************************************)
(* internal/reliability/{orchestrator,attempt,stream_attempt,retry}.go: a  *)
(* request's way through breaker, queue, key selector, upstream call,      *)
(* feedback, retry and fallback, for the candidates of its plan that name  *)
(* one provider.  Breaker and KeySelector are the modules of these names;  *)
(* the queue is the Semaphore that ProviderQueue implements, with its      *)
(* waiting places.                                                         *)
(*                                                                         *)
(* pc[r] is where request r stands:                                        *)
(*   "idle"     no request                                                 *)
(*   "admit"    at the head of the retry loop, holding nothing             *)
(*   "enqueue"  admitted by the breaker, about to ask for a slot           *)
(*   "waiting"  in the queue                                               *)
(*   "choose"   holds a slot, about to select a key                        *)
(*   "call"     the adapter runs (a stream: until the first event)         *)
(*   "relay"    a stream whose first event was handed to the client        *)
(*   "feedback" key.Complete has run, permit.Complete has not              *)
(*   "release"  permit.Complete has run, lease.Release has not             *)
(*   "return"   the attempt returns; what follows is decided               *)
(*   "backoff"  RetryPolicy.Wait                                           *)
(* A step that reads or writes only the request's own data is joined to    *)
(* the next shared one.  The request's budget may end at any time, so Wait *)
(* may find any positive delay too long; waitLeft is the delay of a wait   *)
(* for a key, the other delays end at any time.                            *)
(***************************************************************************)
EXTENDS Failure, FiniteSets

CONSTANTS
  Requests,
  Streaming,        \* the requests that ask for a stream
  Candidates,       \* how many candidates of a plan name this provider
  MaxAttempts,
  FailureThreshold, OpenDuration, HalfOpenMaxProbes,
  MaxInFlight, MaxWaiting,
  KeyCount, MaximumRetryAfter, DefaultCooldown,
  Errors,           \* what the adapter may return, NilError for a success
  Endings,          \* how a context may end: "canceled", "deadline"
  MaxGeneration, MaxVersion  \* bounds: the provider stops failing there

VARIABLES
  state, generation, consecutiveFailures, openLeft,
  halfOpenInFlight, halfOpenSuccesses, permit,
  disabled, cooldown, stateVersion, next, selection,
  holders,
  pc,       \* [Requests -> Places]
  ctx,      \* [Requests -> {"live", "canceled", "deadline"}]
  req,      \* [Requests -> Locals]
  waitLeft, \* [Requests -> Nat]
  faulted   \* history: a call failed by the provider's own fault

breakerPart == <<state, generation, consecutiveFailures, openLeft,
                 halfOpenInFlight, halfOpenSuccesses, permit>>
keyPart == <<disabled, cooldown, stateVersion, next, selection>>
requestPart == <<pc, ctx, req, waitLeft, faulted>>
vars == <<breakerPart, keyPart, holders, requestPart>>

ASSUME OrchestratorAssumption ==
  /\ IsFiniteSet(Requests) /\ Streaming \subseteq Requests
  /\ Candidates \in Nat \ {0} /\ MaxAttempts \in Nat \ {0}
  /\ FailureThreshold \in Nat \ {0} /\ OpenDuration \in Nat \ {0}
  /\ HalfOpenMaxProbes \in Nat \ {0}
  /\ MaxInFlight \in Nat \ {0} /\ MaxWaiting \in Nat
  /\ KeyCount \in Nat \ {0} /\ MaxGeneration \in Nat
  /\ Endings \subseteq {"canceled", "deadline"}

LiveFailure(err) == FromProvider("live", err, MaximumRetryAfter, DefaultCooldown)

\* Every outcome that a request may report to the breaker.
Reportable ==
  {LiveFailure(err) : err \in Errors}
    \cup {FromProvider(end, SentinelError("network"), MaximumRetryAfter, DefaultCooldown) :
            end \in {"canceled", "deadline"}}
    \cup {Failed("queue"), Failed("key_exhausted")}
    \cup {[Failed("key_exhausted") EXCEPT !.retryAfter = left, !.retryAfterSet = TRUE] :
            left \in 1..MaximumRetryAfter}

ASSUME ReportableAssumption == Reportable \subseteq FailureRecord

\* After the last failure, reported below MaxGeneration, the breaker still opens,
\* becomes half-open and closes.
B == INSTANCE Breaker WITH
  Calls <- Requests, Outcomes <- Reportable,
  MaxGeneration <- MaxGeneration + 3

\* Only the actions of KeySelector that leave its exhausted alone are used.
K == INSTANCE KeySelector WITH
  Users <- Requests, Outcomes <- Reportable, exhausted <- waitLeft

S == INSTANCE Semaphore

\* attempts, excluded and preferred live as long as one candidate's Execute;
\* key and failure are the last attempt's; calls (upstream calls made so far),
\* refused (keys that answered 401 or 403 to this candidate) are history.
Fresh ==
  [candidate |-> 1, attempts |-> 0, excluded |-> {}, preferred |-> K!NoKey,
   key |-> K!NoKey, failure |-> NoFailure, committed |-> FALSE,
   calls |-> 0, refused |-> {}]

Places == {"idle", "admit", "enqueue", "waiting", "choose", "call", "relay",
           "feedback", "release", "return", "backoff"}

TypeOK ==
  /\ B!TypeOK
  /\ disabled \in [K!Keys -> BOOLEAN]
  /\ cooldown \in [K!Keys -> 0..MaximumRetryAfter]
  /\ stateVersion \in [K!Keys -> Nat]
  /\ next \in K!Keys
  /\ selection \in [Requests -> K!Selections]
  /\ holders \subseteq Requests
  /\ pc \in [Requests -> Places]
  /\ ctx \in [Requests -> {"live", "canceled", "deadline"}]
  /\ waitLeft \in [Requests -> 0..MaximumRetryAfter]
  /\ faulted \in BOOLEAN
  /\ \A r \in Requests :
       /\ req[r].candidate \in 1..Candidates
       /\ req[r].attempts \in 0..MaxAttempts
       /\ req[r].excluded \subseteq K!Keys
       /\ req[r].failure \in FailureRecord

Init ==
  /\ B!Init
  /\ disabled = [k \in K!Keys |-> FALSE]
  /\ cooldown = [k \in K!Keys |-> 0]
  /\ stateVersion = [k \in K!Keys |-> 0]
  /\ next = 0
  /\ selection = [r \in Requests |-> K!NoSelection]
  /\ S!SemInit
  /\ pc = [r \in Requests |-> "idle"]
  /\ ctx = [r \in Requests |-> "live"]
  /\ req = [r \in Requests |-> Fresh]
  /\ waitLeft = [r \in Requests |-> 0]
  /\ faulted = FALSE

-----------------------------------------------------------------------------
GoTo(r, place) == pc' = [pc EXCEPT ![r] = place]
SetLocals(r, locals) == req' = [req EXCEPT ![r] = locals]

\* The attempt ends with this failure; key is the one it used, if any.
Ends(r, failure, place) ==
  /\ SetLocals(r, [req[r] EXCEPT !.failure = failure, !.key = K!NoKey])
  /\ GoTo(r, place)
  /\ UNCHANGED <<ctx, waitLeft, faulted>>

\* The failure that stands for an ended context (contextFailure, FromProvider).
ContextFailure(r) ==
  FromProvider(ctx[r], SentinelError(ctx[r]), MaximumRetryAfter, DefaultCooldown)

Live(r) == ctx[r] = "live"

Begin(r) ==
  /\ pc[r] = "idle"
  /\ GoTo(r, "admit")
  /\ UNCHANGED <<breakerPart, keyPart, holders, ctx, req, waitLeft, faulted>>

\* The client goes away, or the request's budget ends, which covers a stream
\* only up to its first event.
ContextEnds(r, how) ==
  /\ pc[r] # "idle" /\ Live(r)
  /\ how = "deadline" => ~req[r].committed
  /\ ctx' = [ctx EXCEPT ![r] = how]
  /\ UNCHANGED <<breakerPart, keyPart, holders, pc, req, waitLeft, faulted>>

-----------------------------------------------------------------------------
(* executeOnce and prepareStreamOnce.                                      *)

Admitted(r) ==
  /\ pc[r] = "admit"
  /\ B!Allow(r)
  /\ GoTo(r, "enqueue")
  /\ UNCHANGED <<keyPart, holders, ctx, req, waitLeft, faulted>>

CircuitOpen(r) ==
  /\ pc[r] = "admit"
  /\ B!Reject(r)
  /\ Ends(r, Failed("breaker"), "return")
  /\ UNCHANGED <<keyPart, holders>>

Waiting == {r \in Requests : pc[r] = "waiting"}
SlotFree == Cardinality(holders) < MaxInFlight

AcquireSlot(r) ==
  /\ pc[r] \in {"enqueue", "waiting"} /\ Live(r)
  /\ S!Take(r)
  /\ GoTo(r, "choose")
  /\ UNCHANGED <<breakerPart, keyPart, ctx, req, waitLeft, faulted>>

WaitForSlot(r) ==
  /\ pc[r] = "enqueue" /\ Live(r) /\ ~SlotFree
  /\ Cardinality(Waiting) < MaxWaiting
  /\ GoTo(r, "waiting")
  /\ UNCHANGED <<breakerPart, keyPart, holders, ctx, req, waitLeft, faulted>>

QueueFull(r) ==
  /\ pc[r] = "enqueue" /\ Live(r) /\ ~SlotFree
  /\ Cardinality(Waiting) >= MaxWaiting
  /\ Ends(r, Failed("queue"), "feedback")
  /\ UNCHANGED <<breakerPart, keyPart, holders>>

\* Mutant of QueueGivesUp: a waiting request sees neither timer nor context.
QueueWaitsOn(r) ==
  /\ pc[r] = "enqueue" /\ ~Live(r)
  /\ Ends(r, ContextFailure(r), "feedback")
  /\ UNCHANGED <<breakerPart, keyPart, holders>>

\* The wait is over by its timer, or the context has ended.
QueueGivesUp(r) ==
  /\ \/ pc[r] = "waiting" /\ Live(r) /\ Ends(r, Failed("queue"), "feedback")
     \/ /\ pc[r] \in {"enqueue", "waiting"} /\ ~Live(r)
        /\ Ends(r, ContextFailure(r), "feedback")
  /\ UNCHANGED <<breakerPart, keyPart, holders>>

SelectKey(r) ==
  /\ pc[r] = "choose"
  /\ K!selectKey(r, req[r].preferred, req[r].excluded)
  /\ SetLocals(r, [req[r] EXCEPT !.key = selection'[r].key, !.calls = @ + 1])
  /\ GoTo(r, "call")
  /\ UNCHANGED <<breakerPart, holders, ctx, waitLeft, faulted>>

KeysExhausted(r) ==
  /\ pc[r] = "choose"
  /\ \E failure \in K!ExhaustedFailures :
       /\ K!selectFails(req[r].excluded, failure)
       /\ Ends(r, failure, "feedback")
  /\ UNCHANGED <<breakerPart, holders>>

\* What the adapter returns once the context has ended is beyond its control.
Answers(r) ==
  Errors \cup IF Live(r) THEN {}
              ELSE {SentinelError(kind) : kind \in {"canceled", "deadline", "network"}}

\* The bounds on what the provider does.
MayFail(r, failure) ==
  /\ SignalsFor(failure).CountBreaker => generation < MaxGeneration
  /\ K!Rejects(failure) => stateVersion[selection[r].key] < MaxVersion

\* The adapter did run, unless it refused the request before sending it.
Attempted(err) == err.kind \notin {"invalid_request", "unsupported_capability"}

KeyRefused(failure) == failure.category \in {"key_unauthorized", "key_forbidden"}

\* Complete or OpenStream answers err, key.Complete follows.  A stream whose
\* context has ended returns the context's error even if it was opened.
Fails(r, err, failure) ==
  LET asked == selection[r].key
      refusedBy == IF KeyRefused(failure) THEN {asked} ELSE {} IN
  /\ MayFail(r, failure)
  /\ K!Complete(r, failure)
  /\ SetLocals(r, [req[r] EXCEPT
       !.failure = failure,
       !.attempts = IF Attempted(err) THEN @ + 1 ELSE @,
       !.refused = @ \cup refusedBy])
  /\ faulted' = (faulted \/ (Live(r) /\ SignalsFor(LiveFailure(err)).CountBreaker))
  /\ GoTo(r, "feedback")
  /\ UNCHANGED <<breakerPart, holders, ctx, waitLeft>>

Answered(r, err) ==
  /\ pc[r] = "call"
  /\ r \notin Streaming \/ err # NilError
  /\ Fails(r, err, FromProvider(ctx[r], err, MaximumRetryAfter, DefaultCooldown))

StreamTooLate(r) ==
  /\ pc[r] = "call" /\ r \in Streaming /\ ~Live(r)
  /\ Fails(r, SentinelError(ctx[r]), ContextFailure(r))

\* The first event is in: permit, lease and key pass to the PreparedStream.
StreamOpened(r) ==
  /\ pc[r] = "call" /\ r \in Streaming /\ Live(r) /\ NilError \in Errors
  /\ SetLocals(r, [req[r] EXCEPT !.attempts = @ + 1, !.committed = TRUE])
  /\ GoTo(r, "relay")
  /\ UNCHANGED <<breakerPart, keyPart, holders, ctx, waitLeft, faulted>>

\* Mutant of Panics: nothing is deferred.
PanicsUnprotected(r) ==
  /\ pc[r] = "call" /\ r \notin Streaming
  /\ selection' = [selection EXCEPT ![r] = K!NoSelection]
  /\ GoTo(r, "idle")
  /\ UNCHANGED <<breakerPart, disabled, cooldown, stateVersion, next, holders,
                 ctx, req, waitLeft, faulted>>

\* The adapter panics: nothing is completed, the deferred calls run.
Panics(r) ==
  /\ pc[r] = "call" /\ r \notin Streaming
  /\ selection' = [selection EXCEPT ![r] = K!NoSelection]
  /\ GoTo(r, "release")
  /\ UNCHANGED <<breakerPart, disabled, cooldown, stateVersion, next, holders,
                 ctx, req, waitLeft, faulted>>

\* PreparedStream.Finish, FinishError and Abort up to key.Complete.
StreamEnds(r, failure) ==
  /\ pc[r] = "relay"
  /\ MayFail(r, failure)
  /\ K!Complete(r, failure)
  /\ SetLocals(r, [req[r] EXCEPT !.failure = failure])
  /\ faulted' = (faulted \/ SignalsFor(failure).CountBreaker)
  /\ GoTo(r, "feedback")
  /\ UNCHANGED <<breakerPart, holders, ctx, waitLeft>>

Finish(r) ==
  \/ StreamEnds(r, NoFailure)
  \/ \E err \in Answers(r) \ {NilError} :
       StreamEnds(r, FromProvider(ctx[r], err, MaximumRetryAfter, DefaultCooldown))
  \/ StreamEnds(r, Failed("canceled"))

PermitComplete(r) ==
  /\ pc[r] = "feedback"
  /\ B!Complete(r, req[r].failure)
  /\ GoTo(r, "release")
  /\ UNCHANGED <<keyPart, holders, ctx, req, waitLeft, faulted>>

LeaseRelease(r) ==
  /\ pc[r] = "release"
  /\ IF r \in holders THEN S!GiveBack(r) ELSE UNCHANGED holders
  /\ GoTo(r, "return")
  /\ UNCHANGED <<breakerPart, keyPart, ctx, req, waitLeft, faulted>>

-----------------------------------------------------------------------------
(* The retry loop of Execute and prepareStream, the candidate loop of the  *)
(* Orchestrator.                                                           *)

\* Mutant of ShouldRetry: one attempt too many.
ShouldRetryOneMore(failure, attempt) ==
  attempt <= MaxAttempts /\ (SignalsFor(failure).Retry \/ SignalsFor(failure).SwitchKey)

ShouldRetry(failure, attempt) ==
  attempt < MaxAttempts /\ (SignalsFor(failure).Retry \/ SignalsFor(failure).SwitchKey)

Backoff(failure) ==
  IF failure.category = "key_exhausted" THEN failure.retryAfter ELSE 0

\* Mutant of NextExcluded: a refused key may be tried again.
NextExcludedKeeps(r) == req[r].excluded

NextExcluded(r) ==
  req[r].excluded \cup
    IF KeyRefused(req[r].failure) /\ req[r].key # K!NoKey THEN {req[r].key} ELSE {}

NextPreferred(r) ==
  IF SignalsFor(req[r].failure).SwitchKey THEN K!NoKey
  ELSE IF req[r].key # K!NoKey THEN req[r].key ELSE req[r].preferred

\* Mutant of Abandoned: the permit is dropped without Abandon.
AbandonForgotten(r) ==
  /\ permit' = [permit EXCEPT ![r] = B!NoPermit]
  /\ UNCHANGED <<state, generation, consecutiveFailures, openLeft,
                 halfOpenInFlight, halfOpenSuccesses>>

\* The deferred Abandon, which the breaker ignores after a Complete.
Abandoned(r) ==
  IF permit[r].held THEN B!Abandon(r) ELSE UNCHANGED breakerPart

Over(r) ==
  /\ GoTo(r, "idle")
  /\ SetLocals(r, Fresh)
  /\ ctx' = [ctx EXCEPT ![r] = "live"]
  /\ waitLeft' = [waitLeft EXCEPT ![r] = 0]
  /\ UNCHANGED faulted

\* The next candidate, if the failure lets the plan go on to one.
FallbackOrOver(r) ==
  \/ /\ SignalsFor(req[r].failure).Fallback
     /\ req[r].candidate < Candidates
     /\ SetLocals(r, [Fresh EXCEPT !.candidate = req[r].candidate + 1,
                                   !.calls = req[r].calls])
     /\ GoTo(r, "admit")
     /\ UNCHANGED <<ctx, waitLeft, faulted>>
  \/ /\ ~SignalsFor(req[r].failure).Fallback \/ req[r].candidate = Candidates
     /\ Over(r)

\* Success, a committed stream, a panic, or a context that has ended: the
\* request is over.
Returns(r) ==
  /\ pc[r] = "return"
  /\ ~IsFailure(req[r].failure) \/ req[r].committed \/ ~Live(r)
  /\ Abandoned(r)
  /\ Over(r)
  /\ UNCHANGED <<keyPart, holders>>

Retries(r) ==
  /\ pc[r] = "return" /\ ~req[r].committed /\ Live(r)
  /\ ShouldRetry(req[r].failure, req[r].attempts)
  /\ Abandoned(r)
  /\ SetLocals(r, [req[r] EXCEPT !.excluded = NextExcluded(r),
                                 !.preferred = NextPreferred(r),
                                 !.key = K!NoKey, !.failure = NoFailure])
  /\ waitLeft' = [waitLeft EXCEPT ![r] = Backoff(req[r].failure)]
  /\ GoTo(r, "backoff")
  /\ UNCHANGED <<keyPart, holders, ctx, faulted>>

\* No retry, or Wait finds the delay longer than the budget that is left.
LeavesCandidate(r) ==
  /\ pc[r] = "return" /\ ~req[r].committed /\ Live(r)
  /\ IsFailure(req[r].failure)
  /\ \/ ~ShouldRetry(req[r].failure, req[r].attempts)
     \/ ~SignalsFor(req[r].failure).SwitchKey
  /\ Abandoned(r)
  /\ FallbackOrOver(r)
  /\ UNCHANGED <<keyPart, holders>>

\* Wait returns true when its timer fires, even if the context ends as well.
WaitOver(r) ==
  /\ pc[r] = "backoff" /\ waitLeft[r] = 0
  /\ GoTo(r, "admit")
  /\ UNCHANGED <<breakerPart, keyPart, holders, ctx, req, waitLeft, faulted>>

WaitCut(r) ==
  /\ pc[r] = "backoff" /\ ~Live(r)
  /\ Over(r)
  /\ UNCHANGED <<breakerPart, keyPart, holders>>

Tick ==
  /\ openLeft' = K!Passed(openLeft)
  /\ cooldown' = K!TickedCooldowns
  /\ waitLeft' = [r \in Requests |-> K!Passed(waitLeft[r])]
  /\ UNCHANGED <<state, generation, consecutiveFailures, halfOpenInFlight,
                 halfOpenSuccesses, permit, disabled, stateVersion, next,
                 selection, holders, pc, ctx, req, faulted>>

-----------------------------------------------------------------------------
\* What a request does by itself until it is over; a stream in relay goes on
\* as long as the upstream and the client let it.
Step(r) ==
  \/ Admitted(r) \/ CircuitOpen(r)
  \/ AcquireSlot(r) \/ WaitForSlot(r) \/ QueueFull(r) \/ QueueGivesUp(r)
  \/ SelectKey(r) \/ KeysExhausted(r)
  \/ \E err \in Answers(r) : Answered(r, err)
  \/ StreamTooLate(r) \/ StreamOpened(r) \/ Panics(r)
  \/ PermitComplete(r) \/ LeaseRelease(r)
  \/ Returns(r) \/ Retries(r) \/ LeavesCandidate(r)
  \/ WaitOver(r) \/ WaitCut(r)

Next ==
  \/ \E r \in Requests :
       \/ Begin(r) \/ Step(r) \/ Finish(r)
       \/ \E how \in Endings : ContextEnds(r, how)
  \/ Tick

Spec == Init /\ [][Next]_vars

\* The scheduler runs every request, an attempt's timer ends its call, the
\* budget ends in time, and time passes.  Nothing is assumed about the client,
\* about new requests, or about the end of a stream.
FairSpec ==
  /\ Spec /\ WF_vars(Tick)
  /\ \A r \in Requests : WF_vars(Step(r)) /\ WF_vars(ContextEnds(r, "deadline"))

-----------------------------------------------------------------------------
\* A request that is not inside an attempt holds neither permit nor slot nor
\* key: every path out of executeOnce and prepareStreamOnce gives all of them
\* back, and the wait for a key that cools down blocks nobody else.
OutsideHoldsNothing ==
  \A r \in Requests : pc[r] \in {"idle", "admit", "backoff"} =>
    ~permit[r].held /\ r \notin holders /\ ~K!Outstanding(r)

\* The upstream calls of a request, counted where they are made, stay within
\* MaxAttempts for each candidate tried, although waits for a key and refusals
\* by breaker and queue run through the same loops without being counted.
CallsBounded == \A r \in Requests : req[r].calls <= MaxAttempts * req[r].candidate

\* While Execute works on one candidate, a key that answered 401 or 403 to it
\* is not asked again.
RefusedKeyAvoided ==
  [][\A r \in Requests : pc[r] = "choose" /\ pc'[r] = "call"
       => selection'[r].key \notin req[r].refused]_vars

\* A provider that never failed by its own fault keeps a closed breaker without
\* a failure counted, whatever clients, budgets, the queue and the keys do.
HealthyStaysClosed == ~faulted => state = B!StateClosed /\ consecutiveFailures = 0

\* The requests use the breaker as Breaker.tla allows: what is proved of it
\* holds here.
UsesBreaker == B!Spec

\* Every request comes to its end, or to a stream that is handed over to the
\* client, even if a stream that is running never ends.
RequestEnds ==
  \A r \in Requests : pc[r] = "admit" ~> pc[r] \in {"idle", "relay"}
=============================================================================
