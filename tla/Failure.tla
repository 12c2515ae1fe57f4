------------------------------- MODULE Failure -------------------------------
(***************************************************************************)
(* internal/reliability/failure.go: how an upstream error becomes a        *)
(* Failure (FromProvider) and what a Failure asks the retry loop, the key  *)
(* selector, the fallback and the breaker to do (SignalsFor).              *)
(*                                                                         *)
(* A nil *Failure (a success) is the record NoFailure, so that outcomes    *)
(* are all of one type.  Provider, candidate, attempt and trail fields,    *)
(* which no decision reads, are left out.                                  *)
(***************************************************************************)
EXTENDS Naturals

Categories ==
  {"local_validation", "key_unauthorized", "key_forbidden",
   "upstream_rate_limit", "upstream_4xx", "model_unavailable", "upstream_5xx",
   "upstream_protocol", "unsupported_capability", "unsupported_response",
   "network", "timeout", "key_exhausted", "queue", "breaker", "canceled"}

TimeoutScopes == {"none", "upstream", "request_budget"}

\* tooLarge stands for errors.Is(Cause, ErrResponseTooLarge).
FailureRecord ==
  [category : Categories \cup {"nil"}, status : Nat, timeout : TimeoutScopes,
   tooLarge : BOOLEAN, retryAfter : Nat, retryAfterSet : BOOLEAN]

NoFailure ==
  [category |-> "nil", status |-> 0, timeout |-> "none",
   tooLarge |-> FALSE, retryAfter |-> 0, retryAfterSet |-> FALSE]

Failed(category) == [NoFailure EXCEPT !.category = category]

IsFailure(f) == f.category # "nil"

breakerHTTPStatus(status) == status \in {500, 502, 503, 504}

\* The three situations in which a failure speaks about the provider's health.
TransientFault(f) ==
  \/ f.category = "upstream_5xx" /\ breakerHTTPStatus(f.status)
  \/ f.category = "network"
  \/ f.category = "timeout" /\ f.timeout = "upstream"

SignalsFor(f) ==
  [Retry        |-> \/ TransientFault(f)
                    \/ f.category = "upstream_rate_limit"
                    \/ f.category = "key_exhausted" /\ f.retryAfter > 0,
   SwitchKey    |-> f.category \in {"key_unauthorized", "key_forbidden",
                                    "upstream_rate_limit"},
   Fallback     |-> \/ TransientFault(f)
                    \/ f.category \in
                         {"key_unauthorized", "key_forbidden",
                          "upstream_rate_limit", "upstream_protocol",
                          "unsupported_capability", "unsupported_response",
                          "model_unavailable", "queue", "breaker",
                          "key_exhausted"},
   CountBreaker |-> \/ TransientFault(f)
                    \/ f.category = "upstream_protocol" /\ ~f.tooLarge]

-----------------------------------------------------------------------------
(***************************************************************************)
(* The errors an adapter can return.  "http" is a *provider.HTTPError with *)
(* its status, the class of its error code and its Retry-After (<<seconds>> *)
(* or NoHeader, absent or unparsable); the other kinds are the sentinel errors of  *)
(* package provider, a context error, or any other (network) error.        *)
(***************************************************************************)
NoHeader == <<>>
ErrorCodes == {"not_found", "model_gone", "other"}
SentinelErrors ==
  {"canceled", "deadline", "unsupported_capability", "unsupported_response",
   "invalid_request", "invalid_response", "invalid_stream",
   "response_too_large", "network"}

SentinelError(kind) ==
  [kind |-> kind, status |-> 0, code |-> "other", retryAfter |-> NoHeader]

HTTPError(status, code, retryAfter) ==
  [kind |-> "http", status |-> status, code |-> code, retryAfter |-> retryAfter]

NilError == SentinelError("nil")

\* "model_gone" stands for the codes that name a missing deployment, or a
\* model together with one of the markers the code lists.
modelUnavailable(status, code) ==
  /\ status \in {400, 404, 422}
  /\ code = "model_gone" \/ (status = 404 /\ code = "not_found")

\* parseRetryAfter: clamped to maximumRetryAfter; absent or unparsable is
\* replaced by the default key cooldown.
RateLimited(header, maximumRetryAfter, defaultCooldown) ==
  [Failed("upstream_rate_limit") EXCEPT
     !.status = 429,
     !.retryAfterSet = TRUE,
     !.retryAfter = IF header = NoHeader THEN defaultCooldown
                    ELSE IF header[1] > maximumRetryAfter
                           THEN maximumRetryAfter
                           ELSE header[1]]

HTTPCategory(err) ==
  CASE err.status = 401 -> "key_unauthorized"
    [] err.status = 403 -> "key_forbidden"
    [] modelUnavailable(err.status, err.code) -> "model_unavailable"
    [] OTHER -> IF err.status \in 400..499 THEN "upstream_4xx"
                ELSE IF err.status >= 500 THEN "upstream_5xx"
                ELSE "upstream_protocol"

SentinelCategory(kind) ==
  CASE kind \in {"unsupported_capability", "unsupported_response"} -> kind
    [] kind = "invalid_request" -> "local_validation"
    [] kind \in {"invalid_response", "invalid_stream", "response_too_large"}
         -> "upstream_protocol"
    [] OTHER -> "network"

\* Mutant of FromProvider: the end of the request context is not considered.
FromProviderIgnoresContext(ctx, err, maximumRetryAfter, defaultCooldown) ==
  IF err.kind = "nil" THEN NoFailure
  ELSE IF err.kind = "canceled" THEN Failed("canceled")
  ELSE IF err.kind = "deadline"
    THEN [Failed("timeout") EXCEPT !.timeout = "upstream"]
  ELSE IF err.kind # "http"
    THEN Failed(SentinelCategory(err.kind))
  ELSE IF err.status = 429
    THEN RateLimited(err.retryAfter, maximumRetryAfter, defaultCooldown)
  ELSE [Failed(HTTPCategory(err)) EXCEPT !.status = err.status]

\* ctx is the request context: "live", "canceled" or "deadline".  Its end
\* outranks whatever error the adapter returned.  The branch for an error that
\* is a *Failure already is left out: adapters and contexts return none, and
\* the failures of breaker, queue and key selector do not pass through here.
FromProvider(ctx, err, maximumRetryAfter, defaultCooldown) ==
  IF err.kind = "nil" THEN NoFailure
  ELSE IF "canceled" \in {ctx, err.kind} THEN Failed("canceled")
  ELSE IF ctx = "deadline"
    THEN [Failed("timeout") EXCEPT !.timeout = "request_budget"]
  ELSE IF err.kind = "deadline"
    THEN [Failed("timeout") EXCEPT !.timeout = "upstream"]
  ELSE IF err.kind # "http"
    THEN [Failed(SentinelCategory(err.kind)) EXCEPT
            !.tooLarge = (err.kind = "response_too_large")]
  ELSE IF err.status = 429
    THEN RateLimited(err.retryAfter, maximumRetryAfter, defaultCooldown)
  ELSE [Failed(HTTPCategory(err)) EXCEPT !.status = err.status]
=============================================================================
