---------------------------- MODULE MCKeySelector ----------------------------
(* TLC instance of KeySelector: a success, a 401, a 403, and rate limits     *)
(* with a short and a long Retry-After.                                      *)
EXTENDS KeySelector, TLC

Limited(left) ==
  [Failed("upstream_rate_limit") EXCEPT !.retryAfter = left, !.retryAfterSet = TRUE]

MCOutcomes ==
  {NoFailure, Failed("key_unauthorized"), Failed("key_forbidden"),
   Limited(1), Limited(3)}

Symmetry == Permutations(Users)
=============================================================================
