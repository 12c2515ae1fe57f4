------------------------------ MODULE MCBreaker ------------------------------
(* TLC instance of Breaker: a success, a failure that counts and one that    *)
(* does not.                                                                 *)
EXTENDS Breaker, TLC

MCOutcomes == {NoFailure, Failed("network"), Failed("upstream_rate_limit")}
=============================================================================
