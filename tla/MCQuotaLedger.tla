---------------------------- MODULE MCQuotaLedger ----------------------------
(* TLC instance of QuotaLedger: p1 limits tokens and cost, p2 requests; both  *)
(* deny.                                                                     *)
EXTENDS QuotaLedger

CONSTANTS p1, p2

MCLimit ==
  [p \in Policies |->
     IF p = p1 THEN [requests |-> NoLimit, tokens |-> 3, cost |-> 2]
               ELSE [requests |-> 1, tokens |-> NoLimit, cost |-> NoLimit]]
MCOverage == [p \in Policies |-> "deny"]

MCEstimates ==
  {[tokens |-> 2, cost |-> 1, costKnown |-> TRUE],
   [tokens |-> 1, cost |-> 0, costKnown |-> FALSE]}

MCEvents ==
  {[tokens |-> 3, cost |-> 2, attempted |-> TRUE],
   [tokens |-> Unknown, cost |-> Unknown, attempted |-> TRUE],
   [tokens |-> Unknown, cost |-> Unknown, attempted |-> FALSE]}
=============================================================================
