--------------------------- MODULE MCOrchestrator ---------------------------
(* TLC instances of Orchestrator.                                            *)
EXTENDS Orchestrator, TLC

Symmetry == Permutations(Requests)

KeyErrors ==
  {HTTPError(status, "other", NoHeader) : status \in {400, 401, 403, 429}} \cup {NilError}

FaultErrors == {NilError, SentinelError("network"), SentinelError("invalid_response")}
=============================================================================
