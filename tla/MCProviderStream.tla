-------------------------- MODULE MCProviderStream --------------------------
(***************************************************************************)
(* Every request of at most two features to every protocol, and answers     *)
(* with no block and with each kind of block, in the orders the mappers tell *)
(* apart.                                                                   *)
(***************************************************************************)
EXTENDS ProviderStream

MCFeatures == UNION {ClientFeatures(c) : c \in Clients}

MCRequests == {{}} \cup {{f, g} : f \in MCFeatures, g \in MCFeatures}

MCShapes == {<<>>, <<"text">>, <<"thought", "text">>, <<"tool">>, <<"text", "tool", "tool">>,
             <<"tool", "text">>, <<"thought", "plan", "tool">>}

=============================================================================
