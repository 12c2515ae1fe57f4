--------------------------- MODULE MCProviderQueue ---------------------------
(* TLC instance of ProviderQueue: more requests than slots and places.        *)
EXTENDS ProviderQueue, TLC
=============================================================================
