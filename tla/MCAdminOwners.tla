---------------------------- MODULE MCAdminOwners ----------------------------
(* TLC instances of AdminOwners.                                             *)
EXTENDS AdminOwners
=============================================================================
