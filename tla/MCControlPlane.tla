--------------------------- MODULE MCControlPlane ----------------------------
(* TLC instances of ControlPlane.                                            *)
EXTENDS ControlPlane

CONSTANTS i1, i2, u1, u2, u3

\* One instance handles two of the updates, the other the third.
MCHandler == [u \in Updates |-> IF u = u3 THEN i2 ELSE i1]
=============================================================================
