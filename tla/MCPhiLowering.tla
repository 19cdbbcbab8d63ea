--------------------------- MODULE MCPhiLowering ----------------------------
(* PhiLowering for every choice of incoming operands: three regular phis,  *)
(* so that phis can read each other in a cycle of three, and a shadow.mem  *)
(* phi among them, which both loops pass over.                             *)
EXTENDS PhiLowering

CONSTANTS p1, p2, p3, m, x

Phis == <<p1, m, p2, p3>>

SomeOther == {x}
SomeShadow == {m}
None == {}
=============================================================================
