--------------------------- MODULE MCMoveCallers ---------------------------
(* Four registers, two of which carry arguments, and three variables, the  *)
(* third of which is passed on the stack.                                  *)
EXTENDS MoveCallers

CONSTANTS r1, r2, r3, r4, in3, out3, s1, s2, s3, v1, v2, v3, v4

MCArgRegs == <<r1, r2>>
MCInSlots == <<in3>>
MCOutSlots == <<out3>>
MCSpillSlots == <<s1, s2, s3>>
MCSaveSlots == (r1 :> v1) @@ (r2 :> v2) @@ (r3 :> v3) @@ (r4 :> v4)
=============================================================================
