----------------------------- MODULE MCBlockOpt -----------------------------
(* Instances of BlockOpt for TLC.                                          *)
EXTENDS BlockOpt

CONSTANTS a, b, y

(* Memory and calls at -O2; common subexpressions and stores through       *)
(* pointers, divisions and loads at -O3.                                   *)
MCBuilds ==
  {[full |-> FALSE, ops |-> {"move", "ldp", "stg", "ldg", "call"}, elseDefs |-> {{}}],
   [full |-> TRUE, ops |-> {"move", "mul", "stp"}, elseDefs |-> {{}}],
   [full |-> TRUE, ops |-> {"div", "ldp"}, elseDefs |-> {{a}}]}
=============================================================================
