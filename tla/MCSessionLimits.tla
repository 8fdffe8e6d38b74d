--------------------------- MODULE MCSessionLimits ---------------------------
(* Values for the constants of SessionLimits.                               *)
EXTENDS SessionLimits, TLC

ConnSymmetry == Permutations(Conn) \cup Permutations(User)
==============================================================================
