--------------------------- MODULE MCFtpDataChannel ---------------------------
(* Values for the constants of FtpDataChannel.                               *)
EXTENDS FtpDataChannel, TLC

SessionSymmetry == Permutations(Session)
==============================================================================
