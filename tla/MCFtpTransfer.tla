----------------------------- MODULE MCFtpTransfer -----------------------------
(* A file of MCLength bytes, and a name without file. *)
EXTENDS FtpTransfer

CONSTANTS MCLength, present, absent     \* the two names

MCFirstContent ==
    {[h \in File |-> IF h = present THEN Old(MCLength) ELSE Missing]}
================================================================================
