---------------------------- MODULE MCFrontDoor ----------------------------
(***************************************************************************)
(* Values for FrontDoor.                                                   *)
(***************************************************************************)
EXTENDS FrontDoor

CONSTANTS a1, a2, c1, c2

OneAddress == {a1}
TwoAddresses == {a1, a2}
OneConn == {c1}
TwoConns == {c1, c2}
=============================================================================
