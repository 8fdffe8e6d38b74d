------------------------------ MODULE MCFtpServer ------------------------------
(* Values for the constants of FtpServer.                                   *)
EXTENDS FtpServer, TLC

MCThread == {Main, Acceptor, Cleaner}

ClientSymmetry == Permutations(Conn)
==============================================================================
