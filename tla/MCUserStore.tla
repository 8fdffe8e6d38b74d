------------------------------ MODULE MCUserStore ------------------------------
(* Two names, which are those of the default users; the first process finds *)
(* no file, one with a password in plain text, or one with two accounts.    *)
EXTENDS UserStore

CONSTANTS s1, s2, a1, a2

MCTestAccount == [secret |-> s1, attr |-> a1]
MCAnonymousAccount == [secret |-> s2, attr |-> a1]
Legacy(u) == [secret |-> s2, attr |-> a2, hashed |-> FALSE]
MCFirstFile ==
    {Missing,
     [u \in User |-> IF u = Test THEN Legacy(u) ELSE NoAccount],
     [u \in User |-> [Legacy(u) EXCEPT !.hashed = u = Test]]}
==============================================================================
