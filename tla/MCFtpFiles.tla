------------------------------ MODULE MCFtpFiles ------------------------------
(* One user name of the server and of a virtual host, whose accounts differ: *)
(* the server's may list and read everything in /a and write in /a/d, the    *)
(* host's may do everything in /b.  "nobody" is a name that has no account.  *)
(* /a/d does not always let the process in.                                  *)
EXTENDS FtpFiles

MCPath == {<<>>, <<"a">>, <<"a", "d">>, <<"a", "d", "f">>, <<"a", "f">>, <<"b">>}
MCForeign == MCPath \ {<<>>}
MCOpaque == {<<"a", "d", "f">>}
Rel(p) == [abs |-> FALSE, steps |-> p]
Abs(p) == [abs |-> TRUE, steps |-> p]
MCArg == {Rel(<<>>), Rel(<<"d">>), Rel(<<"f">>), Rel(<<"..", "b">>), Abs(<<"d", "f">>)}
MCUniqueName == <<"f", "d">>
MCNameOf == [a \in Account |-> "alice"]
MCHomeOf == [a \in Account |-> IF a = "server" THEN <<"a">> ELSE <<"b">>]
MCHostOf == [a \in Account |-> IF a = "server" THEN NoHost ELSE "h"]
MCGrants == [a \in Account |->
    IF a = "server" THEN {[op |-> "list", scope |-> <<>>], [op |-> "read", scope |-> <<>>],
                          [op |-> "write", scope |-> <<"d">>]}
    ELSE {}]
MCRootOf == [h \in Host |-> <<"b">>]
==============================================================================
