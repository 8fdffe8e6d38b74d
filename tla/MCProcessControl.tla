-------------------------- MODULE MCProcessControl --------------------------
(***************************************************************************)
(* Values for ProcessControl.                                              *)
(***************************************************************************)
EXTENDS ProcessControl

CONSTANTS p1, p2, p3, h1, h2, s1, s2

Pids2 == {p1, p2}
Pids3 == {p1, p2, p3}
\* A server with this identifier drops its privileges.
OneOfThem == {p3}
NoneOfThem == {}

OneName == {h1}
OneSetting == {s1}

\* One host, disabled, with error texts of its own.
FirstHost == [setting |-> s1, enabled |-> FALSE, custom |-> TRUE]
OneHost == {[h \in Hostname |-> FirstHost]}
=============================================================================
