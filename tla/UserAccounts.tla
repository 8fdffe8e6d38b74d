------------------------------ MODULE UserAccounts ------------------------------
(***************************************************************************)
(* What the user file promises: a map from names to accounts that only the *)
(* commands of the administrator change, one after the other, and that a   *)
(* connection fills with the default accounts where it may.  The promise   *)
(* ends with the first save that rests on something the file no longer     *)
(* says ("disturbed"); UserStore shows when that happens.                  *)
(***************************************************************************)
CONSTANTS
    User, NoAccount,                  \* names; a name without account
    Secret, Attr,                     \* passwords; home, permissions and the rest
    Test, TestAccount,                \* the default user of an empty store
    Anonymous, AnonymousAccount,      \* the user that allow_anonymous adds
    AllowAnonymous                    \* config security.allow_anonymous

VARIABLES
    accounts,   \* the accounts
    last,       \* the command that took effect last
    disturbed   \* nothing is promised any more

Account == [secret: Secret, attr: Attr]
Nobody == [u \in User |-> NoAccount]

NoCommand == [op |-> "none"]
AddCmd(u, a) == [op |-> "add", user |-> u, account |-> a]
RemoveCmd(u) == [op |-> "remove", user |-> u]
PasswordCmd(u, s) == [op |-> "password", user |-> u, secret |-> s]
ModifyCmd(u, a) == [op |-> "modify", user |-> u, attr |-> a]
DefaultCmd(us) == [op |-> "default", users |-> us]

Add(u, a) ==
    /\ accounts' = [accounts EXCEPT ![u] = a]
    /\ last' = AddCmd(u, a)

Remove(u) ==
    /\ accounts[u] # NoAccount
    /\ accounts' = [accounts EXCEPT ![u] = NoAccount]
    /\ last' = RemoveCmd(u)

Password(u, s) ==
    /\ accounts[u] # NoAccount
    /\ accounts' = [accounts EXCEPT ![u].secret = s]
    /\ last' = PasswordCmd(u, s)

Modify(u, a) ==
    /\ accounts[u] # NoAccount
    /\ accounts' = [accounts EXCEPT ![u].attr = a]
    /\ last' = ModifyCmd(u, a)

\* The test user comes into an empty store only, the anonymous one where it is
\* allowed and missing.
Default(us) ==
    /\ us \subseteq {Test, Anonymous}
    /\ Test \in us => accounts = Nobody
    /\ Anonymous \in us => AllowAnonymous /\ accounts[Anonymous] = NoAccount
    /\ accounts' = [u \in User |-> IF u \notin us THEN accounts[u]
                                   ELSE IF u = Test THEN TestAccount ELSE AnonymousAccount]
    /\ last' = DefaultCmd(us)

Command ==
    \/ \E u \in User, a \in Account : Add(u, a)
    \/ \E u \in User : Remove(u)
    \/ \E u \in User, s \in Secret : Password(u, s)
    \/ \E u \in User, a \in Attr : Modify(u, a)
    \/ \E us \in SUBSET {Test, Anonymous} : Default(us)

Init ==
    /\ accounts \in [User -> Account \cup {NoAccount}]
    /\ last = NoCommand
    /\ disturbed = FALSE

Next == disturbed' = TRUE \/ (disturbed' = disturbed /\ Command)

Spec == Init /\ [][Next]_<<accounts, last, disturbed>>
=================================================================================
