-------------------------------- MODULE UserStore --------------------------------
(***************************************************************************)
(* The user file and everybody who uses it: FTPUserManager                 *)
(* (user/user_manager.cpp, user/user.cpp), the "user" commands of the      *)
(* program (main/production.cpp) and the constructor of a connection,      *)
(* which makes a manager of its own (core/connection.cpp).                 *)
(*                                                                         *)
(* A process reads the file into memory, changes the memory, and writes    *)
(* the whole file in place: opening it empties it, and closing it puts the *)
(* new text there.  Nothing locks the file.  Several processes do this at  *)
(* once, and each may die in between.                                      *)
(***************************************************************************)
EXTENDS Integers

CONSTANTS
    Proc, Daemon,                     \* processes; those that are a server
    User, NoAccount, Secret, Attr, Test, TestAccount,
    Anonymous, AnonymousAccount, AllowAnonymous,    \* as in UserAccounts
    Missing, Broken,                  \* no file; a file that does not parse
    FirstFile,                        \* what the first process may find
    MaxRuns                           \* bound: commands and connections

Stored == [secret: Secret, attr: Attr, hashed: BOOLEAN]
Map == [User -> Stored \cup {NoAccount}]
Nobody == [u \in User |-> NoAccount]

ASSUME ServersAreProcesses == Daemon \subseteq Proc
ASSUME DefaultsAreAccounts ==
    /\ {Test, Anonymous} \subseteq User
    /\ Test # Anonymous
    /\ {TestAccount, AnonymousAccount} \subseteq [secret: Secret, attr: Attr]
    /\ AllowAnonymous \in BOOLEAN
ASSUME NoAccountIsNone == NoAccount \notin Stored \cup [secret: Secret, attr: Attr]
ASSUME FilesDiffer == Missing \notin Map /\ Broken \notin Map /\ Missing # Broken
ASSUME FirstFileParses == FirstFile \subseteq Map \cup {Missing}
ASSUME MaxRunsIsNat == MaxRuns \in Nat

VARIABLES
    file,       \* the user file
    at,         \* where a process is: "idle", in memory ("run"), about to open
                \* the file ("open"), with the emptied file open ("write")
    mem,        \* users_ of its manager
    todo,       \* the command it has carried out in memory and not in the file
    runs,       \* commands and connections begun
    base,       \* history: what the process knows the file to hold
    content,    \* history: the last text that was written completely
    last,       \* history: the command that wrote it
    disturbed,  \* history: some save replaced what its process had not read
    torn,       \* history: some save ended between opening and writing
    overlapped, \* history: two processes were at work at once
    failed      \* history: names whose password could not be hashed

vars == <<file, at, mem, todo, runs, base, content, last, disturbed, torn, overlapped, failed>>

\* What a reader makes of accounts: the password behind the hash, and the rest.
Plain(m) == [u \in User |-> IF m[u] = NoAccount THEN NoAccount
                            ELSE [secret |-> m[u].secret, attr |-> m[u].attr]]

Accounts == INSTANCE UserAccounts WITH accounts <- Plain(content)

Init ==
    /\ file \in FirstFile
    /\ at = [p \in Proc |-> "idle"]
    /\ mem = [p \in Proc |-> Nobody]
    /\ todo = [p \in Proc |-> Accounts!NoCommand]
    /\ runs = 0
    /\ base = [p \in Proc |-> Missing]
    /\ content = IF file = Missing THEN Nobody ELSE file
    /\ last = Accounts!NoCommand
    /\ disturbed = FALSE
    /\ torn = FALSE
    /\ overlapped = FALSE
    /\ failed = {}

------------------------------------------------------------------------------
(* Loading and saving.                                                       *)

\* The process is done with its manager.
Forget(p) ==
    /\ at' = [at EXCEPT ![p] = "idle"]
    /\ mem' = [mem EXCEPT ![p] = Nobody]
    /\ base' = [base EXCEPT ![p] = Missing]
    /\ todo' = [todo EXCEPT ![p] = Accounts!NoCommand]

\* setPassword(): a password in plain text is hashed, unless that fails.
Hashed(account, ok) == [secret |-> account.secret, attr |-> account.attr, hashed |-> ok]

\* loadUsers(): no file, and a file that does not parse, leave no users.
Found == IF file \in {Missing, Broken} THEN Nobody ELSE file

\* A loader that leaves out what an account has besides its password.
ReadPasswordOnly(bad) ==
    [u \in User |-> IF Found[u] = NoAccount \/ u \in bad THEN Found[u]
                    ELSE [secret |-> Found[u].secret, attr |-> TestAccount.attr, hashed |-> TRUE]]

\* Reading an account hashes its password, unless it is in bad.
Read(bad) == [u \in User |-> IF Found[u] = NoAccount \/ u \in bad THEN Found[u]
                             ELSE Hashed(Found[u], TRUE)]

\* The constructor of the manager: load, and rewrite a file that held plain text.
Load(p) ==
    /\ at[p] = "idle"
    /\ runs < MaxRuns
    /\ runs' = runs + 1
    /\ \E bad \in SUBSET {u \in User : Found[u] # NoAccount /\ ~Found[u].hashed} :
        /\ mem' = [mem EXCEPT ![p] = Read(bad)]
        /\ at' = [at EXCEPT ![p] = IF Read(bad) # Found THEN "open" ELSE "run"]
        /\ failed' = failed \cup bad
    /\ base' = [base EXCEPT ![p] = file]
    /\ overlapped' = (overlapped \/ \E q \in Proc : at[q] # "idle")
    /\ UNCHANGED <<file, todo, content, last, disturbed, torn>>

\* saveUsers() as far as the opening of the file, which empties it.
Open(p) ==
    /\ at[p] = "open"
    /\ at' = [at EXCEPT ![p] = "write"]
    /\ file' = Broken
    /\ disturbed' = (disturbed \/ file = Broken \/ file # base[p])
    /\ UNCHANGED <<mem, todo, runs, base, content, last, torn, overlapped, failed>>

\* After a save, or a failed one: a command ends; a connection goes on with the
\* defaults, and so does a manager that has only rewritten the file.
Saved(p) ==
    IF p \in Daemon \/ todo[p] = Accounts!NoCommand
    THEN at' = [at EXCEPT ![p] = "run"] /\ UNCHANGED mem
    ELSE at' = [at EXCEPT ![p] = "idle"] /\ mem' = [mem EXCEPT ![p] = Nobody]

\* A save that returns early when there is nothing to write.
WriteUnlessEmpty(p) ==
    /\ at[p] = "write"
    /\ IF mem[p] = Nobody THEN UNCHANGED <<file, content>> ELSE file' = mem[p] /\ content' = mem[p]
    /\ last' = IF todo[p] = Accounts!NoCommand THEN last ELSE todo[p]
    /\ Saved(p)
    /\ base' = [base EXCEPT ![p] = IF at'[p] = "idle" THEN Missing ELSE mem[p]]
    /\ todo' = [todo EXCEPT ![p] = Accounts!NoCommand]
    /\ UNCHANGED <<runs, disturbed, torn, overlapped, failed>>

\* The rest of saveUsers().
Write(p) ==
    /\ at[p] = "write"
    /\ file' = mem[p]
    /\ content' = mem[p]
    /\ last' = IF todo[p] = Accounts!NoCommand THEN last ELSE todo[p]
    /\ Saved(p)
    /\ base' = [base EXCEPT ![p] = IF at'[p] = "idle" THEN Missing ELSE mem[p]]
    /\ todo' = [todo EXCEPT ![p] = Accounts!NoCommand]
    /\ UNCHANGED <<runs, disturbed, torn, overlapped, failed>>

\* A connection keeps what it could not save, and saves it with the next default.
Unsaved(p) ==
    /\ Saved(p)
    /\ base' = [base EXCEPT ![p] = IF at'[p] = "idle" THEN Missing ELSE @]
    /\ todo' = [todo EXCEPT ![p] = IF at'[p] = "idle" THEN Accounts!NoCommand ELSE @]
    /\ UNCHANGED <<runs, content, last, disturbed, overlapped, failed>>

\* A save that finds out too late that it cannot go on.
OpenFailsEmptied(p) ==
    /\ at[p] = "open"
    /\ Unsaved(p)
    /\ file' = Broken
    /\ UNCHANGED torn

\* The file cannot be opened for writing: saveUsers() returns false, which
\* addUser() and removeUser() do not look at.
OpenFails(p) ==
    /\ at[p] = "open"
    /\ Unsaved(p)
    /\ UNCHANGED <<file, torn>>

\* The text does not reach the disk, which nothing notices.
WriteFails(p) ==
    /\ at[p] = "write"
    /\ Unsaved(p)
    /\ torn' = TRUE
    /\ UNCHANGED file

\* The process is killed.
Crash(p) ==
    /\ at[p] # "idle"
    /\ Forget(p)
    /\ torn' = (torn \/ at[p] = "write")
    /\ UNCHANGED <<file, runs, content, last, disturbed, overlapped, failed>>
------------------------------------------------------------------------------
(* The "user" commands, each between its load and its save.  A prompt for a  *)
(* password may come in between.                                             *)

\* The memory is m, command c is to be saved.
Change(p, m, c) ==
    /\ mem' = [mem EXCEPT ![p] = m]
    /\ todo' = [todo EXCEPT ![p] = c]
    /\ at' = [at EXCEPT ![p] = "open"]
    /\ UNCHANGED <<file, runs, base, content, last, disturbed, torn, overlapped>>

InCommand(p) == at[p] = "run" /\ p \notin Daemon

\* addUser(): an account of that name is replaced.  A password that cannot be
\* hashed is kept as it is.
AddUser(p, u, a, ok) ==
    /\ InCommand(p)
    /\ Change(p, [mem[p] EXCEPT ![u] = Hashed(a, ok)], Accounts!AddCmd(u, a))
    /\ failed' = IF ok THEN failed ELSE failed \cup {u}

RemoveUser(p, u) ==
    /\ InCommand(p)
    /\ mem[p][u] # NoAccount
    /\ Change(p, [mem[p] EXCEPT ![u] = NoAccount], Accounts!RemoveCmd(u))
    /\ UNCHANGED failed

\* A password that cannot be hashed is refused: that run ends with Leave.
SetPassword(p, u, s) ==
    /\ InCommand(p)
    /\ mem[p][u] # NoAccount
    /\ Change(p, [mem[p] EXCEPT ![u] = [secret |-> s, attr |-> mem[p][u].attr, hashed |-> TRUE]],
              Accounts!PasswordCmd(u, s))
    /\ UNCHANGED failed

ModifyUser(p, u, a) ==
    /\ InCommand(p)
    /\ mem[p][u] # NoAccount
    /\ Change(p, [mem[p] EXCEPT ![u].attr = a], Accounts!ModifyCmd(u, a))
    /\ UNCHANGED failed

\* list; an unknown user, an empty or a refused password.
Leave(p) ==
    /\ InCommand(p)
    /\ Forget(p)
    /\ UNCHANGED <<file, runs, content, last, disturbed, torn, overlapped, failed>>

------------------------------------------------------------------------------
(* The constructor of a connection, after its manager has loaded.            *)

InConnection(p) == at[p] = "run" /\ p \in Daemon
LacksAnonymous(p) == AllowAnonymous /\ mem[p][Anonymous] = NoAccount

\* The defaults in memory that are not saved yet.
Pending(p) == IF todo[p] = Accounts!NoCommand THEN {} ELSE todo[p].users

AddDefault(p, u, a, ok) ==
    /\ Change(p, [mem[p] EXCEPT ![u] = Hashed(a, ok)], Accounts!DefaultCmd(Pending(p) \cup {u}))
    /\ failed' = IF ok THEN failed ELSE failed \cup {u}

AddTest(p, ok) ==
    /\ InConnection(p)
    /\ mem[p] = Nobody
    /\ AddDefault(p, Test, TestAccount, ok)

AddAnonymous(p, ok) ==
    /\ InConnection(p)
    /\ mem[p] # Nobody
    /\ LacksAnonymous(p)
    /\ AddDefault(p, Anonymous, AnonymousAccount, ok)

\* The session keeps the manager, and only reads it.
Ready(p) ==
    /\ InConnection(p)
    /\ mem[p] # Nobody
    /\ ~LacksAnonymous(p)
    /\ Forget(p)
    /\ UNCHANGED <<file, runs, content, last, disturbed, torn, overlapped, failed>>

Terminated ==
    /\ runs = MaxRuns
    /\ \A p \in Proc : at[p] = "idle"
    /\ UNCHANGED vars

Step(p) ==
    \/ Load(p) \/ Open(p) \/ Write(p) \/ OpenFails(p) \/ WriteFails(p) \/ Crash(p)
    \/ \E u \in User, a \in Accounts!Account, ok \in BOOLEAN : AddUser(p, u, a, ok)
    \/ \E u \in User : RemoveUser(p, u)
    \/ \E u \in User, s \in Secret : SetPassword(p, u, s)
    \/ \E u \in User, a \in Attr : ModifyUser(p, u, a)
    \/ Leave(p)
    \/ \E ok \in BOOLEAN : AddTest(p, ok) \/ AddAnonymous(p, ok)
    \/ Ready(p)

Next == (\E p \in Proc : Step(p)) \/ Terminated

Spec == Init /\ [][Next]_vars

------------------------------------------------------------------------------
(* Properties.                                                               *)

Defaults == [op: {"default"}, users: SUBSET {Test, Anonymous}]
Commands ==
    [op: {"none"}] \cup [op: {"add"}, user: User, account: Accounts!Account]
    \cup [op: {"remove"}, user: User] \cup [op: {"password"}, user: User, secret: Secret]
    \cup [op: {"modify"}, user: User, attr: Attr] \cup Defaults

\* The variables have their types, and a process that is done has forgotten all.
TypeOK ==
    /\ file \in Map \cup {Missing, Broken}
    /\ at \in [Proc -> {"idle", "run", "open", "write"}]
    /\ mem \in [Proc -> Map]
    /\ todo \in [Proc -> Commands]
    /\ runs \in 0..MaxRuns
    /\ base \in [Proc -> Map \cup {Missing, Broken}]
    /\ content \in Map
    /\ last \in Commands
    /\ disturbed \in BOOLEAN /\ torn \in BOOLEAN /\ overlapped \in BOOLEAN
    /\ failed \subseteq User
    /\ \A p \in Proc : at[p] = "idle" => mem[p] = Nobody /\ todo[p] = Accounts!NoCommand

\* Until a save rests on what the file no longer says, loading, hashing, changing
\* and saving amount to one command after the other on a map of accounts, the
\* defaults come only where the map allows them, and no account or field of one
\* is lost or comes back on the way (loadUsers, saveUsers and their callers).
ActsAsAccounts == Accounts!Spec

\* A save replaces what its process had not read only if two processes were at
\* work at once, or a save was cut short: commands that wait for each other and
\* end keep the promise of UserAccounts (the lock that saveUsers does not take).
StaleNeedsOverlap == disturbed => overlapped \/ torn

\* A file that does not parse is the work of a save that is under way or was cut
\* short (saveUsers empties the file before it writes).
BrokenIsASave == file = Broken => torn \/ \E p \in Proc : at[p] = "write"

\* However loads and saves of several processes interleave, a password gets into
\* the file in plain text only if hashing it failed some time: a process that
\* read the old file cannot bring the plain text back (setPassword, loadUsers).
PlaintextNeedsFailure ==
    [][content' # content =>
         \A u \in User : content'[u] # NoAccount /\ ~content'[u].hashed => u \in failed']_vars

\* Users survive a restart: an account leaves the file only by "user remove".
UsersSurvive ==
    [][\A u \in User : content[u] # NoAccount /\ content'[u] = NoAccount
         => \E p \in Proc : todo[p] = Accounts!RemoveCmd(u)]_vars
==================================================================================
