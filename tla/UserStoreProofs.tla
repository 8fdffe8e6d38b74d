---------------------------- MODULE UserStoreProofs ----------------------------
(***************************************************************************)
(* Theorems about UserStore, for any processes, names and accounts: types, *)
(* then who can be at work and what a process knows of the file, then that *)
(* the store implements UserAccounts until a save is stale.                *)
(***************************************************************************)
EXTENDS UserStore, TLAPS

NoCmd == Accounts!NoCommand

LEMMA CommandFacts ==
    /\ NoCmd \in Commands \ Defaults
    /\ \A u \in User, a \in Accounts!Account : Accounts!AddCmd(u, a) \in Commands \ Defaults
    /\ \A u \in User : Accounts!RemoveCmd(u) \in Commands \ Defaults
    /\ \A u \in User, s \in Secret : Accounts!PasswordCmd(u, s) \in Commands \ Defaults
    /\ \A u \in User, a \in Attr : Accounts!ModifyCmd(u, a) \in Commands \ Defaults
    /\ Defaults \subseteq Commands
    /\ \A c \in Defaults : c # NoCmd /\ c.users \subseteq {Test, Anonymous}
                           /\ c = Accounts!DefaultCmd(c.users)
<1> USE DEF Commands, Defaults, NoCmd, Accounts!NoCommand, Accounts!AddCmd, Accounts!RemoveCmd,
        Accounts!PasswordCmd, Accounts!ModifyCmd, Accounts!DefaultCmd, Accounts!Account
<1>1. \A c \in Defaults : c.op = "default"
  OBVIOUS
<1>2. NoCmd \in Commands /\ NoCmd.op = "none"
  OBVIOUS
<1>3. \A u \in User, a \in Accounts!Account :
         Accounts!AddCmd(u, a) \in Commands /\ Accounts!AddCmd(u, a).op = "add"
  OBVIOUS
<1>4. \A u \in User : Accounts!RemoveCmd(u) \in Commands /\ Accounts!RemoveCmd(u).op = "remove"
  OBVIOUS
<1>5. \A u \in User, s \in Secret :
         Accounts!PasswordCmd(u, s) \in Commands /\ Accounts!PasswordCmd(u, s).op = "password"
  OBVIOUS
<1>6. \A u \in User, a \in Attr :
         Accounts!ModifyCmd(u, a) \in Commands /\ Accounts!ModifyCmd(u, a).op = "modify"
  OBVIOUS
<1>7. Defaults \subseteq Commands
  OBVIOUS
<1>8. \A c \in Defaults : c.users \subseteq {Test, Anonymous} /\ c = Accounts!DefaultCmd(c.users)
  OBVIOUS
<1> HIDE DEF Commands, Defaults, NoCmd, Accounts!NoCommand, Accounts!AddCmd, Accounts!RemoveCmd,
        Accounts!PasswordCmd, Accounts!ModifyCmd, Accounts!DefaultCmd, Accounts!Account
<1>9. QED BY <1>1, <1>2, <1>3, <1>4, <1>5, <1>6, <1>7, <1>8

LEMMA MapFacts ==
    /\ Nobody \in Map
    /\ \A m \in Map, u \in User : m[u] \in Stored \cup {NoAccount}
    /\ \A m \in Map, u \in User, s \in Stored \cup {NoAccount} : [m EXCEPT ![u] = s] \in Map
    /\ \A a \in Accounts!Account, ok \in BOOLEAN : Hashed(a, ok) \in Stored
    /\ \A s \in Stored, ok \in BOOLEAN : Hashed(s, ok) \in Stored
BY DEF Map, Nobody, Stored, Accounts!Account, Hashed

------------------------------------------------------------------------------
(* Types.                                                                    *)

\* Only a server has defaults to save, and nothing else; a command that has not
\* changed anything yet has nothing to save.
TodoInv ==
    \A p \in Proc :
        /\ p \in Daemon => todo[p] \in Defaults \cup {NoCmd}
        /\ p \notin Daemon => todo[p] \notin Defaults
        /\ p \notin Daemon /\ at[p] = "run" => todo[p] = NoCmd

TypeInv == TypeOK /\ TodoInv

LEMMA FoundIsMap == TypeOK => Found \in Map
BY MapFacts DEF TypeOK, Found

LEMMA ReadIsMap ==
    ASSUME TypeOK, NEW bad \in SUBSET User
    PROVE  Read(bad) \in Map
<1>1. Found \in Map
  BY FoundIsMap
<1>2. \A u \in User : Read(bad)[u] \in Stored \cup {NoAccount}
  BY <1>1, MapFacts DEF Read
<1>3. QED BY <1>2 DEF Read, Map

\* What a process leaves when it is done.
LEMMA ForgetType ==
    ASSUME TypeInv, NEW p \in Proc, Forget(p),
           file' \in Map \cup {Missing, Broken}, torn' \in BOOLEAN,
           UNCHANGED <<runs, content, last, disturbed, overlapped, failed>>
    PROVE  TypeInv'
BY MapFacts, CommandFacts DEF TypeInv, TypeOK, TodoInv, Forget, NoCmd

LEMMA ChangeType ==
    ASSUME TypeInv, NEW p \in Proc, NEW m \in Map, NEW c \in Commands,
           Change(p, m, c), p \in Daemon <=> c \in Defaults,
           failed' \subseteq User
    PROVE  TypeInv'
BY DEF TypeInv, TypeOK, TodoInv, Change

\* Saved() as its callers use it: the process ends as if it forgot, or runs on.
LEMMA SavedCases ==
    ASSUME TypeInv, NEW p \in Proc, Saved(p)
    PROVE  \/ /\ p \in Daemon \/ todo[p] = NoCmd
              /\ at' = [at EXCEPT ![p] = "run"] /\ at'[p] = "run"
              /\ mem' = mem
           \/ /\ p \notin Daemon /\ todo[p] # NoCmd
              /\ at' = [at EXCEPT ![p] = "idle"] /\ at'[p] = "idle"
              /\ mem' = [mem EXCEPT ![p] = Nobody]
BY DEF Saved, TypeInv, TypeOK, NoCmd

LEMMA UnsavedType ==
    ASSUME TypeInv, NEW p \in Proc, Unsaved(p),
           file' \in Map \cup {Missing, Broken}, torn' \in BOOLEAN
    PROVE  TypeInv'
<1>1. CASE at'[p] = "run"
  <2>1. /\ at' = [at EXCEPT ![p] = "run"] /\ mem' = mem /\ todo' = todo /\ base' = base
        /\ p \in Daemon \/ todo[p] = NoCmd
    BY <1>1, SavedCases DEF Unsaved, TypeInv, TypeOK
  <2>2. QED BY <2>1 DEF TypeInv, TypeOK, TodoInv, Unsaved
<1>2. CASE at'[p] = "idle"
  <2>1. Forget(p)
    BY <1>2, SavedCases DEF Unsaved, Forget, NoCmd
  <2>2. QED BY <2>1, ForgetType DEF Unsaved
<1>3. QED BY <1>1, <1>2, SavedCases DEF Unsaved

LEMMA InitType == Init => TypeInv
<1>1. ASSUME Init PROVE TypeInv
  <2>1. file \in Map \cup {Missing} /\ content \in Map
    BY <1>1, FirstFileParses, MapFacts DEF Init
  <2>2. runs \in 0..MaxRuns /\ failed \subseteq User
    BY <1>1, MaxRunsIsNat DEF Init
  <2>3. last \in Commands
    BY <1>1, CommandFacts DEF Init, NoCmd
  <2>4. disturbed \in BOOLEAN /\ torn \in BOOLEAN /\ overlapped \in BOOLEAN
    BY <1>1, Zenon DEF Init
  <2>5. \A p \in Proc : at[p] = "idle" /\ mem[p] = Nobody /\ todo[p] = NoCmd
    BY <1>1 DEF Init, NoCmd
  <2>6. /\ at \in [Proc -> {"idle", "run", "open", "write"}] /\ mem \in [Proc -> Map]
        /\ todo \in [Proc -> Commands] /\ base \in [Proc -> Map \cup {Missing, Broken}]
    BY <1>1, MapFacts, CommandFacts DEF Init, NoCmd
  <2>7. TypeOK
    BY <2>1, <2>2, <2>5, <2>6, <2>3, <2>4 DEF TypeOK, NoCmd
  <2>8. QED
    BY <2>5, <2>7, CommandFacts DEF TypeInv, TodoInv
<1>2. QED BY <1>1

LEMMA StepType ==
    ASSUME TypeInv, NEW p \in Proc, Step(p)
    PROVE  TypeInv'
<1> USE DEF TypeInv
<1>1. CASE Load(p)
  <2>1. PICK bad \in SUBSET User :
          /\ mem' = [mem EXCEPT ![p] = Read(bad)]
          /\ at' = [at EXCEPT ![p] = IF Read(bad) # Found THEN "open" ELSE "run"]
          /\ failed' = failed \cup bad
    BY <1>1 DEF Load
  <2>2. Read(bad) \in Map
    BY ReadIsMap
  <2>3. runs' \in 0..MaxRuns
    BY <1>1, MaxRunsIsNat DEF Load, TypeOK
  <2>4. todo' = todo /\ todo[p] = NoCmd
    BY <1>1 DEF Load, TypeOK, NoCmd
  <2>5. /\ base' = [base EXCEPT ![p] = file] /\ overlapped' \in BOOLEAN
        /\ UNCHANGED <<file, content, last, disturbed, torn>>
    BY <1>1 DEF Load, TypeOK
  <2>6. TypeOK'
    BY <2>1, <2>2, <2>3, <2>4, <2>5 DEF TypeOK
  <2>7. TodoInv'
    BY <2>1, <2>4 DEF TodoInv, TypeOK
  <2>8. QED BY <2>6, <2>7
<1>2. CASE Open(p)
  <2>1. disturbed' \in BOOLEAN
    BY <1>2 DEF Open, TypeOK
  <2>2. TypeOK'
    BY <1>2, <2>1 DEF Open, TypeOK
  <2>3. TodoInv'
    BY <1>2 DEF Open, TypeOK, TodoInv
  <2>4. QED BY <2>2, <2>3
<1>3. CASE Write(p)
  <2>1. file' \in Map /\ content' \in Map /\ last' \in Commands
    BY <1>3 DEF Write, TypeOK
  <2>2. CASE at'[p] = "idle"
    <3>1. Forget(p)
      BY <1>3, <2>2, SavedCases DEF Write, Forget
    <3>2. QED
      BY <1>3, <2>1, <3>1, MapFacts, CommandFacts DEF Forget, Write, TypeOK, TodoInv, NoCmd
  <2>3. CASE at'[p] = "run"
    <3>1. /\ at' = [at EXCEPT ![p] = "run"] /\ mem' = mem
          /\ base' = [base EXCEPT ![p] = mem[p]] /\ todo' = [todo EXCEPT ![p] = NoCmd]
          /\ UNCHANGED <<runs, disturbed, torn, overlapped, failed>>
      BY <1>3, <2>3, SavedCases DEF Write, NoCmd
    <3>2. QED
      BY <2>1, <3>1, CommandFacts DEF TypeOK, TodoInv, NoCmd
  <2>4. QED BY <1>3, <2>2, <2>3, SavedCases DEF Write
<1>4. CASE OpenFails(p)
  BY <1>4, UnsavedType DEF OpenFails, TypeOK
<1>5. CASE WriteFails(p)
  BY <1>5, UnsavedType DEF WriteFails, TypeOK
<1>6. CASE Crash(p)
  BY <1>6, ForgetType DEF Crash, TypeOK
<1>7. CASE \E u \in User, a \in Accounts!Account, ok \in BOOLEAN : AddUser(p, u, a, ok)
  <2>1. PICK u \in User, a \in Accounts!Account, ok \in BOOLEAN : AddUser(p, u, a, ok)
    BY <1>7
  <2>2. [mem[p] EXCEPT ![u] = Hashed(a, ok)] \in Map
    BY MapFacts DEF TypeOK
  <2>3. QED BY <2>1, <2>2, CommandFacts, ChangeType DEF AddUser, InCommand, TypeOK
<1>8. CASE \E u \in User : RemoveUser(p, u)
  <2>1. PICK u \in User : RemoveUser(p, u)
    BY <1>8
  <2>2. [mem[p] EXCEPT ![u] = NoAccount] \in Map
    BY MapFacts DEF TypeOK
  <2>3. QED BY <2>1, <2>2, CommandFacts, ChangeType DEF RemoveUser, InCommand, TypeOK
<1>9. CASE \E u \in User, s \in Secret : SetPassword(p, u, s)
  <2>1. PICK u \in User, s \in Secret : SetPassword(p, u, s)
    BY <1>9
  <2>2. [secret |-> s, attr |-> mem[p][u].attr, hashed |-> TRUE] \in Stored
    BY <2>1, MapFacts DEF SetPassword, TypeOK, Stored
  <2>3. [mem[p] EXCEPT ![u] = [secret |-> s, attr |-> mem[p][u].attr, hashed |-> TRUE]] \in Map
    BY <2>2, MapFacts DEF TypeOK
  <2>4. QED BY <2>1, <2>3, CommandFacts, ChangeType DEF SetPassword, InCommand, TypeOK
<1>10. CASE \E u \in User, a \in Attr : ModifyUser(p, u, a)
  <2>1. PICK u \in User, a \in Attr : ModifyUser(p, u, a)
    BY <1>10
  <2>2. [mem[p][u] EXCEPT !.attr = a] \in Stored
    BY <2>1, MapFacts DEF ModifyUser, TypeOK, Stored
  <2>3. [mem[p] EXCEPT ![u].attr = a] \in Map
    BY <2>2, MapFacts DEF TypeOK
  <2>4. QED BY <2>1, <2>3, CommandFacts, ChangeType DEF ModifyUser, InCommand, TypeOK
<1>11. CASE Leave(p)
  BY <1>11, ForgetType DEF Leave, TypeOK
<1>12. ASSUME NEW u \in {Test, Anonymous}, NEW a \in Accounts!Account, NEW ok \in BOOLEAN,
              InConnection(p), AddDefault(p, u, a, ok)
       PROVE  TypeInv'
  <2>1. [mem[p] EXCEPT ![u] = Hashed(a, ok)] \in Map
    BY <1>12, DefaultsAreAccounts, MapFacts DEF TypeOK
  <2>2. Pending(p) \subseteq {Test, Anonymous}
    BY <1>12, CommandFacts DEF Pending, InConnection, TodoInv, NoCmd
  <2>3. Accounts!DefaultCmd(Pending(p) \cup {u}) \in Defaults
    BY <2>2 DEF Accounts!DefaultCmd, Defaults
  <2>4. failed' \subseteq User
    BY <1>12, DefaultsAreAccounts DEF AddDefault, TypeOK
  <2>5. QED BY <1>12, <2>1, <2>3, <2>4, CommandFacts, ChangeType DEF AddDefault, InConnection
<1>13. CASE \E ok \in BOOLEAN : AddTest(p, ok) \/ AddAnonymous(p, ok)
  BY <1>12, <1>13, DefaultsAreAccounts DEF AddTest, AddAnonymous, Accounts!Account
<1>14. CASE Ready(p)
  BY <1>14, ForgetType DEF Ready, TypeOK
<1>15. QED
  BY <1>1, <1>2, <1>3, <1>4, <1>5, <1>6, <1>7, <1>8, <1>9, <1>10, <1>11, <1>13, <1>14 DEF Step

\* Every variable keeps its type, whatever the processes do (all operations of the
\* manager, the commands and the constructor of a connection).
THEOREM TypeCorrect == Spec => []TypeOK
<1>1. TypeInv /\ [Next]_vars => TypeInv'
  <2>1. ASSUME TypeInv, UNCHANGED vars PROVE TypeInv'
    BY <2>1 DEF vars, TypeInv, TypeOK, TodoInv
  <2>2. QED BY <2>1, StepType DEF Next, Terminated
<1>2. TypeInv => TypeOK
  BY DEF TypeInv
<1>3. QED BY <1>1, <1>2, InitType, PTL DEF Spec

------------------------------------------------------------------------------
(* Who is at work, and what a process knows of the file.                     *)

\* While processes have taken turns and every save was completed, the one that
\* is at work knows what the file holds.
TurnInv ==
    /\ BrokenIsASave
    /\ ~overlapped => \A p, q \in Proc : at[p] # "idle" /\ at[q] # "idle" => p = q
    /\ ~overlapped /\ ~torn =>
         ~disturbed /\ \A p \in Proc : at[p] \in {"run", "open"} => base[p] = file

\* A process works in memory only, or forgets its memory.
LEMMA RunSteps ==
    ASSUME TypeInv, NEW p \in Proc, Step(p)
    PROVE  \/ Load(p) \/ Open(p) \/ Write(p) \/ OpenFails(p) \/ WriteFails(p) \/ Crash(p)
           \/ /\ at[p] = "run"
              /\ UNCHANGED <<file, runs, content, last, disturbed, torn, overlapped>>
              /\ \/ Forget(p)
                 \/ at' = [at EXCEPT ![p] = "open"] /\ base' = base
BY DEF Step, AddUser, RemoveUser, SetPassword, ModifyUser, Leave, AddTest, AddAnonymous,
       AddDefault, Change, Ready, InCommand, InConnection

\* A save that failed leaves the process at work as it was, or idle.
LEMMA UnsavedCases ==
    ASSUME TypeInv, NEW p \in Proc, Unsaved(p)
    PROVE  /\ \/ Forget(p)
              \/ at' = [at EXCEPT ![p] = "run"] /\ mem' = mem /\ todo' = todo /\ base' = base
           /\ UNCHANGED <<runs, content, last, disturbed, overlapped, failed>>
<1>1. CASE at'[p] = "run"
  <2>1. at' = [at EXCEPT ![p] = "run"] /\ mem' = mem /\ todo' = todo /\ base' = base
    BY <1>1, SavedCases DEF Unsaved, TypeInv, TypeOK
  <2>2. QED BY <2>1 DEF Unsaved
<1>2. CASE at'[p] = "idle"
  BY <1>2, SavedCases DEF Unsaved, Forget, NoCmd
<1>3. QED BY <1>1, <1>2, SavedCases DEF Unsaved

LEMMA StepTurn ==
    ASSUME TypeInv, TurnInv, NEW p \in Proc, Step(p)
    PROVE  TurnInv'
<1> USE DEF TypeInv, TypeOK, TurnInv, BrokenIsASave
<1>1. CASE Load(p)
  <2>1. /\ at'[p] \in {"run", "open"} /\ at[p] = "idle"
        /\ \A q \in Proc \ {p} : at'[q] = at[q] /\ base'[q] = base[q]
        /\ base'[p] = file
        /\ overlapped' = (overlapped \/ \E q \in Proc : at[q] # "idle")
        /\ UNCHANGED <<file, disturbed, torn>>
    BY <1>1 DEF Load
  <2>2. QED BY <2>1
<1>2. CASE Open(p)
  BY <1>2 DEF Open
<1>3. CASE Write(p)
  <2>1. /\ at[p] = "write" /\ at'[p] \in {"idle", "run"} /\ file' = mem[p] /\ mem[p] \in Map
        /\ \A q \in Proc \ {p} : at'[q] = at[q] /\ base'[q] = base[q]
        /\ at'[p] = "run" => base'[p] = mem[p]
        /\ UNCHANGED <<disturbed, torn, overlapped>>
    BY <1>3, SavedCases DEF Write
  <2>2. file' # Broken
    BY <2>1, FilesDiffer
  <2>3. QED BY <2>1, <2>2
<1>4. CASE OpenFails(p)
  BY <1>4, UnsavedCases DEF OpenFails, Forget
<1>5. CASE WriteFails(p)
  BY <1>5, UnsavedCases DEF WriteFails, Forget
<1>6. CASE Crash(p)
  BY <1>6 DEF Crash, Forget
<1>7. CASE /\ at[p] = "run"
           /\ UNCHANGED <<file, runs, content, last, disturbed, torn, overlapped>>
           /\ \/ Forget(p)
              \/ at' = [at EXCEPT ![p] = "open"] /\ base' = base
  BY <1>7 DEF Forget
<1>8. QED BY <1>1, <1>2, <1>3, <1>4, <1>5, <1>6, <1>7, RunSteps

LEMMA TurnInvariant == Spec => [](TypeInv /\ TurnInv)
<1>1. Init => TurnInv
  BY FirstFileParses, FilesDiffer DEF Init, TurnInv, BrokenIsASave
<1>2. TypeInv /\ TurnInv /\ [Next]_vars => TypeInv' /\ TurnInv'
  <2>1. ASSUME TypeInv, TurnInv, UNCHANGED vars PROVE TypeInv' /\ TurnInv'
    BY <2>1 DEF vars, TypeInv, TypeOK, TodoInv, TurnInv, BrokenIsASave
  <2>2. QED BY <2>1, StepType, StepTurn DEF Next, Terminated
<1>3. QED BY <1>1, <1>2, InitType, PTL DEF Spec

\* The file does not parse only while it is being saved, or after a save that was
\* cut short (saveUsers).
THEOREM BrokenIsOnlyASave == Spec => []BrokenIsASave
<1>1. TypeInv /\ TurnInv => BrokenIsASave
  BY DEF TurnInv
<1>2. QED BY <1>1, TurnInvariant, PTL

\* Processes that take turns and complete their saves never replace what they
\* have not read (loadUsers and saveUsers without a lock).
THEOREM TurnsAreSafe == Spec => []StaleNeedsOverlap
<1>1. TypeInv /\ TurnInv => StaleNeedsOverlap
  BY DEF TurnInv, StaleNeedsOverlap, TypeInv, TypeOK
<1>2. QED BY <1>1, TurnInvariant, PTL

------------------------------------------------------------------------------
(* Passwords in plain text.                                                  *)

\* What a process holds in plain text could not be hashed.
PlainInv == \A p \in Proc, u \in User :
    mem[p][u] # NoAccount /\ ~mem[p][u].hashed => u \in failed

LEMMA StepPlain ==
    ASSUME TypeInv, PlainInv, NEW p \in Proc, Step(p)
    PROVE  PlainInv'
<1> USE DEF TypeInv, TypeOK, PlainInv
<1>1. CASE Load(p)
  <2>1. PICK bad \in SUBSET {u \in User : Found[u] # NoAccount /\ ~Found[u].hashed} :
          mem' = [mem EXCEPT ![p] = Read(bad)] /\ failed' = failed \cup bad
    BY <1>1 DEF Load
  <2>2. \A u \in User : Read(bad)[u] # NoAccount /\ ~Read(bad)[u].hashed => u \in bad
    BY DEF Read, Hashed
  <2>3. QED BY <2>1, <2>2
<1>2. ASSUME \/ mem' = mem \/ mem' = [mem EXCEPT ![p] = Nobody],
             failed' = failed
      PROVE  PlainInv'
  BY <1>2 DEF Nobody
<1>3. CASE Open(p) \/ Write(p) \/ OpenFails(p) \/ WriteFails(p) \/ Crash(p) \/ Leave(p) \/ Ready(p)
  <2>1. /\ \/ mem' = mem \/ mem' = [mem EXCEPT ![p] = Nobody]
        /\ failed' = failed
    BY <1>3, SavedCases, UnsavedCases
       DEF Open, Write, OpenFails, WriteFails, Crash, Leave, Ready, Forget
  <2>2. QED BY <1>2, <2>1
<1>4. ASSUME NEW u \in User, NEW s, mem' = [mem EXCEPT ![p] = [mem[p] EXCEPT ![u] = s]],
             failed \subseteq failed',
             s # NoAccount /\ ~s.hashed => u \in failed'
      PROVE  PlainInv'
  BY <1>4 DEF Map
<1>5. CASE \E u \in User, a \in Accounts!Account, ok \in BOOLEAN : AddUser(p, u, a, ok)
  BY <1>4, <1>5 DEF AddUser, Change, Hashed
<1>6. CASE \E u \in User : RemoveUser(p, u)
  BY <1>4, <1>6 DEF RemoveUser, Change
<1>7. CASE \E u \in User, s \in Secret : SetPassword(p, u, s)
  BY <1>4, <1>7 DEF SetPassword, Change
<1>8. CASE \E u \in User, a \in Attr : ModifyUser(p, u, a)
  <2>1. PICK u \in User, a \in Attr : ModifyUser(p, u, a)
    BY <1>8
  <2>2. mem[p][u] \in Stored /\ mem[p][u] # NoAccount
    BY <2>1, MapFacts DEF ModifyUser
  <2>3. [mem[p][u] EXCEPT !.attr = a].hashed = mem[p][u].hashed
    BY <2>2 DEF Stored
  <2>4. mem' = [mem EXCEPT ![p] = [mem[p] EXCEPT ![u] = [mem[p][u] EXCEPT !.attr = a]]]
    BY <2>1 DEF ModifyUser, Change
  <2>5. QED BY <1>4, <2>1, <2>2, <2>3, <2>4 DEF ModifyUser
<1>9. CASE \E ok \in BOOLEAN : AddTest(p, ok) \/ AddAnonymous(p, ok)
  BY <1>4, <1>9, DefaultsAreAccounts DEF AddTest, AddAnonymous, AddDefault, Change, Hashed
<1>10. QED BY <1>1, <1>3, <1>5, <1>6, <1>7, <1>8, <1>9 DEF Step

\* No interleaving of loads and saves puts a password in plain text into the file
\* unless hashing it failed (setPassword, loadUsers).
THEOREM PlaintextIsAFailure == Spec => PlaintextNeedsFailure
<1> DEFINE Inv == TypeInv /\ PlainInv
           A == content' # content =>
                  \A u \in User : content'[u] # NoAccount /\ ~content'[u].hashed => u \in failed'
<1>1. Init => PlainInv
  BY DEF Init, PlainInv, Nobody
<1>2. TypeInv /\ PlainInv /\ [Next]_vars => TypeInv' /\ PlainInv'
  <2>1. ASSUME TypeInv, PlainInv, UNCHANGED vars PROVE TypeInv' /\ PlainInv'
    BY <2>1 DEF vars, TypeInv, TypeOK, TodoInv, PlainInv
  <2>2. QED BY <2>1, StepType, StepPlain DEF Next, Terminated
<1>3. TypeInv /\ PlainInv /\ [Next]_vars => [A]_vars
  <2>1. ASSUME TypeInv, PlainInv, NEW p \in Proc, Step(p), content' # content PROVE A
    <3>1. Write(p)
      BY <2>1, RunSteps, UnsavedCases DEF Load, Open, OpenFails, WriteFails, Crash
    <3>2. QED BY <2>1, <3>1 DEF Write, PlainInv
  <2>2. QED BY <2>1 DEF Next, Terminated
<1>4. QED BY <1>1, <1>2, <1>3, InitType, PTL DEF Spec, PlaintextNeedsFailure

------------------------------------------------------------------------------
(* The store implements UserAccounts.                                        *)

AccountMap == [User -> Accounts!Account \cup {NoAccount}]

\* One command of UserAccounts, named c, makes n of m.
Makes(c, m, n) ==
    \/ \E u \in User, a \in Accounts!Account :
         c = Accounts!AddCmd(u, a) /\ n = [m EXCEPT ![u] = a]
    \/ \E u \in User :
         c = Accounts!RemoveCmd(u) /\ m[u] # NoAccount /\ n = [m EXCEPT ![u] = NoAccount]
    \/ \E u \in User, s \in Secret :
         c = Accounts!PasswordCmd(u, s) /\ m[u] # NoAccount /\ n = [m EXCEPT ![u].secret = s]
    \/ \E u \in User, a \in Attr :
         c = Accounts!ModifyCmd(u, a) /\ m[u] # NoAccount /\ n = [m EXCEPT ![u].attr = a]
    \/ \E us \in SUBSET {Test, Anonymous} :
         /\ c = Accounts!DefaultCmd(us)
         /\ Test \in us => m = Nobody
         /\ Anonymous \in us => AllowAnonymous /\ m[Anonymous] = NoAccount
         /\ n = [u \in User |-> IF u \notin us THEN m[u]
                                ELSE IF u = Test THEN TestAccount ELSE AnonymousAccount]

\* The same, or nothing to do and no difference.
Turns(c, m, n) == (c = NoCmd /\ n = m) \/ Makes(c, m, n)

\* What a process takes a file to hold.
Known(f) == IF f \in {Missing, Broken} THEN Nobody ELSE f

\* The memory is what the process knows of the file, and its command on top; as
\* long as no save was stale, so it is of the accounts while it writes, and one
\* process writes at a time.
StoreInv ==
    /\ \A p \in Proc : at[p] # "idle" =>
         Turns(todo[p], Plain(Known(base[p])), Plain(mem[p]))
    /\ ~disturbed =>
         /\ file # Broken => content = Known(file)
         /\ \A p \in Proc : at[p] = "write" =>
              file = Broken /\ Turns(todo[p], Plain(content), Plain(mem[p]))
         /\ \A p, q \in Proc : at[p] = "write" /\ at[q] = "write" => p = q

LEMMA PlainFacts ==
    /\ \A m \in Map : Plain(m) \in AccountMap
    /\ \A m \in Map, u \in User : Plain(m)[u] = NoAccount <=> m[u] = NoAccount
    /\ \A m \in Map, u \in User, s \in Stored :
         Plain([m EXCEPT ![u] = s]) = [Plain(m) EXCEPT ![u] = [secret |-> s.secret, attr |-> s.attr]]
    /\ \A m \in Map, u \in User :
         Plain([m EXCEPT ![u] = NoAccount]) = [Plain(m) EXCEPT ![u] = NoAccount]
    /\ Plain(Nobody) = Nobody
    /\ \A m \in Map : Plain(m) = Nobody <=> m = Nobody
<1> USE DEF Plain, Accounts!Account, AccountMap
<1>1. \A m \in Map, u \in User :
         Plain(m)[u] \in Accounts!Account \cup {NoAccount}
         /\ (Plain(m)[u] = NoAccount <=> m[u] = NoAccount)
  BY MapFacts, NoAccountIsNone DEF Stored
<1>2. \A m \in Map : Plain(m) \in AccountMap
  BY <1>1
<1>3. \A m \in Map, u \in User, s \in Stored :
         Plain([m EXCEPT ![u] = s]) = [Plain(m) EXCEPT ![u] = [secret |-> s.secret, attr |-> s.attr]]
  BY ZenonT(40), NoAccountIsNone DEF Map
<1>4. \A m \in Map, u \in User :
         Plain([m EXCEPT ![u] = NoAccount]) = [Plain(m) EXCEPT ![u] = NoAccount]
  BY DEF Map
<1>5. Plain(Nobody) = Nobody
  BY DEF Nobody
<1>6. \A m \in Map : Plain(m) = Nobody <=> m = Nobody
  <2>1. ASSUME NEW m \in Map, Plain(m) = Nobody PROVE m = Nobody
    <3>1. \A u \in User : m[u] = NoAccount
      BY <1>1, <2>1 DEF Nobody
    <3>2. QED BY <3>1 DEF Map, Nobody
  <2>2. QED BY <1>5, <2>1
<1> HIDE DEF Plain, Accounts!Account, AccountMap
<1>7. QED BY <1>1, <1>2, <1>3, <1>4, <1>5, <1>6

LEMMA HashedPlain ==
    ASSUME NEW m \in Map, NEW u \in User, NEW a \in Accounts!Account, NEW ok \in BOOLEAN
    PROVE  Plain([m EXCEPT ![u] = Hashed(a, ok)]) = [Plain(m) EXCEPT ![u] = a]
<1>1. Hashed(a, ok) \in Stored
  BY MapFacts
<1>2. [secret |-> Hashed(a, ok).secret, attr |-> Hashed(a, ok).attr] = a
  BY DEF Hashed, Accounts!Account
<1>3. QED BY <1>1, <1>2, PlainFacts

\* Hashing on load changes no account.
LEMMA ReadPlain ==
    ASSUME TypeInv, NEW bad \in SUBSET User
    PROVE  Plain(Read(bad)) = Plain(Found)
<1>1. \A u \in User : Found[u] \in Stored \cup {NoAccount}
  BY FoundIsMap, MapFacts DEF TypeInv
<1>2. \A u \in User : Read(bad)[u] = NoAccount <=> Found[u] = NoAccount
  BY NoAccountIsNone, <1>1, MapFacts DEF Read
<1>3. \A u \in User : Found[u] # NoAccount =>
         Read(bad)[u].secret = Found[u].secret /\ Read(bad)[u].attr = Found[u].attr
  BY DEF Read, Hashed
<1>4. QED BY <1>2, <1>3 DEF Plain

LEMMA NothingMakes == \A m, n : ~Makes(NoCmd, m, n)
BY DEF Makes, NoCmd, Accounts!NoCommand, Accounts!AddCmd, Accounts!RemoveCmd,
       Accounts!PasswordCmd, Accounts!ModifyCmd, Accounts!DefaultCmd

\* The commands of a process, on the memory it has.
LEMMA CommandsMake ==
    ASSUME TypeInv, NEW p \in Proc, at[p] = "run", NEW m,
           Turns(todo[p], m, Plain(mem[p])),
           NEW c, NEW n \in Map, Change(p, n, c),
           \/ p \notin Daemon /\ Makes(c, Plain(mem[p]), Plain(n))
           \/ p \in Daemon /\ Makes(c, m, Plain(n))
    PROVE  Turns(todo'[p], m, Plain(mem'[p]))
<1>1. todo'[p] = c /\ mem'[p] = n
  BY DEF Change, TypeInv, TypeOK
<1>2. p \notin Daemon => todo[p] = NoCmd /\ Plain(mem[p]) = m
  <2>1. ASSUME p \notin Daemon PROVE todo[p] = NoCmd
    BY <2>1 DEF TypeInv, TodoInv
  <2>2. QED BY <2>1, NothingMakes DEF Turns
<1>3. QED BY <1>1, <1>2 DEF Turns

\* What a connection has added already, on top of the file.
LEMMA DefaultsMade ==
    ASSUME TypeInv, NEW p \in Proc, p \in Daemon, NEW m,
           Turns(todo[p], m, Plain(mem[p]))
    PROVE  /\ Pending(p) \subseteq {Test, Anonymous}
           /\ Test \in Pending(p) => m = Nobody
           /\ Anonymous \in Pending(p) => AllowAnonymous /\ m[Anonymous] = NoAccount
           /\ m \in AccountMap =>
                Plain(mem[p]) = [u \in User |-> IF u \notin Pending(p) THEN m[u]
                                                ELSE IF u = Test THEN TestAccount ELSE AnonymousAccount]
<1> USE DEF Accounts!NoCommand, Accounts!AddCmd, Accounts!RemoveCmd,
           Accounts!PasswordCmd, Accounts!ModifyCmd, Accounts!DefaultCmd, NoCmd
<1>1. CASE todo[p] = NoCmd
  <2>1. Pending(p) = {} /\ Plain(mem[p]) = m
    BY <1>1, NothingMakes DEF Pending, Turns
  <2>2. m \in AccountMap => m = [u \in User |-> m[u]]
    BY DEF AccountMap
  <2>3. QED BY <2>1, <2>2
<1>2. CASE todo[p] # NoCmd
  <2>1. todo[p] \in Defaults
    BY <1>2 DEF TypeInv, TodoInv
  <2>2. todo[p].op = "default" /\ Makes(todo[p], m, Plain(mem[p]))
    BY <1>2, <2>1 DEF Turns, Defaults
  <2>3. PICK us \in SUBSET {Test, Anonymous} :
         /\ todo[p] = Accounts!DefaultCmd(us)
         /\ Test \in us => m = Nobody
         /\ Anonymous \in us => AllowAnonymous /\ m[Anonymous] = NoAccount
         /\ Plain(mem[p]) = [u \in User |-> IF u \notin us THEN m[u]
                                ELSE IF u = Test THEN TestAccount ELSE AnonymousAccount]
    <3>1. \A u, a : todo[p] # Accounts!AddCmd(u, a)
      BY <2>2
    <3>2. \A u : todo[p] # Accounts!RemoveCmd(u)
      BY <2>2
    <3>3. \A u, s : todo[p] # Accounts!PasswordCmd(u, s)
      BY <2>2
    <3>4. \A u, a : todo[p] # Accounts!ModifyCmd(u, a)
      BY <2>2
    <3> HIDE DEF Accounts!NoCommand, Accounts!AddCmd, Accounts!RemoveCmd,
           Accounts!PasswordCmd, Accounts!ModifyCmd, Accounts!DefaultCmd, NoCmd
    <3>5. QED BY <2>2, <3>1, <3>2, <3>3, <3>4, Zenon DEF Makes
  <2>4. Pending(p) = us
    BY <1>2, <2>3 DEF Pending
  <2>5. QED BY <2>3, <2>4
<1>3. QED BY <1>1, <1>2

LEMMA RecordFacts ==
    \A x, y, z : /\ [[secret |-> x, attr |-> y] EXCEPT !.secret = z] = [secret |-> z, attr |-> y]
                 /\ [[secret |-> x, attr |-> y] EXCEPT !.attr = z] = [secret |-> x, attr |-> z]
OBVIOUS

\* Every step in memory carries out one command on it, or ends the work.
LEMMA RunMakes ==
    ASSUME TypeInv, StoreInv, NEW p \in Proc, Step(p), at[p] = "run", at'[p] # "idle"
    PROVE  /\ at' = [at EXCEPT ![p] = "open"] /\ base' = base
           /\ \A q \in Proc \ {p} : mem'[q] = mem[q] /\ todo'[q] = todo[q]
           /\ Turns(todo'[p], Plain(Known(base[p])), Plain(mem'[p]))
<1> DEFINE m == Plain(Known(base[p]))
           Goal == /\ at' = [at EXCEPT ![p] = "open"] /\ base' = base
                   /\ \A q \in Proc \ {p} : mem'[q] = mem[q] /\ todo'[q] = todo[q]
                   /\ Turns(todo'[p], m, Plain(mem'[p]))
<1>1. Turns(todo[p], m, Plain(mem[p])) /\ mem[p] \in Map
  BY DEF StoreInv, TypeInv, TypeOK
<1>2. ASSUME NEW c, NEW n \in Map, Change(p, n, c),
             \/ p \notin Daemon /\ Makes(c, Plain(mem[p]), Plain(n))
             \/ p \in Daemon /\ Makes(c, m, Plain(n))
      PROVE  Goal
  <2>1. Turns(todo'[p], m, Plain(mem'[p]))
    BY <1>1, <1>2, CommandsMake
  <2>2. QED BY <1>2, <2>1 DEF Change, TypeInv, TypeOK
<1>3. CASE \E u \in User, a \in Accounts!Account, ok \in BOOLEAN : AddUser(p, u, a, ok)
  <2>1. PICK u \in User, a \in Accounts!Account, ok \in BOOLEAN : AddUser(p, u, a, ok)
    BY <1>3
  <2>2. [mem[p] EXCEPT ![u] = Hashed(a, ok)] \in Map
    BY <1>1, MapFacts
  <2>3. Plain([mem[p] EXCEPT ![u] = Hashed(a, ok)]) = [Plain(mem[p]) EXCEPT ![u] = a]
    BY <1>1, HashedPlain
  <2>4. Makes(Accounts!AddCmd(u, a), Plain(mem[p]), Plain([mem[p] EXCEPT ![u] = Hashed(a, ok)]))
    BY <2>3, Zenon DEF Makes
  <2>5. QED BY <1>2, <2>1, <2>2, <2>4 DEF AddUser, InCommand
<1>4. CASE \E u \in User : RemoveUser(p, u)
  <2>1. PICK u \in User : RemoveUser(p, u)
    BY <1>4
  <2>2. [mem[p] EXCEPT ![u] = NoAccount] \in Map
    BY <1>1, MapFacts
  <2>3. Makes(Accounts!RemoveCmd(u), Plain(mem[p]), Plain([mem[p] EXCEPT ![u] = NoAccount]))
    BY <1>1, <2>1, PlainFacts DEF Makes, RemoveUser
  <2>4. QED BY <1>2, <2>1, <2>2, <2>3 DEF RemoveUser, InCommand
<1>5. ASSUME NEW u \in User, mem[p][u] # NoAccount
      PROVE  mem[p][u] \in Stored
             /\ Plain(mem[p])[u] = [secret |-> mem[p][u].secret, attr |-> mem[p][u].attr]
  BY <1>1, <1>5, MapFacts DEF Plain
<1>6. CASE \E u \in User, s \in Secret : SetPassword(p, u, s)
  <2>1. PICK u \in User, s \in Secret : SetPassword(p, u, s)
    BY <1>6
  <2> DEFINE new == [secret |-> s, attr |-> mem[p][u].attr, hashed |-> TRUE]
             n == [mem[p] EXCEPT ![u] = new]
  <2>2. mem[p][u] # NoAccount /\ new \in Stored
    BY <1>5, <2>1 DEF SetPassword, Stored
  <2>3. n \in Map
    BY <1>1, <2>2, MapFacts
  <2>4. \A st \in Stored : Plain([mem[p] EXCEPT ![u] = st])
                             = [Plain(mem[p]) EXCEPT ![u] = [secret |-> st.secret, attr |-> st.attr]]
    BY <1>1, PlainFacts
  <2>5. Plain(n) = [Plain(mem[p]) EXCEPT ![u] = [secret |-> s, attr |-> mem[p][u].attr]]
    <3>1. new.secret = s /\ new.attr = mem[p][u].attr
      OBVIOUS
    <3> HIDE DEF new
    <3>2. QED BY <2>2, <2>4, <3>1
  <2>6. [secret |-> s, attr |-> mem[p][u].attr] = [Plain(mem[p])[u] EXCEPT !.secret = s]
    <3>1. Plain(mem[p])[u] = [secret |-> mem[p][u].secret, attr |-> mem[p][u].attr]
      BY <1>5, <2>2
    <3>2. QED BY <3>1, RecordFacts
  <2>7. Plain(n) = [Plain(mem[p]) EXCEPT ![u].secret = s] /\ Plain(mem[p])[u] # NoAccount
    BY <1>1, <2>2, <2>5, <2>6, PlainFacts
  <2>8. Makes(Accounts!PasswordCmd(u, s), Plain(mem[p]), Plain(n))
    BY <2>7 DEF Makes
  <2>9. QED BY <1>2, <2>1, <2>3, <2>8 DEF SetPassword, InCommand
<1>7. CASE \E u \in User, a \in Attr : ModifyUser(p, u, a)
  <2>1. PICK u \in User, a \in Attr : ModifyUser(p, u, a)
    BY <1>7
  <2> DEFINE new == [mem[p][u] EXCEPT !.attr = a]
             n == [mem[p] EXCEPT ![u] = new]
  <2>2. mem[p][u] # NoAccount /\ new \in Stored
        /\ new.secret = mem[p][u].secret /\ new.attr = a
    BY <1>5, <2>1 DEF ModifyUser, Stored
  <2>3. n \in Map
    BY <1>1, <2>2, MapFacts
  <2>4. \A st \in Stored : Plain([mem[p] EXCEPT ![u] = st])
                             = [Plain(mem[p]) EXCEPT ![u] = [secret |-> st.secret, attr |-> st.attr]]
    BY <1>1, PlainFacts
  <2>5. Plain(n) = [Plain(mem[p]) EXCEPT ![u] = [secret |-> mem[p][u].secret, attr |-> a]]
    <3> HIDE DEF new
    <3>1. QED BY <2>2, <2>4
  <2>6. [secret |-> mem[p][u].secret, attr |-> a] = [Plain(mem[p])[u] EXCEPT !.attr = a]
    <3>1. Plain(mem[p])[u] = [secret |-> mem[p][u].secret, attr |-> mem[p][u].attr]
      BY <1>5, <2>2
    <3>2. QED BY <3>1, RecordFacts
  <2>7. Plain(n) = [Plain(mem[p]) EXCEPT ![u].attr = a] /\ Plain(mem[p])[u] # NoAccount
    BY <1>1, <2>2, <2>5, <2>6, PlainFacts
  <2>8. Makes(Accounts!ModifyCmd(u, a), Plain(mem[p]), Plain(n))
    BY <2>7 DEF Makes
  <2>9. n = [mem[p] EXCEPT ![u].attr = a]
    OBVIOUS
  <2>10. QED BY <1>2, <2>1, <2>3, <2>8, <2>9 DEF ModifyUser, InCommand
<1>8. ASSUME NEW u \in {Test, Anonymous}, NEW a, a = (IF u = Test THEN TestAccount ELSE AnonymousAccount),
             NEW ok \in BOOLEAN, p \in Daemon, AddDefault(p, u, a, ok),
             u \notin Pending(p), Test = u => m = Nobody,
             Anonymous = u => AllowAnonymous /\ m[Anonymous] = NoAccount
      PROVE  Goal
  <2> DEFINE n == [mem[p] EXCEPT ![u] = Hashed(a, ok)]
             us == Pending(p) \cup {u}
  <2>1. u \in User /\ a \in Accounts!Account
    BY <1>8, DefaultsAreAccounts DEF Accounts!Account
  <2>2. n \in Map /\ Plain(n) = [Plain(mem[p]) EXCEPT ![u] = a]
    BY <1>1, <2>1, MapFacts, HashedPlain
  <2>3. Known(base[p]) \in Map
    BY MapFacts DEF Known, TypeInv, TypeOK
  <2>4. m \in AccountMap
    BY <2>3, PlainFacts
  <2>5. Plain(n) = [v \in User |-> IF v \notin us THEN m[v]
                                   ELSE IF v = Test THEN TestAccount ELSE AnonymousAccount]
    <3>1. Plain(mem[p]) = [v \in User |-> IF v \notin Pending(p) THEN m[v]
                                   ELSE IF v = Test THEN TestAccount ELSE AnonymousAccount]
      BY <1>1, <1>8, <2>4, DefaultsMade
    <3> HIDE DEF m, n
    <3>2. [Plain(mem[p]) EXCEPT ![u] = a] =
            [v \in User |-> IF v \notin us THEN m[v]
                            ELSE IF v = Test THEN TestAccount ELSE AnonymousAccount]
      BY <1>8, <2>1, <3>1
    <3>3. QED BY <2>2, <3>2
  <2>6. us \in SUBSET {Test, Anonymous} /\ (Test \in us => m = Nobody)
        /\ (Anonymous \in us => AllowAnonymous /\ m[Anonymous] = NoAccount)
    BY <1>1, <1>8, DefaultsMade
  <2>7. Makes(Accounts!DefaultCmd(us), m, Plain(n))
    BY <2>5, <2>6 DEF Makes
  <2>8. QED BY <1>2, <1>8, <2>2, <2>7 DEF AddDefault
<1>9. CASE \E ok \in BOOLEAN : AddTest(p, ok)
  <2>1. PICK ok \in BOOLEAN : AddTest(p, ok)
    BY <1>9
  <2>2. p \in Daemon /\ Plain(mem[p]) = Nobody
    BY <2>1, PlainFacts DEF AddTest, InConnection
  <2>3. m \in AccountMap
    BY MapFacts, PlainFacts DEF Known, TypeInv, TypeOK
  <2>4. {Test, Anonymous} \subseteq User /\ TestAccount # NoAccount /\ AnonymousAccount # NoAccount
    BY DefaultsAreAccounts, NoAccountIsNone
  <2>5. Pending(p) = {}
    <3>1. \A v \in User : Plain(mem[p])[v] = NoAccount
      BY <2>2 DEF Nobody
    <3>2. QED BY <1>1, <2>2, <2>3, <2>4, <3>1, DefaultsMade
  <2>6. m = Nobody
    BY <1>1, <2>2, <2>3, <2>5, DefaultsMade DEF AccountMap, Nobody
  <2>7. QED BY <1>8, <2>1, <2>2, <2>5, <2>6, DefaultsAreAccounts DEF AddTest
<1>10. CASE \E ok \in BOOLEAN : AddAnonymous(p, ok)
  <2>1. PICK ok \in BOOLEAN : AddAnonymous(p, ok)
    BY <1>10
  <2>2. p \in Daemon /\ AllowAnonymous /\ Plain(mem[p])[Anonymous] = NoAccount
    BY <1>1, <2>1, PlainFacts, DefaultsAreAccounts DEF AddAnonymous, InConnection, LacksAnonymous
  <2>3. m \in AccountMap
    BY MapFacts, PlainFacts DEF Known, TypeInv, TypeOK
  <2>4. Anonymous \in User /\ Anonymous # Test /\ AnonymousAccount # NoAccount
    BY DefaultsAreAccounts, NoAccountIsNone
  <2>5. Anonymous \notin Pending(p) /\ m[Anonymous] = NoAccount
    BY <1>1, <2>2, <2>3, <2>4, DefaultsMade
  <2>6. QED BY <1>8, <2>1, <2>2, <2>4, <2>5 DEF AddAnonymous
<1>11. ASSUME Load(p) \/ Open(p) \/ Write(p) \/ OpenFails(p) \/ WriteFails(p) \/ Crash(p)
              \/ Leave(p) \/ Ready(p)
       PROVE  FALSE
  BY <1>11 DEF Load, Open, Write, OpenFails, WriteFails, Crash, Leave, Ready, Forget, TypeInv, TypeOK
<1>12. QED BY <1>3, <1>4, <1>6, <1>7, <1>9, <1>10, <1>11 DEF Step

LEMMA StepStore ==
    ASSUME TypeInv, StoreInv, NEW p \in Proc, Step(p)
    PROVE  StoreInv'
<1> USE DEF TypeInv, TypeOK
<1> DEFINE MemInv == \A q \in Proc : at[q] # "idle" =>
                       Turns(todo[q], Plain(Known(base[q])), Plain(mem[q]))
           FileInv == ~disturbed =>
             /\ file # Broken => content = Known(file)
             /\ \A q \in Proc : at[q] = "write" =>
                  file = Broken /\ Turns(todo[q], Plain(content), Plain(mem[q]))
             /\ \A q, r \in Proc : at[q] = "write" /\ at[r] = "write" => q = r
\* A process that stops, or keeps all but its place, leaves the rest alone.
<1>1. ASSUME \/ Forget(p)
             \/ /\ at[p] \in {"open", "write"} /\ at' = [at EXCEPT ![p] = "run"]
                /\ mem' = mem /\ todo' = todo /\ base' = base,
             UNCHANGED <<file, content, disturbed>>
      PROVE  StoreInv'
  <2>1. \A q \in Proc : \/ at'[q] = "idle"
                        \/ /\ at[q] # "idle" /\ at'[q] \in {at[q], "run"}
                           /\ mem'[q] = mem[q] /\ todo'[q] = todo[q] /\ base'[q] = base[q]
    BY <1>1 DEF Forget
  <2>2. QED BY <1>1, <2>1 DEF StoreInv
<1>2. CASE Load(p)
  <2>1. PICK bad \in SUBSET User : mem'[p] = Read(bad)
    BY <1>2 DEF Load
  <2>2. Found = Known(file)
    BY DEF Found, Known
  <2>3. /\ at'[p] \in {"run", "open"} /\ base'[p] = file /\ todo'[p] = NoCmd
        /\ \A q \in Proc \ {p} : /\ at'[q] = at[q] /\ mem'[q] = mem[q]
                                 /\ todo'[q] = todo[q] /\ base'[q] = base[q]
        /\ UNCHANGED <<file, content, disturbed>>
    BY <1>2 DEF Load, NoCmd
  <2>4. Turns(todo'[p], Plain(Known(base'[p])), Plain(mem'[p]))
    BY <2>1, <2>2, <2>3, ReadPlain DEF Turns
  <2>5. QED BY <2>3, <2>4 DEF StoreInv
<1>3. CASE Open(p)
  <2>1. /\ at[p] = "open" /\ at' = [at EXCEPT ![p] = "write"] /\ file' = Broken
        /\ UNCHANGED <<mem, todo, base, content>>
        /\ ~disturbed' => ~disturbed /\ file # Broken /\ file = base[p]
    BY <1>3 DEF Open
  <2>2. MemInv'
    BY <2>1 DEF StoreInv
  <2>3. ASSUME ~disturbed'
        PROVE  /\ Turns(todo[p], Plain(content), Plain(mem[p]))
               /\ \A q \in Proc : at[q] # "write"
    BY <2>1, <2>3 DEF StoreInv
  <2>4. FileInv'
    BY <2>1, <2>3
  <2>5. QED BY <2>2, <2>4 DEF StoreInv
<1>4. CASE Write(p)
  <2>1. /\ at[p] = "write" /\ at'[p] \in {"idle", "run"} /\ file' = mem[p] /\ content' = mem[p]
        /\ \A q \in Proc \ {p} : /\ at'[q] = at[q] /\ mem'[q] = mem[q]
                                 /\ todo'[q] = todo[q] /\ base'[q] = base[q]
        /\ at'[p] = "run" => base'[p] = mem[p] /\ mem'[p] = mem[p] /\ todo'[p] = NoCmd
        /\ disturbed' = disturbed
    BY <1>4, SavedCases DEF Write, NoCmd
  <2>2. mem[p] # Broken /\ Known(mem[p]) = mem[p]
    BY FilesDiffer DEF Known
  <2>3. MemInv'
    BY <2>1, <2>2 DEF StoreInv, Turns
  <2>4. ~disturbed => \A q \in Proc : at'[q] # "write"
    BY <2>1 DEF StoreInv
  <2>5. FileInv'
    BY <2>1, <2>2, <2>4
  <2>6. QED BY <2>3, <2>5 DEF StoreInv
<1>5. CASE OpenFails(p)
  BY <1>1, <1>5, UnsavedCases DEF OpenFails
<1>6. CASE WriteFails(p)
  BY <1>1, <1>6, UnsavedCases DEF WriteFails
<1>7. CASE Crash(p)
  BY <1>1, <1>7 DEF Crash
<1>8. CASE /\ at[p] = "run"
           /\ UNCHANGED <<file, runs, content, last, disturbed, torn, overlapped>>
           /\ \/ Forget(p)
              \/ at' = [at EXCEPT ![p] = "open"] /\ base' = base
  <2>1. CASE Forget(p)
    BY <1>1, <1>8, <2>1
  <2>2. CASE at'[p] # "idle"
    BY <1>8, <2>2, RunMakes DEF StoreInv
  <2>3. QED BY <1>8, <2>1, <2>2
<1>9. QED BY <1>2, <1>3, <1>4, <1>5, <1>6, <1>7, <1>8, RunSteps

LEMMA InitStore == Init => StoreInv
<1>1. ASSUME Init PROVE StoreInv
  <2>1. file \in Map \cup {Missing} /\ content = Known(file)
    BY <1>1, FirstFileParses, FilesDiffer DEF Init, Known
  <2>2. \A p \in Proc : at[p] = "idle"
    BY <1>1 DEF Init
  <2>3. QED BY <2>1, <2>2 DEF StoreInv
<1>2. QED BY <1>1

\* A write carries out the command of its process; nothing else changes the accounts.
LEMMA StepImplements ==
    ASSUME TypeInv, StoreInv, NEW p \in Proc, Step(p)
    PROVE  Accounts!Next \/ UNCHANGED <<Plain(content), last, disturbed>>
<1>1. CASE disturbed'
  BY <1>1 DEF Accounts!Next
<1>2. CASE Write(p) /\ ~disturbed'
  <2>1. /\ Turns(todo[p], Plain(content), Plain(content')) /\ disturbed' = disturbed
        /\ last' = IF todo[p] = NoCmd THEN last ELSE todo[p]
    BY <1>2 DEF Write, StoreInv, NoCmd
  <2>2. CASE todo[p] = NoCmd
    BY <2>1, <2>2, NothingMakes DEF Turns
  <2>3. CASE todo[p] # NoCmd
    <3>1. Makes(last', Plain(content), Plain(content')) /\ disturbed' = disturbed
      BY <2>1, <2>3 DEF Turns
    <3>2. Plain(content') = Plain(content)'
      OBVIOUS
    <3>3. Accounts!Command
      BY <3>1, <3>2 DEF Makes, Accounts!Command, Accounts!Add, Accounts!Remove, Accounts!Password,
                        Accounts!Modify, Accounts!Default, Accounts!Nobody, Nobody
    <3>4. QED BY <3>1, <3>3 DEF Accounts!Next
  <2>4. QED BY <2>2, <2>3
<1>3. CASE ~Write(p) /\ ~disturbed'
  <2>1. UNCHANGED <<content, last, disturbed>>
    BY <1>3, RunSteps, UnsavedCases DEF Load, Open, OpenFails, WriteFails, Crash, TypeInv, TypeOK
  <2>2. QED BY <2>1 DEF Plain
<1>4. QED BY <1>1, <1>2, <1>3

\* Loading, hashing, changing and saving amount to one command after the other on
\* a map of accounts, until a save is stale (FTPUserManager and its users).
THEOREM StoreImplementsAccounts == Spec => ActsAsAccounts
<1>1. Init => Accounts!Init
  <2>1. ASSUME Init PROVE Accounts!Init
    <3>1. Plain(content) \in AccountMap
      BY <2>1, InitType, PlainFacts DEF TypeInv, TypeOK
    <3>2. QED BY <2>1, <3>1 DEF Accounts!Init, AccountMap, Init
  <2>2. QED BY <2>1
<1>2. TypeInv /\ StoreInv /\ [Next]_vars => TypeInv' /\ StoreInv'
  <2>1. ASSUME TypeInv, StoreInv, UNCHANGED vars PROVE TypeInv' /\ StoreInv'
    BY <2>1 DEF vars, TypeInv, TypeOK, TodoInv, StoreInv
  <2>2. QED BY <2>1, StepType, StepStore DEF Next, Terminated
<1>3. TypeInv /\ StoreInv /\ [Next]_vars => [Accounts!Next]_<<Plain(content), last, disturbed>>
  <2>1. ASSUME UNCHANGED vars PROVE UNCHANGED <<Plain(content), last, disturbed>>
    BY <2>1 DEF vars, Plain
  <2>2. QED BY <2>1, StepImplements DEF Next, Terminated
<1>4. QED BY <1>1, <1>2, <1>3, InitType, InitStore, PTL DEF Spec, ActsAsAccounts, Accounts!Spec
================================================================================
