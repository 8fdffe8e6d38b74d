---------------------------- MODULE FtpFilesProofs ----------------------------
(***************************************************************************)
(* Theorems about FtpFiles for every tree, every set of accounts, hosts,   *)
(* grants and arguments.                                                   *)
(*                                                                         *)
(* What the checks of a command have found must still be true of the       *)
(* identity in force when the command acts: for a transfer after its wait, *)
(* for a rename also of what RNFR found, whoever has logged in since.      *)
(***************************************************************************)
EXTENDS FtpFiles, SequenceTheorems, WellFoundedInduction, TLAPS

\* A path that validatePath() accepts for the account a and the host h.
Inside(p, a, h) ==
    /\ a \in Account
    /\ Within(p, HomeOf[a])
    /\ h \in Host => Within(p, RootOf[h])

\* The operation that a waiting command was checked for; listings of LIST are
\* checked against another path.
OpOf(op) ==
    CASE op \in {"stor", "stou", "appe", "rnto"} -> "write"
      [] op = "retr" -> "read"
      [] op = "mlsd" -> "list"
      [] OTHER -> "look"

Kinds == Transfer \cup {"rnto"}

TypeInv ==
    /\ user \in Account \cup {NoAccount}
    /\ name \in Name \cup {NoName}
    /\ authenticated \in BOOLEAN /\ moved \in BOOLEAN

\* A command that waits to act was checked for what it will do; SIZE for nothing.
JobInv ==
    /\ job \in [op : Kinds \cup {"size", "none"}, path : Path, raced : BOOLEAN]
    /\ job.op \in Kinds =>
           /\ Inside(job.path, user, host)
           /\ OpOf(job.op) # "look" => Granted(user, OpOf(job.op), job.path)
           /\ job.op = "rnto" => renameFrom # NoSource

\* The source of a rename was checked for whoever sent RNFR.
RenameInv ==
    renameFrom # NoSource =>
        /\ Inside(renameFrom.path, renameFrom.user, renameFrom.host)
        /\ Granted(renameFrom.user, "write", renameFrom.path)

\* A refused PASS after an accepted one asks for the same account again.
LoginInv ==
    authenticated /\ ~moved =>
        /\ loginAs = GetUser
        /\ user = loginAs
        /\ user \in Account
        /\ Within(cwd, HomeOf[user])

FilesInv == TypeInv /\ JobInv /\ RenameInv /\ LoginInv /\ Confined

-------------------------------------------------------------------------------
LEMMA FoundUser == GetUser \in Account \cup {NoAccount}
<1> DEFINE manager == IF \E a \in Account : HostOf[a] = host THEN host ELSE NoHost
           found == {a \in Account : NameOf[a] = name /\ HostOf[a] = manager}
<1>1. CASE found = {}
  BY <1>1 DEF GetUser
<1>2. CASE found # {}
  <2>1. PICK a \in found : TRUE
    BY <1>2
  <2>2. (CHOOSE b \in found : TRUE) \in found
    BY <2>1
  <2> QED
    BY <1>2, <2>2 DEF GetUser
<1> QED
  BY <1>1, <1>2

LEMMA SameUser == ASSUME name' = name, host' = host PROVE GetUser' = GetUser
BY DEF GetUser

LEMMA HomeIsInside == ASSUME NEW a \in Account PROVE Within(HomeOf[a], HomeOf[a])
<1>1. HomeOf[a] \in Seq(Range(HomeOf[a]))
  BY AccountsAreDescribed, PathsAreSequences
<1>2. Len(HomeOf[a]) \in Nat
  BY <1>1
<1> QED
  BY <1>2 DEF Within, IsPrefix

\* What the two checks of a command that writes have found.
LEMMA CheckedToWrite ==
  ASSUME TypeInv, NEW arg, MayWrite(arg)
  PROVE  Inside(Resolve(arg), user, host) /\ Granted(user, "write", Resolve(arg))
BY AccountsAreDescribed DEF MayWrite, HasPermission, Valid, Inside, TypeInv

LEMMA CheckedToLook ==
  ASSUME TypeInv, NEW p, Valid(p)
  PROVE  Inside(p, user, host)
BY AccountsAreDescribed DEF Valid, Inside, TypeInv

\* Steps that leave the identity and the name given by RNFR alone.
LEMMA Acting ==
  ASSUME FilesInv, UNCHANGED <<identity, renameFrom>>,
         cwd' = cwd \/ Valid(cwd'),
         JobInv', Confined'
  PROVE  FilesInv'
<1>1. TypeInv' /\ RenameInv'
  BY DEF FilesInv, TypeInv, RenameInv, identity, Inside, Granted, Within
<1>2. LoginInv'
  <2>1. GetUser' = GetUser
    BY SameUser DEF identity
  <2> QED
    BY <2>1 DEF FilesInv, LoginInv, identity, Valid
<1> QED
  BY <1>1, <1>2 DEF FilesInv

\* What was checked for whoever made an access is what Confined asks for.
LEMMA InsideAllows ==
  ASSUME NEW t, NEW op, NEW p, Inside(p, t.user, t.host),
         op \in {"write", "read", "list"} => Granted(t.user, op, p)
  PROVE  Allows(t, op, p)
BY DEF Allows, Inside, Within

LEMMA AllAllowed ==
  ASSUME \A t \in touched' :
             \/ t.op = "size"
             \/ t.op = "make" /\ \E p \in Path : IsStrictPrefix(t.path, p) /\ Allows(t, "write", p)
             \/ t.op \notin {"size", "make"} /\ Allows(t, t.op, t.path)
  PROVE  Confined'
BY DEF Confined, Allows, Granted, Within

\* One access, checked or of SIZE, which leaves the command as it is.
LEMMA AccessKeepsInv ==
  ASSUME FilesInv, UNCHANGED <<identity, renameFrom, job, cwd>>,
         NEW op, NEW p, touched' = {Access(op, p)},
         op = "size" \/ Inside(p, user, host),
         op \in {"size", "look"} \/ (op \in {"write", "read", "list"} /\ Granted(user, op, p))
  PROVE  FilesInv'
<1>1. JobInv'
  BY DEF FilesInv, JobInv, identity, Inside, Granted, Within
<1>2. ASSUME NEW t \in touched'
      PROVE  t.op = "size" \/ (t.op \notin {"size", "make"} /\ Allows(t, t.op, t.path))
  <2>1. t.op = op /\ t.path = p /\ t.user = user /\ t.host = host
    BY <1>2 DEF Access
  <2>2. CASE op # "size"
    <3>1. op \notin {"size", "make"}
      BY <2>2
    <3>2. Inside(p, t.user, t.host)
      BY <2>1, <2>2
    <3>3. op \in {"write", "read", "list"} => Granted(t.user, op, p)
      BY <2>1
    <3>4. Allows(t, op, p)
      BY <3>2, <3>3, InsideAllows
    <3> QED
      BY <2>1, <3>1, <3>4
  <2> QED
    BY <2>1, <2>2
<1>3. Confined'
  BY <1>2, AllAllowed
<1> QED
  BY <1>1, <1>3, Acting

LEMMA ThrowKeepsInv ==
  ASSUME FilesInv, NEW op, NEW p, Throw(op, p),
         op = "size" \/ Inside(p, user, host),
         op \in {"size", "look"} \/ (op \in {"write", "read", "list"} /\ Granted(user, op, p))
  PROVE  FilesInv'
BY AccessKeepsInv DEF Throw

LEMMA InitFiles == Init => FilesInv
<1> SUFFICES ASSUME Init PROVE FilesInv
  OBVIOUS
<1>1. TypeInv /\ RenameInv /\ LoginInv /\ Confined
  BY DEF Init, TypeInv, RenameInv, LoginInv, Confined
<1>2. JobInv
  BY PathsAreATree DEF Init, JobInv, Idle, Kinds, Transfer
<1> QED
  BY <1>1, <1>2 DEF FilesInv

\* USER, PASS, HOST and the next session: nothing is under way.
LEMMA LoginKeepsInv ==
  ASSUME FilesInv,
         \/ \E n \in Name : HandleUSER(n)
         \/ RefusePASS
         \/ AcceptPASS
         \/ \E h \in Host : HandleHOST(h)
         \/ Reconnect
  PROVE  FilesInv'
<1> USE DEF FilesInv, Untouched, Ready
<1>1. JobInv' /\ Confined'
  <2>1. job' = Idle /\ touched' = {}
    BY DEF HandleUSER, RefusePASS, AcceptPASS, HandleHOST, Reconnect
  <2> QED
    BY <2>1, PathsAreATree DEF JobInv, Confined, Idle, Kinds, Transfer
<1>2. RenameInv'
  <2>1. renameFrom' \in {renameFrom, NoSource}
    BY DEF HandleUSER, RefusePASS, AcceptPASS, HandleHOST, Reconnect
  <2> QED
    BY <2>1 DEF RenameInv, Inside, Granted, Within
<1>3. TypeInv' /\ LoginInv'
  <2>1. CASE \E n \in Name : HandleUSER(n)
    BY <2>1 DEF HandleUSER, TypeInv, LoginInv
  <2>2. CASE RefusePASS
    <3>1. GetUser' = GetUser
      BY <2>2, SameUser DEF RefusePASS
    <3> QED
      BY <2>2, <3>1, FoundUser DEF RefusePASS, TypeInv, LoginInv
  <2>3. CASE AcceptPASS
    <3>1. GetUser' = GetUser /\ GetUser \in Account
      BY <2>3, SameUser, FoundUser DEF AcceptPASS
    <3>2. Within(cwd', HomeOf[GetUser])
      BY <2>3, <3>1, HomeIsInside DEF AcceptPASS
    <3> QED
      BY <2>3, <3>1, <3>2 DEF AcceptPASS, TypeInv, LoginInv
  <2>4. CASE \E h \in Host : HandleHOST(h)
    <3>1. /\ moved' = authenticated /\ authenticated' = authenticated
          /\ user' = user /\ name' = name
      BY <2>4 DEF HandleHOST
    <3> QED
      BY <3>1 DEF TypeInv, LoginInv
  <2>5. CASE Reconnect
    BY <2>5 DEF Reconnect, TypeInv, LoginInv
  <2> QED
    BY <2>1, <2>2, <2>3, <2>4, <2>5
<1> QED
  BY <1>1, <1>2, <1>3

\* Others change the tree; a command that waits is what it was.
LEMMA OtherKeepsInv ==
  ASSUME FilesInv, NEW p \in Foreign, Other(p)
  PROVE  FilesInv'
<1>1. /\ UNCHANGED <<identity, renameFrom, cwd>> /\ touched' = {}
      /\ job' = job \/ job' = [job EXCEPT !.raced = @ \/ (job # Idle /\ job.path = p)]
  BY DEF Other
<1>2. JobInv'
  <2>1. CASE job' = job
    BY <1>1, <2>1 DEF FilesInv, JobInv, Inside, Granted, Within, identity
  <2>2. CASE job' # job
    <3>1. /\ job' \in [op : Kinds \cup {"size", "none"}, path : Path, raced : BOOLEAN]
          /\ job'.op = job.op /\ job'.path = job.path
      BY <1>1, <2>2 DEF FilesInv, JobInv
    <3> QED
      BY <1>1, <3>1 DEF FilesInv, JobInv, Inside, Granted, Within, identity
  <2> QED
    BY <2>1, <2>2
<1>3. Confined'
  BY <1>1 DEF Confined
<1> QED
  BY <1>1, <1>2, <1>3, Acting

\* A transfer begins to wait, checked for what it will do.
LEMMA StartKeepsInv ==
  ASSUME FilesInv, NEW op \in Kinds, NEW p, NEW raced \in BOOLEAN,
         Start(op, p, raced), Inside(p, user, host),
         OpOf(op) # "look" => Granted(user, OpOf(op), p),
         op = "rnto" => renameFrom # NoSource
  PROVE  FilesInv'
<1>1. /\ UNCHANGED <<identity, renameFrom, cwd>> /\ touched' = {} /\ p \in Path
      /\ job' = [op |-> op, path |-> p, raced |-> raced]
  BY DEF Start
<1>2. JobInv'
  <2>1. job' \in [op : Kinds \cup {"size", "none"}, path : Path, raced : BOOLEAN]
    BY <1>1
  <2>2. job'.op = op /\ job'.path = p
    BY <1>1
  <2>3. op = "rnto" => renameFrom' # NoSource
    BY <1>1
  <2> QED
    BY <1>1, <2>1, <2>2, <2>3 DEF JobInv, identity, Inside, Granted, Within
<1>3. Confined'
  BY <1>1 DEF Confined
<1> QED
  BY <1>1, <1>2, <1>3, Acting

LEMMA TransfersKeepInv ==
  ASSUME FilesInv,
         HandleSTOU \/ \E arg \in Arg : \/ HandleLIST(arg) \/ HandleMLSD(arg)
                                       \/ HandleRETR(arg) \/ HandleSTOR(arg) \/ HandleAPPE(arg)
  PROVE  FilesInv'
<1>0. TypeInv
  BY DEF FilesInv
<1>1. ASSUME NEW arg, NEW op \in {"stor", "stou", "appe"}, NEW raced \in BOOLEAN,
             MayWrite(arg), Start(op, Resolve(arg), raced)
      PROVE  FilesInv'
  <2>1. op \in Kinds /\ OpOf(op) = "write" /\ op # "rnto"
    BY <1>1 DEF Kinds, Transfer, OpOf
  <2>2. Inside(Resolve(arg), user, host) /\ Granted(user, "write", Resolve(arg))
    BY <1>0, <1>1, CheckedToWrite
  <2> HIDE DEF Resolve
  <2> QED
    BY <1>1, <2>1, <2>2, StartKeepsInv
<1>2. CASE HandleSTOU
  <2>1. \E arg, raced : raced \in BOOLEAN /\ MayWrite(arg) /\ Start("stou", Resolve(arg), raced)
    BY <1>2 DEF HandleSTOU
  <2> QED
    BY <1>1, <2>1
<1>3. ASSUME NEW arg \in Arg, HandleSTOR(arg) \/ HandleAPPE(arg) PROVE FilesInv'
  BY <1>1, <1>3 DEF HandleSTOR, HandleAPPE
<1>4. ASSUME NEW arg \in Arg, HandleLIST(arg) \/ HandleMLSD(arg) \/ HandleRETR(arg)
      PROVE  FilesInv'
  <2>1. PICK op \in {"list", "mlsd", "retr"} :
          /\ \/ Start(op, Resolve(arg), FALSE)
             \/ op = "list" /\ Throw("look", Resolve(arg))
             \/ op = "retr" /\ Throw("read", Resolve(arg))
          /\ Valid(Resolve(arg))
          /\ op = "retr" => Granted(user, "read", Resolve(arg))
          /\ op = "mlsd" => Granted(user, "list", Resolve(arg))
    BY <1>4 DEF HandleLIST, HandleMLSD, HandleRETR, HasPermission
  <2>2. /\ op \in Kinds /\ op # "rnto"
        /\ OpOf(op) = IF op = "list" THEN "look" ELSE IF op = "retr" THEN "read" ELSE "list"
    BY DEF Kinds, Transfer, OpOf
  <2>3. Inside(Resolve(arg), user, host)
    BY <1>0, <2>1, CheckedToLook
  <2> HIDE DEF Resolve
  <2>4. CASE Start(op, Resolve(arg), FALSE)
    BY <2>1, <2>2, <2>3, <2>4, StartKeepsInv
  <2>5. CASE op = "list" /\ Throw("look", Resolve(arg))
    BY <2>3, <2>5, ThrowKeepsInv
  <2>6. CASE op = "retr" /\ Throw("read", Resolve(arg))
    BY <2>1, <2>3, <2>6, ThrowKeepsInv
  <2> QED
    BY <2>1, <2>4, <2>5, <2>6
<1> QED
  BY <1>2, <1>3, <1>4

\* Commands that act when they are checked, and a refused one.
LEMMA CommandsKeepInv ==
  ASSUME FilesInv,
         HandleCDUP \/ \E arg \in Arg :
             \/ HandleCWD(arg) \/ HandleMLST(arg) \/ HandleSIZE(arg) \/ HandleDELE(arg)
             \/ HandleMKD(arg) \/ HandleRMD(arg) \/ HandleCHMOD(arg)
  PROVE  FilesInv'
<1>0. TypeInv /\ JobInv
  BY DEF FilesInv
<1>1. ASSUME UNCHANGED <<identity, renameFrom, job>>, touched' = {},
             cwd' = cwd \/ Valid(cwd')
      PROVE  FilesInv'
  <2>1. JobInv'
    BY <1>0, <1>1 DEF JobInv, identity, Inside, Granted, Within
  <2> QED
    BY <1>1, <2>1, Acting DEF Confined
<1>2. ASSUME NEW p, Valid(p), ChangeTo(p) PROVE FilesInv'
  BY <1>1, <1>2 DEF ChangeTo, Untouched
<1>3. CASE HandleCDUP
  BY <1>2, <1>3 DEF HandleCDUP
<1>4. ASSUME NEW arg \in Arg, HandleCWD(arg) \/ HandleMLST(arg) PROVE FilesInv'
  <2>1. Valid(Resolve(arg)) /\ Inside(Resolve(arg), user, host)
    BY <1>0, <1>4, CheckedToLook DEF HandleCWD, HandleMLST
  <2>2. \/ ChangeTo(Resolve(arg)) \/ Throw("look", Resolve(arg)) \/ Look("look", Resolve(arg))
    BY <1>4 DEF HandleCWD, HandleMLST
  <2> HIDE DEF Resolve
  <2>3. Look("look", Resolve(arg)) => FilesInv'
    BY <2>1, AccessKeepsInv DEF Look
  <2> QED
    BY <1>2, <2>1, <2>2, <2>3, ThrowKeepsInv
<1>5. ASSUME NEW arg \in Arg, HandleSIZE(arg) PROVE FilesInv'
  <2>1. Start("size", Resolve(arg), FALSE) \/ Throw("size", Resolve(arg))
    BY <1>5 DEF HandleSIZE
  <2> HIDE DEF Resolve
  <2>2. CASE Start("size", Resolve(arg), FALSE)
    <3>1. /\ UNCHANGED <<identity, renameFrom, cwd>> /\ touched' = {} /\ Resolve(arg) \in Path
          /\ job' = [op |-> "size", path |-> Resolve(arg), raced |-> FALSE]
      BY <2>2 DEF Start
    <3>2. JobInv'
      BY <3>1 DEF JobInv, Kinds, Transfer
    <3> QED
      BY <3>1, <3>2, Acting DEF Confined
  <2> QED
    BY <2>1, <2>2, ThrowKeepsInv
<1>6. ASSUME NEW arg \in Arg,
             HandleDELE(arg) \/ HandleMKD(arg) \/ HandleRMD(arg) \/ HandleCHMOD(arg)
      PROVE  FilesInv'
  <2>1. MayWrite(arg)
    BY <1>6 DEF HandleDELE, HandleMKD, HandleRMD, HandleCHMOD
  <2>2. Inside(Resolve(arg), user, host) /\ Granted(user, "write", Resolve(arg))
    BY <1>0, <2>1, CheckedToWrite
  <2>3. (\E what : Write(Resolve(arg), what)) \/ Throw("write", Resolve(arg))
    BY <1>6 DEF HandleDELE, HandleMKD, HandleRMD, HandleCHMOD
  <2> HIDE DEF Resolve
  <2>4. ASSUME NEW what, Write(Resolve(arg), what) PROVE FilesInv'
    BY <2>2, <2>4, AccessKeepsInv DEF Write
  <2>5. Throw("write", Resolve(arg)) => FilesInv'
    BY <2>2, ThrowKeepsInv
  <2> QED
    BY <2>3, <2>4, <2>5
<1> QED
  BY <1>3, <1>4, <1>5, <1>6

\* RNFR and the test of RNTO.
LEMMA RenamingKeepsInv ==
  ASSUME FilesInv, NEW arg \in Arg, HandleRNFR(arg) \/ HandleRNTO(arg)
  PROVE  FilesInv'
<1>0. TypeInv /\ JobInv /\ RenameInv /\ LoginInv
  BY DEF FilesInv
<1>1. CASE Throw("write", Resolve(arg)) /\ MayWrite(arg)
  <2>1. Inside(Resolve(arg), user, host) /\ Granted(user, "write", Resolve(arg))
    BY <1>0, <1>1, CheckedToWrite
  <2> HIDE DEF Resolve
  <2> QED
    BY <1>1, <2>1, ThrowKeepsInv
<1>2. CASE HandleRNTO(arg) /\ Start("rnto", Resolve(arg), FALSE) /\ MayWrite(arg)
  <2>1. Inside(Resolve(arg), user, host) /\ Granted(user, "write", Resolve(arg))
    BY <1>0, <1>2, CheckedToWrite
  <2>2. OpOf("rnto") = "write" /\ "rnto" \in Kinds /\ renameFrom # NoSource
    BY <1>2 DEF OpOf, Kinds, HandleRNTO
  <2> HIDE DEF Resolve
  <2> QED
    BY <1>2, <2>1, <2>2, StartKeepsInv
<1>3. ASSUME UNCHANGED <<identity, cwd, job>>, touched' = {}, job = Idle, RenameInv'
      PROVE  FilesInv'
  <2>1. GetUser' = GetUser
    BY <1>3, SameUser DEF identity
  <2>2. LoginInv'
    BY <1>0, <1>3, <2>1 DEF LoginInv, identity
  <2>3. JobInv'
    BY <1>0, <1>3 DEF JobInv, Idle, Kinds, Transfer
  <2> QED
    BY <1>0, <1>3, <2>2, <2>3 DEF FilesInv, TypeInv, Confined, identity
<1>4. CASE HandleRNFR(arg) /\ ~Throw("write", Resolve(arg))
  <2>1. /\ renameFrom' = [path |-> Resolve(arg), user |-> user, host |-> host]
        /\ MayWrite(arg) /\ UNCHANGED <<identity, cwd, job>> /\ touched' = {} /\ job = Idle
    BY <1>4 DEF HandleRNFR, LoggedIn, Ready
  <2>2. RenameInv'
    <3>1. /\ renameFrom'.path = Resolve(arg) /\ renameFrom'.user = user
          /\ renameFrom'.host = host
      BY <2>1
    <3>2. Inside(Resolve(arg), user, host) /\ Granted(user, "write", Resolve(arg))
      BY <1>0, <2>1, CheckedToWrite
    <3> HIDE DEF Resolve
    <3>3. Inside(renameFrom'.path, renameFrom'.user, renameFrom'.host)
      BY <3>1, <3>2
    <3>4. Granted(renameFrom'.user, "write", renameFrom'.path)
      BY <3>1, <3>2
    <3> QED
      BY <3>3, <3>4 DEF RenameInv, Inside, Granted, Within
  <2> QED
    BY <1>3, <2>1, <2>2
<1>5. CASE HandleRNTO(arg) /\ RefuseRNTO
  <2>1. /\ renameFrom' = NoSource
        /\ UNCHANGED <<identity, cwd, job>> /\ touched' = {} /\ job = Idle
    BY <1>5 DEF HandleRNTO, RefuseRNTO, LoggedIn, Ready
  <2>2. RenameInv'
    BY <2>1 DEF RenameInv
  <2> QED
    BY <1>3, <2>1, <2>2
<1>6. HandleRNFR(arg) => MayWrite(arg)
  BY DEF HandleRNFR
<1>7. HandleRNTO(arg) => \/ RefuseRNTO
                         \/ Start("rnto", Resolve(arg), FALSE) /\ MayWrite(arg)
                         \/ Throw("write", Resolve(arg)) /\ MayWrite(arg)
  BY DEF HandleRNTO
<1> QED
  BY <1>1, <1>2, <1>4, <1>5, <1>6, <1>7

\* The second half of SIZE, of RNTO and of the transfers: but for SIZE, they touch
\* what was checked, and what Store makes is on the way there.
LEMMA ActingStepsKeepInv ==
  ASSUME FilesInv,
         \/ Rename \/ Size \/ NoData \/ List \/ ListMachine \/ Retrieve \/ Store \/ AppendTo
  PROVE  FilesInv'
<1>0. TypeInv /\ JobInv /\ RenameInv /\ LoginInv
  BY DEF FilesInv
<1>1. job' = Idle => JobInv'
  BY PathsAreATree DEF JobInv, Idle, Kinds, Transfer
<1>2. ASSUME NEW accesses, Done(accesses), Confined' PROVE FilesInv'
  BY <1>0, <1>1, <1>2, Acting DEF Done
<1>3. ASSUME NEW op \in {"size", "look", "read", "write", "list"},
             op = "size" \/ job.op \in Kinds, op \in {"size", "look"} \/ op = OpOf(job.op),
             NEW t, t = Access(op, job.path)
      PROVE  t.op = "size" \/ (t.op \notin {"size", "make"} /\ Allows(t, t.op, t.path))
  <2>1. t.op = op /\ t.path = job.path /\ t.user = user /\ t.host = host
    BY <1>3 DEF Access
  <2>2. CASE op # "size"
    <3>1. /\ Inside(job.path, t.user, t.host) /\ op \notin {"size", "make"}
          /\ op \in {"write", "read", "list"} => Granted(t.user, op, job.path)
      BY <1>0, <1>3, <2>1, <2>2 DEF JobInv
    <3>2. Allows(t, op, job.path)
      BY <3>1, InsideAllows
    <3> QED
      BY <2>1, <3>1, <3>2
  <2> QED
    BY <2>1, <2>2
<1>4. ASSUME NEW op \in {"size", "look", "read", "write", "list"},
             op = "size" \/ job.op \in Kinds, op \in {"size", "look"} \/ op = OpOf(job.op),
             Done({Access(op, job.path)}) \/ Throw(op, job.path)
      PROVE  FilesInv'
  <2>1. touched' = {Access(op, job.path)}
    BY <1>4 DEF Done, Throw
  <2>2. Confined'
    BY <1>3, <1>4, <2>1, AllAllowed
  <2>3. CASE Throw(op, job.path)
    <3>1. JobInv'
      BY <1>0, <2>3 DEF Throw, JobInv, identity, Inside, Granted, Within
    <3> QED
      BY <2>2, <2>3, <3>1, Acting DEF Throw
  <2> QED
    BY <1>2, <1>4, <2>2, <2>3
<1>5. CASE Rename
  <2>1. /\ UNCHANGED <<identity, cwd>> /\ renameFrom' = NoSource /\ job' = Idle
        /\ job.op = "rnto" /\ job.op \in Kinds /\ OpOf(job.op) = "write"
    BY <1>5 DEF Rename, Kinds, OpOf
  <2>2. /\ Inside(job.path, user, host) /\ Granted(user, "write", job.path)
        /\ Inside(renameFrom.path, renameFrom.user, renameFrom.host)
        /\ Granted(renameFrom.user, "write", renameFrom.path)
    BY <1>0, <2>1 DEF JobInv, RenameInv
  <2>3. ASSUME NEW t \in touched' PROVE t.op = "write" /\ Allows(t, "write", t.path)
    <3>1. \/ /\ t.op = "write" /\ t.path = job.path
             /\ t.user = user /\ t.host = host
          \/ /\ t.op = "write" /\ t.path = renameFrom.path
             /\ t.user = renameFrom.user /\ t.host = renameFrom.host
      BY <1>5, <2>3 DEF Rename, Access
    <3>2. Inside(t.path, t.user, t.host) /\ Granted(t.user, "write", t.path)
      BY <2>2, <3>1
    <3> QED
      BY <3>1, <3>2, InsideAllows
  <2>4. Confined'
    BY <2>3, AllAllowed
  <2>5. JobInv' /\ RenameInv' /\ TypeInv'
    BY <1>0, <1>1, <2>1 DEF RenameInv, TypeInv, identity
  <2>6. LoginInv'
    <3>1. GetUser' = GetUser
      BY <2>1, SameUser DEF identity
    <3> QED
      BY <1>0, <2>1, <3>1 DEF LoginInv, identity
  <2> QED
    BY <2>4, <2>5, <2>6 DEF FilesInv
<1>6. CASE NoData
  BY <1>2, <1>6 DEF NoData, Done, Confined
<1>7. CASE List
  <2>1. /\ job.op \in Kinds
        /\ Done({Access("look", job.path)}) \/ Throw("look", job.path)
    BY <1>7 DEF List, Kinds, Transfer
  <2> QED
    BY <1>4, <2>1
<1>8. CASE ListMachine
  <2>1. job.op \in Kinds /\ OpOf(job.op) = "list" /\ Done({Access("list", job.path)})
    BY <1>8 DEF ListMachine, Kinds, Transfer, OpOf
  <2> QED
    BY <1>4, <2>1
<1>9. CASE Retrieve
  <2>1. job.op \in Kinds /\ OpOf(job.op) = "read" /\ Done({Access("read", job.path)})
    BY <1>9 DEF Retrieve, Kinds, Transfer, OpOf
  <2> QED
    BY <1>4, <2>1
<1>10. CASE Store
  <2> DEFINE makes == {Access("make", q) : q \in {q \in Path : IsStrictPrefix(q, job.path)}}
  <2>1. job.op \in Kinds /\ OpOf(job.op) = "write" /\ job.path \in Path
    BY <1>0, <1>10 DEF Store, Kinds, Transfer, OpOf, JobInv
  <2>2. \/ Throw("write", job.path)
        \/ Done(touched') /\ touched' \subseteq makes \cup {Access("write", job.path)}
    BY <1>10 DEF Store, Done
  <2>3. CASE touched' \subseteq makes \cup {Access("write", job.path)} /\ Done(touched')
    <3>1. ASSUME NEW t \in touched', t # Access("write", job.path)
          PROVE  t.op = "make" /\ IsStrictPrefix(t.path, job.path) /\ Allows(t, "write", job.path)
      <4>1. PICK q \in {q \in Path : IsStrictPrefix(q, job.path)} : t = Access("make", q)
        BY <2>3, <3>1
      <4>2. t.op = "make" /\ t.path = q /\ t.user = user /\ t.host = host
        BY <4>1 DEF Access
      <4>3. Inside(job.path, t.user, t.host) /\ Granted(t.user, "write", job.path)
        BY <1>0, <2>1, <4>2 DEF JobInv
      <4> QED
        BY <4>1, <4>2, <4>3, InsideAllows
    <3>2. Confined'
      BY <1>3, <2>1, <3>1, AllAllowed
    <3> QED
      BY <1>2, <2>3, <3>2
  <2> QED
    BY <1>4, <2>1, <2>2, <2>3
<1>11. CASE AppendTo
  <2>1. /\ job.op \in Kinds /\ OpOf(job.op) = "write"
        /\ Done({Access("write", job.path)}) \/ Throw("write", job.path)
    BY <1>11 DEF AppendTo, Kinds, Transfer, OpOf
  <2> QED
    BY <1>4, <2>1
<1>12. CASE Size
  <2>1. Done({Access("size", job.path)}) \/ Throw("size", job.path)
    BY <1>12 DEF Size
  <2> QED
    BY <1>4, <2>1
<1> QED
  BY <1>5, <1>6, <1>7, <1>8, <1>9, <1>10, <1>11, <1>12

LEMMA StutterKeepsFiles == ASSUME FilesInv, UNCHANGED vars PROVE FilesInv'
<1>1. JobInv' /\ Confined'
  BY DEF FilesInv, vars, identity, JobInv, Confined, Inside, Granted, Within
<1> QED
  BY <1>1, Acting DEF vars

LEMMA NextKeepsFiles == FilesInv /\ [Next]_vars => FilesInv'
<1> SUFFICES ASSUME FilesInv, [Next]_vars PROVE FilesInv'
  OBVIOUS
<1>1. CASE \/ \E n \in Name : HandleUSER(n)
           \/ RefusePASS
           \/ AcceptPASS
           \/ \E h \in Host : HandleHOST(h)
           \/ Reconnect
  BY <1>1, LoginKeepsInv
<1>2. CASE \E p \in Foreign : Other(p)
  BY <1>2, OtherKeepsInv
<1>3. CASE HandleSTOU \/ \E arg \in Arg : \/ HandleLIST(arg) \/ HandleMLSD(arg)
                                         \/ HandleRETR(arg) \/ HandleSTOR(arg)
                                         \/ HandleAPPE(arg)
  BY <1>3, TransfersKeepInv
<1>4. CASE HandleCDUP \/ \E arg \in Arg :
             \/ HandleCWD(arg) \/ HandleMLST(arg) \/ HandleSIZE(arg) \/ HandleDELE(arg)
             \/ HandleMKD(arg) \/ HandleRMD(arg) \/ HandleCHMOD(arg)
  BY <1>4, CommandsKeepInv
<1>5. CASE \E arg \in Arg : HandleRNFR(arg) \/ HandleRNTO(arg)
  BY <1>5, RenamingKeepsInv
<1>6. CASE \/ Rename \/ Size \/ NoData \/ List \/ ListMachine \/ Retrieve \/ Store \/ AppendTo
  BY <1>6, ActingStepsKeepInv
<1>7. CASE UNCHANGED vars
  BY <1>7, StutterKeepsFiles
<1> QED
  BY <1>1, <1>2, <1>3, <1>4, <1>5, <1>6, <1>7 DEF Next

\* What the handlers rely on between their checks (hasPermission(), validatePath())
\* and what they do after them: the identity that was checked is still in force, or
\* is kept with the source that RNFR found.
THEOREM FilesInvariant == Spec => []FilesInv
<1>1. Init => FilesInv
  BY InitFiles
<1>2. FilesInv /\ [Next]_vars => FilesInv'
  BY NextKeepsFiles
<1> QED
  BY <1>1, <1>2, PTL DEF Spec

\* Whatever a command touches, though it may touch it ten seconds after validatePath()
\* and hasPermission() have answered, lies in the home directory of the account it was
\* checked for and in the root of its host, and that account was granted what is done
\* to it; but for SIZE, which checks nothing, and for the directories that
\* create_directories() of a STOR or STOU makes on the way to the path that was checked.
THEOREM AccessIsConfined == Spec => []Confined
<1>1. FilesInv => Confined
  BY DEF FilesInv
<1> QED
  BY <1>1, FilesInvariant, PTL

\* handlePASS() replaces current_user_ before it has looked at the password, and
\* leaves authenticated_ as it is: still the session acts as the account that it
\* was logged in to, in its home, unless HOST has come in between.
THEOREM SessionActsAsLoggedIn == Spec => []ActsAsLoggedIn
<1>1. FilesInv => ActsAsLoggedIn
  BY DEF FilesInv, LoginInv, ActsAsLoggedIn
<1> QED
  BY <1>1, FilesInvariant, PTL

-------------------------------------------------------------------------------
(* The tree.  Every step keeps what is below a directory that exists.       *)

Names == UNION {Range(p) : p \in Path}

TreeInv ==
    /\ fs \in [Path -> {"none", "file", "dir"}]
    /\ \A p, q \in Path : IsStrictPrefix(p, q) /\ fs[q] # "none" => fs[p] = "dir"
    /\ Account # {} => fs[<<>>] = "dir"

LEMMA PathsAreNames == \A p \in Path : p \in Seq(Names)
<1> SUFFICES ASSUME NEW p \in Path PROVE p \in Seq(Names)
  OBVIOUS
<1>1. p \in Seq(Range(p)) /\ Range(p) \subseteq Names
  BY PathsAreSequences DEF Names
<1> HIDE DEF Names
<1> QED
  BY <1>1

LEMMA PrefixDef ==
  ASSUME NEW S, NEW p \in Seq(S), NEW q \in Seq(S)
  PROVE  IsPrefix(p, q) <=> Len(p) <= Len(q) /\ \A i \in 1..Len(p) : p[i] = q[i]
<1>1. CASE Len(p) <= Len(q)
  <2>1. SubSeq(p, 1, Len(p)) = p
    OBVIOUS
  <2>2. /\ SubSeq(q, 1, Len(p)) \in Seq(S) /\ Len(SubSeq(q, 1, Len(p))) = Len(p)
        /\ \A i \in 1..Len(p) : SubSeq(q, 1, Len(p))[i] = q[i]
    BY <1>1
  <2>3. p = SubSeq(q, 1, Len(p)) <=> \A i \in 1..Len(p) : p[i] = SubSeq(q, 1, Len(p))[i]
    BY <2>2
  <2> QED
    BY <1>1, <2>1, <2>2, <2>3 DEF IsPrefix
<1>2. CASE ~(Len(p) <= Len(q))
  BY <1>2 DEF IsPrefix
<1> QED
  BY <1>1, <1>2

LEMMA SamePath ==
  ASSUME NEW S, NEW p \in Seq(S), NEW q \in Seq(S), Len(p) = Len(q), IsPrefix(p, q)
  PROVE  p = q
BY PrefixDef

LEMMA FrontOf ==
  ASSUME NEW S, NEW p \in Seq(S), p # <<>>
  PROVE  /\ Front(p) \in Seq(S) /\ Len(Front(p)) = Len(p) - 1
         /\ \A i \in 1..Len(p) - 1 : Front(p)[i] = p[i]
         /\ IsStrictPrefix(Front(p), p)
<1>0. Len(p) \in Nat \ {0}
  BY EmptySeq
<1>1. /\ Front(p) \in Seq(S) /\ Len(Front(p)) = Len(p) - 1 /\ Len(p) > 0
      /\ \A i \in 1..Len(p) - 1 : Front(p)[i] = p[i]
  <2>1. \A i \in 1..Len(p) - 1 : p[i] \in S
    BY <1>0
  <2>2. /\ SubSeq(p, 1, Len(p) - 1) \in Seq(S)
        /\ Len(SubSeq(p, 1, Len(p) - 1)) = IF 1 <= Len(p) - 1 THEN (Len(p) - 1) - 1 + 1 ELSE 0
        /\ \A i \in 1..(Len(p) - 1) - 1 + 1 : SubSeq(p, 1, Len(p) - 1)[i] = p[1 + i - 1]
    BY <1>0, <2>1, SubSeqProperties
  <2>3. (Len(p) - 1) - 1 + 1 = Len(p) - 1 /\ \A i \in 1..Len(p) - 1 : 1 + i - 1 = i
    BY <1>0
  <2> QED
    BY <1>0, <2>2, <2>3 DEF Front
<1>2. IsPrefix(Front(p), p)
  BY <1>1, PrefixDef
<1> QED
  BY <1>1, <1>2 DEF IsStrictPrefix

LEMMA AboveFront ==
  ASSUME NEW S, NEW p \in Seq(S), NEW q \in Seq(S), IsStrictPrefix(p, q)
  PROVE  q # <<>> /\ IsPrefix(p, Front(q)) /\ Len(p) < Len(q)
<1>1. Len(p) < Len(q)
  BY SamePath, PrefixDef DEF IsStrictPrefix
<1>2. q # <<>>
  BY <1>1
<1> QED
  BY <1>1, <1>2, PrefixDef, FrontOf DEF IsStrictPrefix

LEMMA PrefixTrans ==
  ASSUME NEW S, NEW p \in Seq(S), NEW q \in Seq(S), NEW r \in Seq(S),
         IsPrefix(p, q), IsPrefix(q, r)
  PROVE  IsPrefix(p, r) /\ (p # q \/ q # r => IsStrictPrefix(p, r))
<1>1. Len(p) <= Len(q) /\ Len(q) <= Len(r)
  BY PrefixDef
<1>2. \A i \in 1..Len(p) : p[i] = r[i]
  BY <1>1, PrefixDef
<1>3. IsPrefix(p, r)
  BY <1>1, <1>2, PrefixDef
<1>4. p = r => p = q /\ q = r
  BY <1>1, SamePath
<1> QED
  BY <1>3, <1>4 DEF IsStrictPrefix

-------------------------------------------------------------------------------
LEMMA LeastNatural ==
  ASSUME NEW T \in SUBSET Nat, T # {}
  PROVE  \E n \in T : \A m \in T : n <= m
<1>1. PICK n \in T : \A m \in T : ~ (<<m, n>> \in OpToRel(<, Nat))
  BY NatLessThanWellFounded, WFMin
<1>2. \A m \in T : ~ (m < n)
  BY <1>1 DEF OpToRel
<1> QED
  BY <1>2

\* Front() is taken off until the prefix is reached.
LEMMA PrefixesArePaths ==
  ASSUME NEW q \in Path, NEW p \in Seq(Names), IsPrefix(p, q)
  PROVE  p \in Path
<1> DEFINE T == {n \in Nat : \E r \in Path : IsPrefix(p, r) /\ n = Len(r)}
<1>1. Len(q) \in T
  BY PathsAreNames
<1>2. PICK n \in T : \A m \in T : n <= m
  BY <1>1, LeastNatural
<1>3. PICK r \in Path : IsPrefix(p, r) /\ n = Len(r)
  BY <1>2
<1>4. CASE p = r
  BY <1>4
<1>5. CASE p # r
  <2>1. r # <<>> /\ IsPrefix(p, Front(r)) /\ Front(r) \in Path
    BY <1>3, <1>5, AboveFront, PathsAreNames, PathsAreATree DEF IsStrictPrefix
  <2>2. Len(Front(r)) = Len(r) - 1 /\ Len(Front(r)) \in Nat
    BY <2>1, FrontOf, PathsAreNames
  <2>3. Len(Front(r)) \in T
    BY <2>1, <2>2
  <2> QED
    BY <1>2, <1>3, <2>2, <2>3
<1> QED
  BY <1>4, <1>5

-------------------------------------------------------------------------------
LEMMA AboveAreDirs ==
  ASSUME TreeInv, NEW p \in Path, InDir(p), NEW q \in Path, IsStrictPrefix(q, p)
  PROVE  fs[q] = "dir"
<1>1. Front(p) \in Path /\ fs[Front(p)] = "dir"
  BY DEF InDir, IsDir
<1>2. IsPrefix(q, Front(p))
  BY AboveFront, PathsAreNames
<1> QED
  BY <1>1, <1>2 DEF TreeInv, IsStrictPrefix

LEMMA NothingBelow ==
  ASSUME TreeInv, NEW p \in Path, fs[p] # "dir", NEW q \in Path, IsStrictPrefix(p, q)
  PROVE  fs[q] = "none"
BY DEF TreeInv

\* One entry changes.
LEMMA PutKeepsTree ==
  ASSUME TreeInv, NEW p \in Path, NEW what \in {"none", "file", "dir"},
         fs' = [fs EXCEPT ![p] = what],
         what # "none" => \A q \in Path : IsStrictPrefix(q, p) => fs[q] = "dir",
         what # "dir" => \A q \in Path : IsStrictPrefix(p, q) => fs[q] = "none",
         Account # {} /\ p = <<>> => what = "dir"
  PROVE  TreeInv'
<1>1. fs' \in [Path -> {"none", "file", "dir"}]
  BY DEF TreeInv
<1>2. \A q \in Path : fs'[q] = IF q = p THEN what ELSE fs[q]
  BY DEF TreeInv
<1>3. ASSUME NEW q \in Path, NEW r \in Path, IsStrictPrefix(q, r), fs'[r] # "none"
      PROVE  fs'[q] = "dir"
  <2>1. q # r
    BY <1>3 DEF IsStrictPrefix
  <2>2. CASE r = p
    BY <1>2, <1>3, <2>1, <2>2
  <2>3. CASE q = p
    BY <1>2, <1>3, <2>1, <2>3
  <2>4. CASE r # p /\ q # p
    BY <1>2, <1>3, <2>4 DEF TreeInv
  <2> QED
    BY <2>2, <2>3, <2>4
<1>4. Account # {} => fs'[<<>>] = "dir"
  BY <1>2, PathsAreATree DEF TreeInv
<1> QED
  BY <1>1, <1>3, <1>4 DEF TreeInv

LEMMA InitTree == Init => TreeInv
<1> SUFFICES ASSUME Init PROVE TreeInv
  OBVIOUS
<1>1. \A p \in Path : fs[p] = IF \E a \in Account : Within(HomeOf[a], p) THEN "dir" ELSE "none"
  BY DEF Init
<1>2. fs \in [Path -> {"none", "file", "dir"}]
  BY DEF Init
<1>3. ASSUME NEW p \in Path, NEW q \in Path, IsStrictPrefix(p, q), fs[q] # "none"
      PROVE  fs[p] = "dir"
  <2>1. PICK a \in Account : Within(HomeOf[a], q)
    BY <1>1, <1>3
  <2>2. Within(HomeOf[a], p)
    BY <1>3, <2>1, PrefixTrans, PathsAreNames, AccountsAreDescribed DEF Within, IsStrictPrefix
  <2> QED
    BY <1>1, <2>2
<1>4. ASSUME NEW a \in Account PROVE fs[<<>>] = "dir"
  <2>1. <<>> \in Path /\ <<>> \in Seq(Names) /\ HomeOf[a] \in Seq(Names) /\ Len(<<>>) = 0
    BY PathsAreATree, PathsAreNames, AccountsAreDescribed
  <2>2. Within(HomeOf[a], <<>>)
    <3> HIDE DEF Names
    <3>1. Len(<<>>) <= Len(HomeOf[a]) /\ \A i \in 1..Len(<<>>) : FALSE
      BY <2>1
    <3> QED
      BY <2>1, <3>1, PrefixDef DEF Within
  <2> QED
    BY <1>1, <2>1, <2>2
<1> QED
  BY <1>2, <1>3, <1>4 DEF TreeInv

\* create_directories() and the new file.
LEMMA StoreKeepsTree ==
  ASSUME TreeInv, NEW j \in Path, fs[j] # "dir", Account # {},
         \A q \in Path : IsStrictPrefix(q, j) => fs[q] # "file",
         fs' = [[q \in Path |-> IF q \in {r \in Path : IsStrictPrefix(r, j)} THEN "dir"
                                ELSE fs[q]] EXCEPT ![j] = "file"]
  PROVE  TreeInv'
<1>1. ~IsStrictPrefix(j, j)
  BY DEF IsStrictPrefix
<1>2. \A q \in Path : fs'[q] = IF q = j THEN "file"
                               ELSE IF IsStrictPrefix(q, j) THEN "dir" ELSE fs[q]
  OBVIOUS
<1>3. fs' \in [Path -> {"none", "file", "dir"}]
  BY DEF TreeInv
<1>4. ASSUME NEW p \in Path, NEW q \in Path, IsStrictPrefix(p, q), fs'[q] # "none"
      PROVE  fs'[p] = "dir"
  <2>1. CASE IsStrictPrefix(p, j)
    BY <1>1, <1>2, <2>1
  <2>2. CASE ~IsStrictPrefix(p, j)
    <3>1. q # j
      BY <1>4, <2>2
    <3>2. ~IsStrictPrefix(q, j)
      BY <1>4, <2>2, PrefixTrans, PathsAreNames DEF IsStrictPrefix
    <3>3. fs[q] # "none" /\ fs[p] = "dir"
      BY <1>2, <1>4, <3>1, <3>2 DEF TreeInv
    <3> QED
      BY <1>2, <2>2, <3>3
  <2> QED
    BY <2>1, <2>2
<1>5. fs'[<<>>] = "dir"
  BY <1>2, PathsAreATree DEF TreeInv
<1> QED
  BY <1>3, <1>4, <1>5 DEF TreeInv

\* create_directories() alone.
LEMMA MakeKeepsTree ==
  ASSUME TreeInv, NEW j \in Path, Account # {},
         \A q \in Path : IsStrictPrefix(q, j) => fs[q] # "file",
         fs' = [q \in Path |-> IF q \in {r \in Path : IsStrictPrefix(r, j)} THEN "dir"
                               ELSE fs[q]]
  PROVE  TreeInv'
<1>1. \A q \in Path : fs'[q] = IF IsStrictPrefix(q, j) THEN "dir" ELSE fs[q]
  OBVIOUS
<1>2. fs' \in [Path -> {"none", "file", "dir"}]
  BY DEF TreeInv
<1>3. ASSUME NEW p \in Path, NEW q \in Path, IsStrictPrefix(p, q), fs'[q] # "none"
      PROVE  fs'[p] = "dir"
  <2>1. CASE IsStrictPrefix(p, j)
    BY <1>1, <2>1
  <2>2. CASE ~IsStrictPrefix(p, j)
    <3>1. ~IsStrictPrefix(q, j)
      BY <1>3, <2>2, PrefixTrans, PathsAreNames DEF IsStrictPrefix
    <3>2. fs[q] # "none" /\ fs[p] = "dir"
      BY <1>1, <1>3, <3>1 DEF TreeInv
    <3> QED
      BY <1>1, <2>2, <3>2
  <2> QED
    BY <2>1, <2>2
<1>4. fs'[<<>>] = "dir"
  BY <1>1, PathsAreATree DEF TreeInv
<1> QED
  BY <1>2, <1>3, <1>4 DEF TreeInv

-------------------------------------------------------------------------------
\* r, of the tree at q, seen from p.
Graft(p, q, r) == p \o SubSeq(r, Len(q) + 1, Len(r))

IsGraft(g, p, q, r) ==
    /\ Len(g) = Len(p) + Len(r) - Len(q)
    /\ \A i \in 1..Len(p) : g[i] = p[i]
    /\ \A i \in Len(p) + 1..Len(p) + Len(r) - Len(q) : g[i] = r[i - Len(p) + Len(q)]

LEMMA GraftDef ==
  ASSUME NEW S, NEW p \in Seq(S), NEW q \in Seq(S), NEW r \in Seq(S), Len(q) <= Len(r)
  PROVE  Graft(p, q, r) \in Seq(S) /\ IsGraft(Graft(p, q, r), p, q, r)
<1> DEFINE t == SubSeq(r, Len(q) + 1, Len(r))
<1>0. Len(p) \in Nat /\ Len(q) \in Nat /\ Len(r) \in Nat
  OBVIOUS
<1>1. /\ t \in Seq(S) /\ Len(t) = Len(r) - Len(q)
      /\ \A i \in 1..Len(r) - Len(q) : t[i] = r[i + Len(q)]
  <2>1. \A i \in Len(q) + 1..Len(r) : r[i] \in S
    BY <1>0
  <2>2. /\ t \in Seq(S)
        /\ Len(t) = IF Len(q) + 1 <= Len(r) THEN Len(r) - (Len(q) + 1) + 1 ELSE 0
        /\ \A i \in 1..Len(r) - (Len(q) + 1) + 1 : t[i] = r[Len(q) + 1 + i - 1]
    BY <1>0, <2>1, SubSeqProperties
  <2>3. Len(r) - (Len(q) + 1) + 1 = Len(r) - Len(q)
    BY <1>0
  <2>4. \A i \in 1..Len(r) - Len(q) : Len(q) + 1 + i - 1 = i + Len(q)
    BY <1>0
  <2> QED
    BY <1>0, <2>2, <2>3, <2>4
<1> HIDE DEF t
<1>1a. \A u \in Seq(S) : /\ p \o u \in Seq(S) /\ Len(p \o u) = Len(p) + Len(u)
                        /\ \A i \in 1..Len(p) + Len(u) :
                              (p \o u)[i] = IF i <= Len(p) THEN p[i] ELSE u[i - Len(p)]
  BY ConcatProperties
<1>2. /\ p \o t \in Seq(S) /\ Len(p \o t) = Len(p) + Len(t)
      /\ \A i \in 1..Len(p) + Len(t) :
             (p \o t)[i] = IF i <= Len(p) THEN p[i] ELSE t[i - Len(p)]
  BY <1>1, <1>1a
<1>3. \A i \in Len(p) + 1..Len(p) + Len(r) - Len(q) :
          /\ i \in 1..Len(p) + Len(t) /\ ~(i <= Len(p))
          /\ i - Len(p) \in 1..Len(r) - Len(q)
          /\ i - Len(p) + Len(q) = (i - Len(p)) + Len(q)
  BY <1>0, <1>1
<1>4. \A i \in 1..Len(p) : i \in 1..Len(p) + Len(t) /\ i <= Len(p)
  BY <1>0, <1>1
<1>5. Len(p) + Len(t) = Len(p) + Len(r) - Len(q)
  BY <1>0, <1>1
<1>6. Graft(p, q, r) = p \o t
  BY DEF Graft, t
<1>7. \A i \in Len(p) + 1..Len(p) + Len(r) - Len(q) :
          (p \o t)[i] = r[i - Len(p) + Len(q)]
  BY <1>1, <1>2, <1>3
<1> QED
  BY <1>2, <1>4, <1>5, <1>6, <1>7 DEF IsGraft

LEMMA GraftKeepsOrder ==
  ASSUME NEW S, NEW p \in Seq(S), NEW q \in Seq(S), NEW a \in Seq(S), NEW b \in Seq(S),
         IsPrefix(q, a), IsStrictPrefix(a, b)
  PROVE  IsStrictPrefix(Graft(p, q, a), Graft(p, q, b))
<1>1. /\ Len(q) <= Len(a) /\ Len(a) < Len(b) /\ Len(q) <= Len(b)
      /\ \A i \in 1..Len(a) : a[i] = b[i]
      /\ Len(q) \in Nat /\ Len(a) \in Nat /\ Len(b) \in Nat /\ Len(p) \in Nat
  <2>1. IsPrefix(a, b) /\ Len(a) < Len(b)
    BY AboveFront DEF IsStrictPrefix
  <2>2. Len(q) <= Len(a) /\ \A i \in 1..Len(a) : a[i] = b[i]
    BY <2>1, PrefixDef
  <2>3. Len(q) \in Nat /\ Len(a) \in Nat /\ Len(b) \in Nat /\ Len(p) \in Nat
    OBVIOUS
  <2> QED
    BY <2>1, <2>2, <2>3
<1>2. PICK ga \in Seq(S) : ga = Graft(p, q, a) /\ IsGraft(ga, p, q, a)
  BY <1>1, GraftDef
<1>3. PICK gb \in Seq(S) : gb = Graft(p, q, b) /\ IsGraft(gb, p, q, b)
  BY <1>1, GraftDef
<1>4. ASSUME NEW i \in 1..Len(ga) PROVE ga[i] = gb[i]
  <2>1. CASE i <= Len(p)
    <3>1. i \in 1..Len(p)
      BY <1>1, <1>2, <1>4, <2>1 DEF IsGraft
    <3> QED
      BY <1>2, <1>3, <3>1 DEF IsGraft
  <2>2. CASE ~(i <= Len(p))
    <3>1. /\ i \in Len(p) + 1..Len(p) + Len(a) - Len(q)
          /\ i \in Len(p) + 1..Len(p) + Len(b) - Len(q)
          /\ i - Len(p) + Len(q) \in 1..Len(a)
      BY <1>1, <1>2, <2>2 DEF IsGraft
    <3> QED
      BY <1>1, <1>2, <1>3, <3>1 DEF IsGraft
  <2> QED
    BY <2>1, <2>2
<1>5. Len(ga) < Len(gb) /\ Len(ga) <= Len(gb)
  BY <1>1, <1>2, <1>3 DEF IsGraft
<1>6. IsPrefix(ga, gb)
  BY <1>4, <1>5, PrefixDef
<1> QED
  BY <1>2, <1>3, <1>5, <1>6 DEF IsStrictPrefix

\* Two prefixes of one path are on one line.
LEMMA OneLine ==
  ASSUME NEW S, NEW a \in Seq(S), NEW q \in Seq(S), NEW b \in Seq(S),
         IsPrefix(a, b), IsPrefix(q, b), ~IsPrefix(q, a)
  PROVE  IsStrictPrefix(a, q)
<1>1. /\ Len(a) \in Nat /\ Len(q) \in Nat /\ Len(b) \in Nat
      /\ Len(a) <= Len(b) /\ Len(q) <= Len(b)
      /\ \A i \in 1..Len(a) : a[i] = b[i]
      /\ \A i \in 1..Len(q) : q[i] = b[i]
  BY PrefixDef
<1>2. Len(a) <= Len(q)
  BY <1>1, PrefixDef
<1>3. IsPrefix(a, q) /\ a # q
  BY <1>1, <1>2, PrefixDef
<1> QED
  BY <1>3 DEF IsStrictPrefix

LEMMA RenameKeepsTree ==
  ASSUME TreeInv, NEW p \in Path, NEW q \in Path, CanRename(p, q), fs' = Renamed(p, q)
  PROVE  TreeInv'
<1>1. p \in Seq(Names) /\ q \in Seq(Names) /\ \A r \in Path : r \in Seq(Names)
  BY PathsAreNames
<1> DEFINE Was(r) == IF Graft(p, q, r) \in Path THEN fs[Graft(p, q, r)] ELSE "none"
<1>2. /\ fs' \in [Path -> {"none", "file", "dir"}]
      /\ \A r \in Path : fs'[r] = IF Within(r, q) THEN Was(r)
                                  ELSE IF Within(r, p) THEN "none" ELSE fs[r]
  BY DEF Renamed, Graft, TreeInv
<1>3. q # <<>> /\ ~Within(q, p) /\ InDir(q)
  BY DEF CanRename, InDir
<1> HIDE DEF Was
<1>4. ASSUME NEW a \in Path, NEW b \in Path, IsStrictPrefix(a, b), fs'[b] # "none"
      PROVE  fs'[a] = "dir"
  <2>1. IsPrefix(a, b) /\ a \in Seq(Names) /\ b \in Seq(Names)
    BY <1>1, <1>4 DEF IsStrictPrefix
  <2>2. CASE Within(b, q) /\ Within(a, q)
    <3>1. /\ Graft(p, q, b) \in Path /\ fs[Graft(p, q, b)] # "none"
      BY <1>2, <1>4, <2>2 DEF Was
    <3>2. IsStrictPrefix(Graft(p, q, a), Graft(p, q, b))
      BY <1>1, <1>4, <2>2, GraftKeepsOrder DEF Within
    <3>3. Graft(p, q, a) \in Path
      <4>1. Len(q) <= Len(a)
        BY <1>1, <2>1, <2>2, PrefixDef DEF Within
      <4>2. Graft(p, q, a) \in Seq(Names)
        BY <1>1, <4>1, GraftDef
      <4> QED
        BY <3>1, <3>2, <4>2, PrefixesArePaths DEF IsStrictPrefix
    <3>4. fs[Graft(p, q, a)] = "dir"
      BY <3>1, <3>2, <3>3 DEF TreeInv
    <3> QED
      BY <1>2, <2>2, <3>3, <3>4 DEF Was
  <2>3. CASE Within(b, q) /\ ~Within(a, q)
    <3>1. IsStrictPrefix(a, q)
      BY <1>1, <2>1, <2>3, OneLine DEF Within
    <3>2. fs[a] = "dir"
      BY <1>3, <3>1, AboveAreDirs
    <3>3. ~Within(a, p)
      BY <1>1, <1>3, <2>1, <3>1, PrefixTrans DEF Within, IsStrictPrefix
    <3> QED
      BY <1>2, <2>3, <3>2, <3>3
  <2>4. CASE ~Within(b, q)
    <3>1. ~Within(b, p) /\ fs[b] # "none"
      BY <1>2, <1>4, <2>4
    <3>2. ~Within(a, q) /\ ~Within(a, p)
      BY <1>1, <2>1, <2>4, <3>1, PrefixTrans DEF Within
    <3>3. fs[a] = "dir"
      BY <1>4, <3>1 DEF TreeInv
    <3> QED
      BY <1>2, <3>2, <3>3
  <2> QED
    BY <2>2, <2>3, <2>4
<1>5. Account # {} => fs'[<<>>] = "dir"
  <2>1. <<>> \in Path /\ <<>> \in Seq(Names) /\ Len(<<>>) = 0
    BY PathsAreATree, PathsAreNames
  <2>2. ~Within(<<>>, q)
    BY <1>1, <1>3, <2>1, EmptySeq, PrefixDef DEF Within
  <2>3. ~Within(<<>>, p)
    <3>1. CASE p = <<>>
      <4>1. \A i \in 1..0 : FALSE
        OBVIOUS
      <4>2. 0 <= Len(q)
        BY <1>1
      <4>3. Within(q, p)
        BY <1>1, <2>1, <3>1, <4>1, <4>2, PrefixDef DEF Within
      <4> QED
        BY <1>3, <4>3
    <3>2. CASE p # <<>>
      BY <1>1, <2>1, <3>2, EmptySeq, PrefixDef DEF Within
    <3> QED
      BY <3>1, <3>2
  <2> QED
    BY <1>2, <2>1, <2>2, <2>3 DEF TreeInv
<1> QED
  BY <1>2, <1>4, <1>5 DEF TreeInv

-------------------------------------------------------------------------------
LEMMA SameTree == ASSUME TreeInv, UNCHANGED fs PROVE TreeInv'
BY DEF TreeInv

LEMMA OtherKeepsTree ==
  ASSUME TreeInv, NEW p \in Foreign, Other(p)
  PROVE  TreeInv'
<1>0. p \in Path /\ p # <<>>
  BY PathsAreATree
<1>1. CASE ~Exists(p) /\ InDir(p) /\ \E what \in {"file", "dir"} : fs' = [fs EXCEPT ![p] = what]
  <2>1. PICK what \in {"file", "dir"} : fs' = [fs EXCEPT ![p] = what]
    BY <1>1
  <2>2. fs[p] # "dir"
    BY <1>0, <1>1 DEF Exists, IsDir
  <2>3. \A q \in Path : IsStrictPrefix(q, p) => fs[q] = "dir"
    BY <1>0, <1>1, AboveAreDirs
  <2>4. \A q \in Path : IsStrictPrefix(p, q) => fs[q] = "none"
    BY <1>0, <2>2, NothingBelow
  <2> QED
    BY <1>0, <2>1, <2>3, <2>4, PutKeepsTree
<1>2. CASE IsEmpty(p) /\ fs' = [fs EXCEPT ![p] = "none"]
  <2>1. \A q \in Path : IsStrictPrefix(p, q) => fs[q] = "none"
    BY <1>2 DEF IsEmpty
  <2> QED
    BY <1>0, <1>2, <2>1, PutKeepsTree
<1> QED
  BY <1>1, <1>2 DEF Other

LEMMA WritersHaveARoot ==
  ASSUME TreeInv, NEW arg, MayWrite(arg), TypeInv
  PROVE  user \in Account /\ fs[<<>>] = "dir"
BY AccountsAreDescribed DEF MayWrite, HasPermission, TypeInv, TreeInv

\* DELE, MKD, RMD and CHMOD.
LEMMA CommandsKeepTree ==
  ASSUME TreeInv, TypeInv, NEW arg \in Arg,
         HandleDELE(arg) \/ HandleMKD(arg) \/ HandleRMD(arg) \/ HandleCHMOD(arg)
  PROVE  TreeInv'
<1> DEFINE p == Resolve(arg)
<1>0. MayWrite(arg) /\ user \in Account /\ fs[<<>>] = "dir"
  BY WritersHaveARoot DEF HandleDELE, HandleMKD, HandleRMD, HandleCHMOD
<1>1. CASE Throw("write", p)
  BY <1>1, SameTree DEF Throw
<1>2. CASE HandleDELE(arg) /\ ~Throw("write", p)
  <2>1. p \in Path /\ fs[p] = "file" /\ fs' = [fs EXCEPT ![p] = "none"]
    BY <1>2 DEF HandleDELE, Write, IsFile
  <2> HIDE DEF p
  <2>2. \A q \in Path : IsStrictPrefix(p, q) => fs[q] = "none"
    BY <2>1, NothingBelow
  <2> QED
    BY <1>0, <2>1, <2>2, PutKeepsTree
<1>3. CASE HandleMKD(arg) /\ ~Throw("write", p)
  <2>1. /\ p \in Path /\ fs[p] # "dir" /\ InDir(p)
        /\ fs' = [fs EXCEPT ![p] = "dir"]
    BY <1>3 DEF HandleMKD, Write, Exists, IsDir
  <2> HIDE DEF p
  <2>2. \A q \in Path : IsStrictPrefix(q, p) => fs[q] = "dir"
    BY <2>1, AboveAreDirs
  <2> QED
    BY <2>1, <2>2, PutKeepsTree
<1>4. CASE HandleRMD(arg) /\ ~Throw("write", p)
  <2>1. /\ p \in Path /\ p # <<>> /\ IsEmpty(p)
        /\ fs' = [fs EXCEPT ![p] = "none"]
    BY <1>4 DEF HandleRMD, Write, IsDir
  <2> HIDE DEF p
  <2>2. \A q \in Path : IsStrictPrefix(p, q) => fs[q] = "none"
    BY <2>1 DEF IsEmpty
  <2> QED
    BY <2>1, <2>2, PutKeepsTree
<1>5. CASE HandleCHMOD(arg)
  <2>1. p \in Path /\ fs' = [fs EXCEPT ![p] = fs[p]]
    BY <1>5 DEF HandleCHMOD, Write, Exists, IsDir, IsFile
  <2> HIDE DEF p
  <2>2. fs' = fs
    BY <2>1 DEF TreeInv
  <2> QED
    BY <2>2, SameTree
<1> QED
  BY <1>1, <1>2, <1>3, <1>4, <1>5

\* The second half of RNTO, STOR, STOU and APPE.
LEMMA ActingStepsKeepTree ==
  ASSUME TreeInv, TypeInv, JobInv, renameFrom.path \in Path,
         Rename \/ Store \/ AppendTo
  PROVE  TreeInv'
<1>0. job.path \in Path /\ (job.op \in Kinds => user \in Account /\ fs[<<>>] = "dir")
  BY PathsAreATree DEF JobInv, Inside, TreeInv
<1>1. CASE Rename
  <2>1. \/ UNCHANGED fs
        \/ CanRename(renameFrom.path, job.path) /\ fs' = Renamed(renameFrom.path, job.path)
    BY <1>1 DEF Rename
  <2> QED
    BY <1>0, <2>1, SameTree, RenameKeepsTree
<1>2. CASE Store /\ fs' # fs
  <2> DEFINE parents == {r \in Path : IsStrictPrefix(r, job.path)}
             made == [q \in Path |-> IF q \in parents THEN "dir" ELSE fs[q]]
  <2>1. /\ ~\E q \in parents : IsFile(q)
        /\ fs' = made \/ (~IsDir(job.path) /\ fs' = [made EXCEPT ![job.path] = "file"])
        /\ job.op \in Kinds
    BY <1>2 DEF Store, Throw, Kinds, Transfer
  <2>2. /\ \A q \in Path : IsStrictPrefix(q, job.path) => fs[q] # "file"
        /\ Account # {}
    BY <1>0, <2>1 DEF IsFile
  <2>3. CASE fs' = made
    BY <1>0, <2>2, <2>3, MakeKeepsTree
  <2>4. CASE ~IsDir(job.path) /\ fs' = [made EXCEPT ![job.path] = "file"]
    <3>1. fs[job.path] # "dir"
      BY <1>0, <2>4 DEF IsDir
    <3> QED
      BY <1>0, <2>2, <2>4, <3>1, StoreKeepsTree
  <2> QED
    BY <2>1, <2>3, <2>4
<1>3. CASE AppendTo /\ fs' # fs
  <2>1. /\ IsFile(job.path) \/ (~Exists(job.path) /\ InDir(job.path))
        /\ fs' = [fs EXCEPT ![job.path] = "file"]
        /\ job.op \in Kinds
    BY <1>3 DEF AppendTo, Throw, Kinds, Transfer
  <2>2. fs[job.path] # "dir"
    BY <1>0, <2>1 DEF IsFile, Exists, IsDir
  <2>3. \A q \in Path : IsStrictPrefix(job.path, q) => fs[q] = "none"
    BY <1>0, <2>2, NothingBelow
  <2>4. \A q \in Path : IsStrictPrefix(q, job.path) => fs[q] = "dir"
    <3>1. CASE IsFile(job.path)
      BY <1>0, <3>1 DEF IsFile, TreeInv
    <3>2. CASE InDir(job.path)
      BY <1>0, <3>2, AboveAreDirs
    <3> QED
      BY <2>1, <3>1, <3>2
  <2>5. job.path # <<>>
    BY <1>0, <2>1, <2>2
  <2> QED
    BY <1>0, <2>1, <2>3, <2>4, <2>5, PutKeepsTree
<1> QED
  BY <1>1, <1>2, <1>3, SameTree

-------------------------------------------------------------------------------
LEMMA NatInduct ==
  ASSUME NEW T, 0 \in T, \A n \in Nat : n \in T => n + 1 \in T
  PROVE  Nat \subseteq T
<1> SUFFICES ASSUME Nat \ T # {} PROVE FALSE
  OBVIOUS
<1>1. PICK n \in Nat \ T : \A m \in Nat \ T : n <= m
  BY LeastNatural
<1>2. n # 0 /\ n - 1 \in Nat /\ n - 1 \in T
  BY <1>1
<1> QED
  BY <1>2

\* FoldLeft() in Normalize(): the function that its recursion defines on the
\* indices of S.
Step(q, n) == IF n # ".." THEN Append(q, n) ELSE IF q = <<>> THEN q ELSE Front(q)

Unfolds(f, p, S) ==
    f = [s \in SUBSET S |-> IF s = {} THEN <<>> ELSE Step(f[s \ {Max(s)}], p[Max(s)])]

LEMMA NormalizeDef ==
  ASSUME NEW p
  PROVE  Normalize(p) = (CHOOSE f : Unfolds(f, p, DOMAIN p))[DOMAIN p]
BY DEF Normalize, FoldLeft, MapThenFoldSet, Step, Unfolds

LEMMA MaxIs == ASSUME NEW n \in Nat, NEW s \in SUBSET Nat, n \in s, \A m \in s : m <= n
               PROVE  Max(s) = n
<1>1. \A m \in s : n >= m
  OBVIOUS
<1>2. ASSUME NEW x \in s, \A y \in s : x >= y PROVE x = n
  BY <1>2
<1> QED
  BY <1>1, <1>2 DEF Max

LEMMA UnfoldsExists == ASSUME NEW p PROVE \A n \in Nat : \E f : Unfolds(f, p, 1..n)
<1> DEFINE T == {n \in Nat : \E f : Unfolds(f, p, 1..n)}
<1>1. 0 \in T
  <2> DEFINE f == [s \in SUBSET (1..0) |-> <<>>]
  <2>1. \A s \in SUBSET (1..0) : s = {}
    OBVIOUS
  <2>2. Unfolds(f, p, 1..0)
    BY <2>1 DEF Unfolds
  <2> QED
    BY <2>2
<1>2. ASSUME NEW n \in Nat, n \in T PROVE n + 1 \in T
  <2>1. PICK f : Unfolds(f, p, 1..n)
    BY <1>2
  <2> DEFINE new(s) == Step(f[s \ {n + 1}], p[n + 1])
             g == [s \in SUBSET (1..n + 1) |-> IF n + 1 \in s THEN new(s) ELSE f[s]]
             h == [s \in SUBSET (1..n + 1) |->
                       IF s = {} THEN <<>> ELSE Step(g[s \ {Max(s)}], p[Max(s)])]
  <2>2. ASSUME NEW s \in SUBSET (1..n + 1) PROVE g[s] = h[s]
    <3>1. s \ {Max(s)} \in SUBSET (1..n + 1)
      OBVIOUS
    <3>2. CASE n + 1 \in s
      <4>1. Max(s) = n + 1
        BY <3>2, MaxIs
      <4>2. g[s \ {Max(s)}] = f[s \ {n + 1}]
        BY <3>1, <4>1
      <4> QED
        BY <3>2, <4>1, <4>2
    <3>3. CASE n + 1 \notin s
      <4>1. s \in SUBSET (1..n)
        BY <3>3
      <4>2. f[s] = IF s = {} THEN <<>> ELSE Step(f[s \ {Max(s)}], p[Max(s)])
        BY <2>1, <4>1 DEF Unfolds
      <4>3. g[s \ {Max(s)}] = f[s \ {Max(s)}] /\ g[s] = f[s]
        BY <3>1, <3>3
      <4> QED
        BY <4>2, <4>3
    <3> QED
      BY <3>2, <3>3
  <2>3. g = h
    BY <2>2
  <2>4. Unfolds(g, p, 1..n + 1)
    BY <2>3 DEF Unfolds
  <2> QED
    BY <2>4
<1> QED
  BY <1>1, <1>2, NatInduct

LEMMA DotlessIsNormal ==
  ASSUME NEW S, NEW p \in Seq(S), \A i \in 1..Len(p) : p[i] # ".."
  PROVE  Normalize(p) = p
<1> DEFINE f == CHOOSE g : Unfolds(g, p, 1..Len(p))
           T == {n \in Nat : n <= Len(p) => f[1..n] = SubSeq(p, 1, n)}
<1>0. Len(p) \in Nat /\ DOMAIN p = 1..Len(p)
  OBVIOUS
<1>1. Unfolds(f, p, 1..Len(p))
  BY <1>0, UnfoldsExists
<1> HIDE DEF f
<1>2. \A s \in SUBSET (1..Len(p)) :
          f[s] = IF s = {} THEN <<>> ELSE Step(f[s \ {Max(s)}], p[Max(s)])
  BY <1>1 DEF Unfolds
<1>3. 0 \in T
  <2>1. 1..0 = {} /\ 1..0 \in SUBSET (1..Len(p)) /\ SubSeq(p, 1, 0) = <<>>
    BY SubSeqEmpty
  <2> QED
    BY <1>2, <2>1
<1>4. ASSUME NEW n \in Nat, n \in T, n + 1 <= Len(p) PROVE f[1..n + 1] = SubSeq(p, 1, n + 1)
  <2>1. /\ 1..n + 1 \in SUBSET (1..Len(p)) /\ 1..n + 1 # {}
        /\ (1..n + 1) \ {n + 1} = 1..n
    <3>1. n + 1 \in 1..n + 1 /\ \A x \in 1..n + 1 : x \in 1..Len(p)
      BY <1>0, <1>4
    <3>2. (1..n + 1) \ {n + 1} = 1..n
      OBVIOUS
    <3> QED
      BY <3>1, <3>2
  <2>2. Max(1..n + 1) = n + 1
    BY MaxIs
  <2>3. f[1..n] = SubSeq(p, 1, n)
    BY <1>0, <1>4
  <2>4. p[n + 1] # ".." /\ p[n + 1] \in S
    BY <1>0, <1>4
  <2>5. f[1..n + 1] = Append(SubSeq(p, 1, n), p[n + 1])
    BY <1>2, <2>1, <2>2, <2>3, <2>4 DEF Step
  <2>6. Append(SubSeq(p, 1, n), p[n + 1]) = SubSeq(p, 1, n + 1)
    <3>1. /\ SubSeq(p, 1, n) \in Seq(S) /\ Len(SubSeq(p, 1, n)) = n
          /\ \A i \in 1..n : SubSeq(p, 1, n)[i] = p[i]
      BY <1>0, <1>4
    <3>2. /\ SubSeq(p, 1, n + 1) \in Seq(S) /\ Len(SubSeq(p, 1, n + 1)) = n + 1
          /\ \A i \in 1..n + 1 : SubSeq(p, 1, n + 1)[i] = p[i]
      BY <1>0, <1>4
    <3>3. /\ Append(SubSeq(p, 1, n), p[n + 1]) \in Seq(S)
          /\ Len(Append(SubSeq(p, 1, n), p[n + 1])) = n + 1
          /\ \A i \in 1..n + 1 : Append(SubSeq(p, 1, n), p[n + 1])[i] = p[i]
      BY <2>4, <3>1
    <3> QED
      BY <3>2, <3>3
  <2> QED
    BY <2>5, <2>6
<1>5. Len(p) \in T
  <2> HIDE DEF T
  <2>1. \A n \in Nat : n \in T => n + 1 \in T
    BY <1>4 DEF T
  <2> QED
    BY <1>0, <1>3, <2>1, NatInduct
<1>6. f[1..Len(p)] = SubSeq(p, 1, Len(p)) /\ SubSeq(p, 1, Len(p)) = p
  BY <1>0, <1>5
<1>7. Normalize(p) = (CHOOSE g : Unfolds(g, p, DOMAIN p))[DOMAIN p]
  BY NormalizeDef
<1> QED
  BY <1>0, <1>6, <1>7 DEF f

-------------------------------------------------------------------------------
\* What the session and the waiting command remember.
SessionInv ==
    /\ running \in BOOLEAN
    /\ loginAs \in Account \cup {NoAccount}
    /\ renameFrom.user \in Account \cup {NoAccount}
    /\ host \in Host \cup {NoHost}
    /\ renameFrom.host \in Host \cup {NoHost}
    /\ cwd \in Path
    /\ renameFrom.path \in Path
    /\ \A t \in touched : t.path \in Path

\* RNTO and STOU have found that nothing is at their target; if something is there
\* now, others have put it there.
RacedInv == job.op \in {"stou", "rnto"} /\ ~job.raced => ~Exists(job.path)

WholeInv == FilesInv /\ TreeInv /\ SessionInv /\ RacedInv

LEMMA SessionStep ==
  ASSUME SessionInv,
         running' \in BOOLEAN,
         loginAs' = loginAs \/ loginAs' \in Account \cup {NoAccount},
         host' = host \/ host' \in Host \cup {NoHost},
         cwd' = cwd \/ cwd' \in Path,
         renameFrom' \in {renameFrom, NoSource},
         \A t \in touched' : t.path \in Path
  PROVE  SessionInv'
<1>1. NoSource.user = NoAccount /\ NoSource.host = NoHost /\ NoSource.path \in Path
  BY PathsAreATree DEF NoSource
<1> QED
  BY <1>1 DEF SessionInv

\* Steps that leave the identity alone and touch what is in the tree.
LEMMA StillSession ==
  ASSUME SessionInv, UNCHANGED <<identity, cwd>>, running' \in BOOLEAN,
         renameFrom' \in {renameFrom, NoSource},
         \A t \in touched' : t.path \in Path
  PROVE  SessionInv'
BY SessionStep DEF identity

LEMMA InitSession == Init => SessionInv /\ RacedInv
BY PathsAreATree DEF Init, SessionInv, RacedInv, NoSource, Idle

LEMMA LoginKeepsSession ==
  ASSUME SessionInv,
         \/ \E n \in Name : HandleUSER(n)
         \/ RefusePASS
         \/ AcceptPASS
         \/ \E h \in Host : HandleHOST(h)
         \/ Reconnect
  PROVE  SessionInv'
<1>1. /\ touched' = {} /\ \A t \in touched' : t.path \in Path
      /\ renameFrom' \in {renameFrom, NoSource} /\ running' \in BOOLEAN
  BY DEF HandleUSER, RefusePASS, AcceptPASS, HandleHOST, Reconnect, Untouched, Ready, SessionInv
<1>2. loginAs' = loginAs \/ loginAs' \in Account \cup {NoAccount}
  BY FoundUser DEF HandleUSER, RefusePASS, AcceptPASS, HandleHOST, Reconnect
<1>3. host' = host \/ host' \in Host \cup {NoHost}
  BY DEF HandleUSER, RefusePASS, AcceptPASS, HandleHOST, Reconnect
<1>4. cwd' = cwd \/ cwd' \in Path
  <2>1. CASE AcceptPASS
    <3>1. GetUser \in Account /\ cwd' = HomeOf[GetUser]
      BY <2>1, FoundUser DEF AcceptPASS
    <3> QED
      BY <3>1, AccountsAreDescribed
  <2>2. CASE ~AcceptPASS
    BY <2>2, PathsAreATree DEF HandleUSER, RefusePASS, HandleHOST, Reconnect
  <2> QED
    BY <2>1, <2>2
<1> QED
  BY <1>1, <1>2, <1>3, <1>4, SessionStep

LEMMA ThrowKeepsSession ==
  ASSUME SessionInv, NEW op, NEW p, Throw(op, p)
  PROVE  SessionInv'
<1>1. UNCHANGED <<identity, cwd, renameFrom>> /\ running' = FALSE /\ touched' = {Access(op, p)}
  BY DEF Throw
<1>2. \A t \in touched' : t.path \in Path
  BY <1>1 DEF Throw, Access
<1> QED
  BY <1>1, <1>2, StillSession

LEMMA StartKeepsSession ==
  ASSUME SessionInv, NEW op, NEW p, NEW raced, Start(op, p, raced)
  PROVE  SessionInv'
BY StillSession DEF Start, SessionInv

LEMMA CommandsKeepSession ==
  ASSUME SessionInv,
         \/ HandleCDUP
         \/ \E arg \in Arg :
             \/ HandleCWD(arg) \/ HandleMLST(arg) \/ HandleSIZE(arg) \/ HandleDELE(arg)
             \/ HandleMKD(arg) \/ HandleRMD(arg) \/ HandleCHMOD(arg)
  PROVE  SessionInv'
<1>1. ASSUME NEW p \in Path, ChangeTo(p) PROVE SessionInv'
  <2>1. /\ cwd' \in Path /\ touched' = {} /\ UNCHANGED <<identity, renameFrom, running>>
    BY <1>1 DEF ChangeTo, Untouched
  <2> QED
    BY <2>1, SessionStep DEF identity, SessionInv
<1>2. CASE HandleCDUP
  BY <1>1, <1>2 DEF HandleCDUP, IsDir
<1>3. ASSUME NEW p, NEW op, NEW what, Look(op, p) \/ Write(p, what), p \in Path
      PROVE  SessionInv'
  <2>1. /\ touched' = {Access(op, p)} \/ touched' = {Access("write", p)}
        /\ UNCHANGED <<identity, renameFrom, running, cwd>>
    BY <1>3 DEF Look, Write
  <2>2. \A t \in touched' : t.path \in Path
    BY <1>3, <2>1 DEF Access
  <2> QED
    BY <2>1, <2>2, StillSession DEF SessionInv
<1>4. ASSUME NEW arg \in Arg, HandleCWD(arg) PROVE SessionInv'
  BY <1>1, <1>4, ThrowKeepsSession DEF HandleCWD, IsDir
<1>5. ASSUME NEW arg \in Arg, HandleMLST(arg) PROVE SessionInv'
  <2>1. Resolve(arg) \in Path /\ Look("look", Resolve(arg))
    BY <1>5 DEF HandleMLST, Exists, IsFile, IsDir
  <2> QED
    BY <1>3, <2>1
<1>6. ASSUME NEW arg \in Arg, HandleSIZE(arg) PROVE SessionInv'
  BY <1>6, StartKeepsSession, ThrowKeepsSession DEF HandleSIZE
<1>7. ASSUME NEW arg \in Arg,
             HandleDELE(arg) \/ HandleMKD(arg) \/ HandleRMD(arg) \/ HandleCHMOD(arg)
      PROVE  SessionInv'
  <2>1. \/ Throw("write", Resolve(arg))
        \/ Resolve(arg) \in Path /\ \E what : Write(Resolve(arg), what)
    BY <1>7 DEF HandleDELE, HandleMKD, HandleRMD, HandleCHMOD, Exists, IsFile, IsDir
  <2> QED
    BY <1>3, <2>1, ThrowKeepsSession
<1> QED
  BY <1>2, <1>4, <1>5, <1>6, <1>7

\* RNFR and RNTO, and the commands with a data connection up to their wait.
LEMMA WaitingKeepsSession ==
  ASSUME SessionInv, TypeInv,
         \/ HandleSTOU
         \/ \E arg \in Arg : \/ HandleRNFR(arg) \/ HandleRNTO(arg)
                             \/ HandleLIST(arg) \/ HandleMLSD(arg) \/ HandleRETR(arg)
                             \/ HandleSTOR(arg) \/ HandleAPPE(arg)
  PROVE  SessionInv'
<1>1. ASSUME NEW arg \in Arg, HandleRNFR(arg) PROVE SessionInv'
  <2>1. CASE Throw("write", Resolve(arg))
    BY <2>1, ThrowKeepsSession
  <2>2. CASE ~Throw("write", Resolve(arg))
    <3>1. /\ Resolve(arg) \in Path /\ UNCHANGED <<running, identity, cwd>> /\ touched' = {}
          /\ renameFrom' = [path |-> Resolve(arg), user |-> user, host |-> host]
      BY <1>1, <2>2 DEF HandleRNFR, Exists, IsFile, IsDir
    <3> QED
      BY <3>1 DEF SessionInv, TypeInv, identity
  <2> QED
    BY <2>1, <2>2
<1>2. ASSUME NEW arg \in Arg, HandleRNTO(arg) PROVE SessionInv'
  <2>1. RefuseRNTO => SessionInv'
    BY StillSession DEF RefuseRNTO, SessionInv
  <2> QED
    BY <1>2, <2>1, StartKeepsSession, ThrowKeepsSession DEF HandleRNTO
<1>3. CASE HandleSTOU
  BY <1>3, StartKeepsSession DEF HandleSTOU
<1>4. ASSUME NEW arg \in Arg, \/ HandleLIST(arg) \/ HandleMLSD(arg) \/ HandleRETR(arg)
                              \/ HandleSTOR(arg) \/ HandleAPPE(arg)
      PROVE  SessionInv'
  BY <1>4, StartKeepsSession, ThrowKeepsSession
     DEF HandleLIST, HandleMLSD, HandleRETR, HandleSTOR, HandleAPPE
<1> QED
  BY <1>1, <1>2, <1>3, <1>4

LEMMA ActingKeepsSession ==
  ASSUME SessionInv, JobInv,
         \/ Rename \/ Size \/ NoData \/ List \/ ListMachine \/ Retrieve \/ Store \/ AppendTo
  PROVE  SessionInv'
<1>0. job.path \in Path /\ renameFrom.path \in Path
  BY DEF JobInv, SessionInv
<1>1. CASE Rename
  <2>1. /\ UNCHANGED <<running, identity, cwd>> /\ renameFrom' = NoSource
        /\ \A t \in touched' : t.path \in {renameFrom.path, job.path}
    BY <1>1 DEF Rename, Access
  <2> QED
    BY <1>0, <2>1, StillSession DEF SessionInv
<1>2. ASSUME Done(touched'), \A t \in touched' : t.path \in Path PROVE SessionInv'
  BY <1>2, StillSession DEF Done, SessionInv
<1>3. ASSUME NEW op, Done({}) \/ Done({Access(op, job.path)}) PROVE SessionInv'
  <2>1. touched' = {} \/ touched' = {Access(op, job.path)}
    BY <1>3 DEF Done
  <2>2. \A t \in touched' : t.path = job.path
    BY <2>1 DEF Access
  <2>3. Done(touched')
    BY <1>3 DEF Done
  <2> QED
    BY <1>0, <1>2, <2>2, <2>3
<1>4. CASE Size \/ NoData \/ List \/ ListMachine \/ Retrieve \/ AppendTo
  <2>1. \E op : Done({}) \/ Done({Access(op, job.path)}) \/ Throw(op, job.path)
    BY <1>4 DEF Size, NoData, List, ListMachine, Retrieve, AppendTo
  <2> QED
    BY <1>3, <2>1, ThrowKeepsSession
<1>5. CASE Store /\ ~Throw("write", job.path)
  <2>1. \A t \in touched' : \/ t = Access("write", job.path)
                           \/ \E q \in Path : t = Access("make", q)
    BY <1>5 DEF Store, Done
  <2>2. \A t \in touched' : t.path \in Path
    BY <1>0, <2>1 DEF Access
  <2>3. Done(touched')
    BY <1>5 DEF Store, Done
  <2> QED
    BY <1>2, <2>2, <2>3
<1> QED
  BY <1>1, <1>4, <1>5, ThrowKeepsSession

LEMMA NextKeepsSession ==
  ASSUME SessionInv, FilesInv, [Next]_vars
  PROVE  SessionInv'
<1>0. TypeInv /\ JobInv
  BY DEF FilesInv
<1>1. CASE \/ \E n \in Name : HandleUSER(n)
           \/ RefusePASS
           \/ AcceptPASS
           \/ \E h \in Host : HandleHOST(h)
           \/ Reconnect
  BY <1>1, LoginKeepsSession
<1>2. ASSUME NEW p \in Foreign, Other(p) PROVE SessionInv'
  BY <1>2, StillSession DEF Other, SessionInv
<1>3. CASE \/ HandleSTOU
           \/ \E arg \in Arg : \/ HandleRNFR(arg) \/ HandleRNTO(arg)
                               \/ HandleLIST(arg) \/ HandleMLSD(arg) \/ HandleRETR(arg)
                               \/ HandleSTOR(arg) \/ HandleAPPE(arg)
  BY <1>0, <1>3, WaitingKeepsSession
<1>4. CASE \/ HandleCDUP
           \/ \E arg \in Arg :
               \/ HandleCWD(arg) \/ HandleMLST(arg) \/ HandleSIZE(arg) \/ HandleDELE(arg)
               \/ HandleMKD(arg) \/ HandleRMD(arg) \/ HandleCHMOD(arg)
  BY <1>4, CommandsKeepSession
<1>5. CASE \/ Rename \/ Size \/ NoData \/ List \/ ListMachine \/ Retrieve \/ Store \/ AppendTo
  BY <1>0, <1>5, ActingKeepsSession
<1>6. CASE UNCHANGED vars
  BY <1>6 DEF vars, identity, SessionInv
<1> QED
  BY <1>1, <1>2, <1>3, <1>4, <1>5, <1>6 DEF Next

LEMMA NextKeepsTree ==
  ASSUME WholeInv, [Next]_vars
  PROVE  TreeInv'
<1>0. TreeInv /\ TypeInv /\ JobInv /\ renameFrom.path \in Path
  BY DEF WholeInv, FilesInv, SessionInv
<1>1. CASE UNCHANGED fs
  BY <1>0, <1>1, SameTree
<1>2. ASSUME NEW p \in Foreign, Other(p) PROVE TreeInv'
  BY <1>0, <1>2, OtherKeepsTree
<1>3. CASE \E arg \in Arg :
               HandleDELE(arg) \/ HandleMKD(arg) \/ HandleRMD(arg) \/ HandleCHMOD(arg)
  BY <1>0, <1>3, CommandsKeepTree
<1>4. CASE Rename \/ Store \/ AppendTo
  BY <1>0, <1>4, ActingStepsKeepTree
<1>5. ASSUME \/ \E n \in Name : HandleUSER(n)
             \/ RefusePASS
             \/ AcceptPASS
             \/ \E h \in Host : HandleHOST(h)
             \/ Reconnect
             \/ UNCHANGED vars
      PROVE  UNCHANGED fs
  BY <1>5 DEF HandleUSER, RefusePASS, AcceptPASS, HandleHOST, Reconnect, Untouched, vars
<1>6. ASSUME \/ HandleCDUP
             \/ HandleSTOU
             \/ \E arg \in Arg : \/ HandleCWD(arg) \/ HandleMLST(arg) \/ HandleSIZE(arg)
                                 \/ HandleRNFR(arg) \/ HandleRNTO(arg)
             \/ Size \/ NoData \/ List \/ ListMachine \/ Retrieve
      PROVE  UNCHANGED fs
  BY <1>6 DEF HandleCDUP, HandleSTOU, HandleCWD, ChangeTo, HandleMLST, HandleSIZE, HandleRNFR,
              HandleRNTO, RefuseRNTO, Size, NoData, List, ListMachine, Retrieve, Untouched,
              Look, Start, Throw
<1>7. ASSUME \E arg \in Arg : \/ HandleLIST(arg) \/ HandleMLSD(arg) \/ HandleRETR(arg)
                              \/ HandleSTOR(arg) \/ HandleAPPE(arg)
      PROVE  UNCHANGED fs
  BY <1>7 DEF HandleLIST, HandleMLSD, HandleRETR, HandleSTOR, HandleAPPE, Start, Throw
<1> QED
  BY <1>1, <1>2, <1>3, <1>4, <1>5, <1>6, <1>7 DEF Next

-------------------------------------------------------------------------------
\* STOU looks at the path that it is going to open.
LEMMA UniquePath ==
  ASSUME cwd \in Path, NEW i \in DOMAIN UniqueName
  PROVE  Resolve([abs |-> FALSE, steps |-> <<UniqueName[i]>>]) = cwd \o <<UniqueName[i]>>
<1> DEFINE n == UniqueName[i]  S == Names \cup {n}  q == cwd \o <<n>>
<1>1. n # ".." /\ n \in S
  BY NamesAreProper DEF Range
<1>2. cwd \in Seq(Names) /\ \A k \in 1..Len(cwd) : cwd[k] # ".."
  <2>1. cwd \in Seq(Names) /\ \A k \in 1..Len(cwd) : cwd[k] \in Range(cwd)
    BY PathsAreNames DEF Range
  <2> QED
    BY <2>1, NamesAreProper
<1>3. cwd \in Seq(S)
  <2>1. Names \subseteq S
    OBVIOUS
  <2> HIDE DEF S, Names
  <2> QED
    BY <1>2, <2>1
<1> HIDE DEF n, S
<1>4. <<n>> \in Seq(S) /\ Len(<<n>>) = 1 /\ <<n>>[1] = n
  BY <1>1
<1>5. q \in Seq(S) /\ Len(q) = Len(cwd) + 1
      /\ \A k \in 1..Len(cwd) + 1 : q[k] = IF k <= Len(cwd) THEN cwd[k] ELSE <<n>>[k - Len(cwd)]
  BY <1>3, <1>4, ConcatProperties
<1>6. \A k \in 1..Len(q) : q[k] # ".."
  <2> SUFFICES ASSUME NEW k \in 1..Len(q) PROVE q[k] # ".."
    OBVIOUS
  <2>1. CASE k <= Len(cwd)
    BY <1>2, <1>3, <1>5, <2>1
  <2>2. CASE ~(k <= Len(cwd))
    <3>1. k - Len(cwd) = 1 /\ k \in 1..Len(cwd) + 1
      BY <1>3, <1>5, <2>2
    <3> QED
      BY <1>1, <1>4, <1>5, <2>2, <3>1
  <2> QED
    BY <2>1, <2>2
<1>7. Normalize(q) = q
  BY <1>5, <1>6, DotlessIsNormal
<1> QED
  BY <1>7 DEF Resolve, n

LEMMA StouKeepsRaced ==
  ASSUME HandleSTOU, SessionInv
  PROVE  RacedInv'
<1> DEFINE free(blind) ==
               {i \in DOMAIN UniqueName : blind \/ ~Exists(cwd \o <<UniqueName[i]>>)}
           first(blind) == CHOOSE i \in free(blind) : \A j \in free(blind) : i <= j
           arg(blind) == [abs |-> FALSE, steps |-> <<UniqueName[first(blind)]>>]
<1>1. PICK blind \in BOOLEAN :
          free(blind) # {} /\ Start("stou", Resolve(arg(blind)), blind)
  BY DEF HandleSTOU
<1>2. CASE blind
  <2>1. job'.raced
    BY <1>1, <1>2 DEF Start
  <2> QED
    BY <2>1 DEF RacedInv
<1>3. CASE ~blind
  <2>1. free(blind) \in SUBSET Nat
    BY NamesAreProper
  <2>2. first(blind) \in free(blind)
    <3> HIDE DEF free
    <3>1. \E i \in free(blind) : \A j \in free(blind) : i <= j
      BY <1>1, <2>1, LeastNatural
    <3> QED
      BY <3>1
  <2> HIDE DEF first
  <2>3. first(blind) \in DOMAIN UniqueName /\ ~Exists(cwd \o <<UniqueName[first(blind)]>>)
    BY <1>3, <2>2
  <2>4. Resolve(arg(blind)) = cwd \o <<UniqueName[first(blind)]>>
    BY <2>3, UniquePath DEF SessionInv
  <2>5. job'.path = cwd \o <<UniqueName[first(blind)]>> /\ fs' = fs
    BY <1>1, <2>4 DEF Start
  <2> QED
    BY <2>3, <2>5 DEF RacedInv, Exists, IsFile, IsDir
<1> QED
  BY <1>2, <1>3

LEMMA OtherKeepsRaced ==
  ASSUME RacedInv, TreeInv, JobInv, NEW p \in Foreign, Other(p)
  PROVE  RacedInv'
<1>0. p \in Path /\ job.path \in Path /\ job.raced \in BOOLEAN
  BY PathsAreATree DEF JobInv
<1>1. CASE /\ \E what \in {"file", "dir"} : fs' = [fs EXCEPT ![p] = what]
           /\ job' = [job EXCEPT !.raced = @ \/ (job # Idle /\ job.path = p)]
  <2>1. /\ job'.op = job.op /\ job'.path = job.path
        /\ job'.raced = (job.raced \/ (job # Idle /\ job.path = p))
    BY <1>1 DEF JobInv
  <2>2. SUFFICES ASSUME job.op \in {"stou", "rnto"}, ~job'.raced PROVE ~Exists(job.path)'
    BY <2>1 DEF RacedInv, Exists, IsFile, IsDir
  <2>3. job # Idle
    BY <2>2 DEF Idle
  <2>4. ~job.raced /\ job.path # p
    BY <2>1, <2>2, <2>3
  <2>5. fs'[job.path] = fs[job.path]
    BY <1>0, <1>1, <2>4 DEF TreeInv
  <2> QED
    BY <1>0, <2>1, <2>2, <2>4, <2>5 DEF RacedInv, Exists, IsFile, IsDir
<1>2. CASE fs' = [fs EXCEPT ![p] = "none"] /\ UNCHANGED job
  <2>1. fs'[job.path] = fs[job.path] \/ fs'[job.path] = "none"
    BY <1>0, <1>2 DEF TreeInv
  <2> QED
    BY <1>0, <1>2, <2>1 DEF RacedInv, Exists, IsFile, IsDir
<1> QED
  BY <1>1, <1>2 DEF Other

LEMMA NextKeepsRaced ==
  ASSUME WholeInv, [Next]_vars
  PROVE  RacedInv'
<1>0. RacedInv /\ TreeInv /\ JobInv /\ SessionInv
  BY DEF WholeInv, FilesInv
<1>1. ASSUME UNCHANGED <<fs, job>> PROVE RacedInv'
  BY <1>0, <1>1 DEF RacedInv, Exists, IsFile, IsDir
<1>2. ASSUME job' = Idle \/ job'.op \in {"list", "mlsd", "retr", "stor", "appe", "size"}
      PROVE  RacedInv'
  BY <1>2 DEF RacedInv, Idle
<1>3. ASSUME NEW op, NEW p, Throw(op, p) PROVE RacedInv'
  BY <1>1, <1>3 DEF Throw
<1>4. ASSUME NEW p \in Foreign, Other(p) PROVE RacedInv'
  BY <1>0, <1>4, OtherKeepsRaced
<1>5. CASE HandleSTOU
  BY <1>0, <1>5, StouKeepsRaced
<1>6. ASSUME NEW arg \in Arg, HandleRNTO(arg) PROVE RacedInv'
  <2>1. CASE RefuseRNTO
    BY <1>1, <2>1 DEF RefuseRNTO
  <2>2. CASE ~Exists(Resolve(arg)) /\ Start("rnto", Resolve(arg), FALSE)
    <3>1. job'.path = Resolve(arg) /\ ~Exists(Resolve(arg)) /\ fs' = fs
      BY <2>2 DEF Start
    <3> QED
      BY <3>1 DEF RacedInv, Exists, IsFile, IsDir
  <2> QED
    BY <1>3, <1>6, <2>1, <2>2 DEF HandleRNTO
<1>7. ASSUME \/ \E n \in Name : HandleUSER(n)
             \/ RefusePASS
             \/ AcceptPASS
             \/ \E h \in Host : HandleHOST(h)
             \/ Reconnect
             \/ HandleCDUP
      PROVE  RacedInv'
  <2>1. job' = Idle
    BY <1>7 DEF HandleUSER, RefusePASS, AcceptPASS, HandleHOST, Reconnect, HandleCDUP, ChangeTo,
                LoggedIn, Untouched, Ready
  <2> QED
    BY <1>2, <2>1
<1>8. ASSUME NEW arg \in Arg, \/ HandleCWD(arg) \/ HandleMLST(arg) \/ HandleDELE(arg)
                              \/ HandleMKD(arg) \/ HandleRMD(arg) \/ HandleCHMOD(arg)
                              \/ HandleRNFR(arg)
      PROVE  RacedInv'
  <2>1. job' = Idle
    BY <1>8 DEF HandleCWD, ChangeTo, Untouched, HandleMLST, HandleDELE, HandleMKD, HandleRMD,
                HandleCHMOD, HandleRNFR, LoggedIn, Ready, Look, Write, Throw
  <2> QED
    BY <1>2, <2>1
<1>9. ASSUME NEW arg \in Arg, \/ HandleLIST(arg) \/ HandleMLSD(arg) \/ HandleRETR(arg)
                              \/ HandleSTOR(arg) \/ HandleAPPE(arg) \/ HandleSIZE(arg)
      PROVE  RacedInv'
  <2>1. \/ \E op \in {"list", "mlsd", "retr", "stor", "appe", "size"} :
              Start(op, Resolve(arg), FALSE)
        \/ \E op : Throw(op, Resolve(arg))
    BY <1>9 DEF HandleLIST, HandleMLSD, HandleRETR, HandleSTOR, HandleAPPE, HandleSIZE
  <2>2. CASE \E op \in {"list", "mlsd", "retr", "stor", "appe", "size"} :
                 Start(op, Resolve(arg), FALSE)
    <3>1. job'.op \in {"list", "mlsd", "retr", "stor", "appe", "size"}
      BY <2>2 DEF Start
    <3> QED
      BY <1>2, <3>1
  <2> QED
    BY <1>3, <2>1, <2>2
<1>10. CASE Rename \/ Size \/ NoData \/ List \/ ListMachine \/ Retrieve \/ Store \/ AppendTo
  <2>1. job' = Idle \/ UNCHANGED <<fs, job>>
    BY <1>10 DEF Rename, Size, NoData, List, ListMachine, Retrieve, Store, AppendTo, Done, Throw
  <2> QED
    BY <1>1, <1>2, <2>1
<1>11. CASE UNCHANGED vars
  BY <1>1, <1>11 DEF vars
<1> QED
  BY <1>4, <1>5, <1>6, <1>7, <1>8, <1>9, <1>10, <1>11 DEF Next

\* The tree stays a tree whatever handlers and other programs do to it in between,
\* and what RNTO and STOU have found free is free unless others were there.
THEOREM WholeInvariant == Spec => []WholeInv
<1>1. Init => WholeInv
  BY InitFiles, InitTree, InitSession DEF WholeInv
<1>2. WholeInv /\ [Next]_vars => WholeInv'
  BY NextKeepsFiles, NextKeepsTree, NextKeepsSession, NextKeepsRaced DEF WholeInv
<1> QED
  BY <1>1, <1>2, PTL DEF Spec

\* mkdir(), rmdir(), rename(), create_directories() and open() leave every file in a
\* directory that exists.
THEOREM FilesTypeCorrect == Spec => []TypeOK
<1>1. ASSUME WholeInv PROVE TypeOK
  <2>1. TypeInv /\ JobInv /\ TreeInv /\ SessionInv
    BY <1>1 DEF WholeInv, FilesInv
  <2>2. ASSUME NEW p \in Path, p # <<>>, fs[p] # "none" PROVE InDir(p)
    <3>1. Front(p) \in Path /\ IsStrictPrefix(Front(p), p)
      BY <2>2, PathsAreATree, PathsAreNames, FrontOf
    <3> QED
      BY <2>1, <2>2, <3>1 DEF TreeInv, InDir, IsDir
  <2>3. /\ job.op \in Transfer \cup {"rnto", "size", "none"}
        /\ job.raced \in BOOLEAN /\ job.path \in Path
    BY <2>1 DEF JobInv, Kinds
  <2> QED
    BY <2>1, <2>2, <2>3 DEF TypeOK, TypeInv, TreeInv, SessionInv
<1> QED
  BY <1>1, WholeInvariant, PTL

\* handleSTOU() and handleRNTO() test for the name and act on it later: they touch
\* what is there only if others have made it in between, or have let the process see
\* it only then.
THEOREM ReplacesWhatOthersMade == Spec => ReplacesOnlyIfRaced
<1>1. WholeInv => (running' /\ job.op \in {"stou", "rnto"} /\ touched' # {} /\ Exists(job.path)
                       => job.raced)
  BY DEF WholeInv, RacedInv
<1> QED
  BY <1>1, WholeInvariant, PTL DEF ReplacesOnlyIfRaced

\* An exception of std::filesystem ends the process.  Those thrown by the commands
\* that write are thrown on behalf of an account that may write to the path; the
\* others need a path that the process may not look at, or that LIST or SIZE has seen
\* and that others have removed since.
THEOREM EndsOfTheProcess == Spec => WhatEndsTheProcess
<1> DEFINE Blamed(t) ==
               \/ t.op = "write" /\ Valid(t.path) /\ Granted(user, "write", t.path)
               \/ t.path \in Opaque
               \/ job.op = "list" /\ t.path = job.path /\ ~Exists(job.path)
               \/ job.op = "size" /\ t.path = job.path /\ ~IsFile(job.path)
<1>1. ASSUME WholeInv, Next, running, ~running' PROVE \E t \in touched' : Blamed(t)
  <2>0. TypeInv /\ JobInv /\ SessionInv
    BY <1>1 DEF WholeInv, FilesInv
  <2>1. ASSUME NEW op, NEW p, Throw(op, p),
               \/ op = "write" /\ Valid(p) /\ Granted(user, "write", p)
               \/ p \in Opaque
               \/ job.op = "list" /\ p = job.path /\ ~Exists(job.path)
               \/ job.op = "size" /\ p = job.path /\ ~IsFile(job.path)
        PROVE  \E t \in touched' : Blamed(t)
    <3>1. /\ Access(op, p) \in touched'
          /\ Access(op, p).op = op /\ Access(op, p).path = p
      BY <2>1 DEF Throw, Access
    <3>2. Blamed(Access(op, p))
      BY <2>1, <3>1
    <3> HIDE DEF Blamed
    <3> QED
      BY <3>1, <3>2
  <2> HIDE DEF Blamed
  <2>2. ASSUME NEW arg, MayWrite(arg), Throw("write", Resolve(arg))
        PROVE  \E t \in touched' : Blamed(t)
    <3>1. Valid(Resolve(arg)) /\ Granted(user, "write", Resolve(arg))
      BY <2>2 DEF MayWrite, HasPermission
    <3> HIDE DEF Resolve
    <3> QED
      BY <2>1, <2>2, <3>1
  <2>3. ASSUME NEW arg \in Arg,
               \/ HandleDELE(arg) \/ HandleMKD(arg) \/ HandleRMD(arg)
               \/ HandleRNFR(arg) \/ HandleRNTO(arg)
        PROVE  \E t \in touched' : Blamed(t)
    <3>1. MayWrite(arg) /\ Throw("write", Resolve(arg))
      BY <1>1, <2>3 DEF HandleDELE, HandleMKD, HandleRMD, HandleRNFR, HandleRNTO, Write, Start,
                        RefuseRNTO
    <3> QED
      BY <2>2, <3>1
  <2>4. ASSUME NEW arg \in Arg,
               \/ HandleCWD(arg) \/ HandleSIZE(arg) \/ HandleLIST(arg) \/ HandleRETR(arg)
        PROVE  \E t \in touched' : Blamed(t)
    <3>1. Resolve(arg) \in Opaque /\ \E op : Throw(op, Resolve(arg))
      BY <1>1, <2>4 DEF HandleCWD, HandleSIZE, HandleLIST, HandleRETR, ChangeTo, Untouched, Start
    <3> HIDE DEF Resolve
    <3> QED
      BY <2>1, <3>1
  <2>5. CASE List
    BY <1>1, <2>1, <2>5 DEF List, Done
  <2>6. CASE Size
    BY <1>1, <2>1, <2>6 DEF Size, Done
  <2>7. CASE Store \/ AppendTo
    <3>1. Throw("write", job.path) /\ job.op \in {"stor", "stou", "appe"}
      BY <1>1, <2>7 DEF Store, AppendTo, Done
    <3>2. job.op \in Kinds /\ OpOf(job.op) = "write"
      BY <3>1 DEF Kinds, Transfer, OpOf
    <3>3. Inside(job.path, user, host) /\ Granted(user, "write", job.path)
      BY <2>0, <3>2 DEF JobInv
    <3>4. Valid(job.path)
      BY <2>0, <3>3, AccountsAreDescribed DEF Inside, Valid, SessionInv
    <3> QED
      BY <2>1, <3>1, <3>3, <3>4
  <2>8. ASSUME \/ \E n \in Name : HandleUSER(n)
               \/ RefusePASS
               \/ AcceptPASS
               \/ \E h \in Host : HandleHOST(h)
               \/ Reconnect
               \/ \E p \in Foreign : Other(p)
               \/ HandleCDUP
               \/ HandleSTOU
        PROVE  FALSE
    BY <1>1, <2>8 DEF HandleUSER, RefusePASS, AcceptPASS, HandleHOST, Reconnect, Untouched,
                      Other, HandleCDUP, ChangeTo, HandleSTOU, Start
  <2>9. ASSUME NEW arg \in Arg, \/ HandleMLST(arg) \/ HandleCHMOD(arg) \/ HandleMLSD(arg)
                                \/ HandleSTOR(arg) \/ HandleAPPE(arg)
        PROVE  FALSE
    BY <1>1, <2>9 DEF HandleMLST, HandleCHMOD, HandleMLSD, HandleSTOR, HandleAPPE, Look, Write,
                      Start
  <2>10. ASSUME Rename \/ NoData \/ ListMachine \/ Retrieve PROVE FALSE
    BY <1>1, <2>10 DEF Rename, NoData, ListMachine, Retrieve, Done
  <2> QED
    BY <1>1, <2>3, <2>4, <2>5, <2>6, <2>7, <2>8, <2>9, <2>10 DEF Next
<1>2. WholeInv /\ [Next]_vars => (running /\ ~running' => \E t \in touched' : Blamed(t))
  BY <1>1 DEF vars
<1> QED
  BY <1>2, WholeInvariant, PTL DEF Spec, WhatEndsTheProcess
===============================================================================
