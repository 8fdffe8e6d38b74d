------------------------------- MODULE FtpFiles -------------------------------
(***************************************************************************)
(* What the commands of one session do to the files of the server: login,  *)
(* the choice of a virtual host, the current directory, and every command  *)
(* that takes a path (core/connection.cpp, with FTPUser::hasPermission).   *)
(*                                                                         *)
(* A path is a sequence of names below "/", without symbolic links; a file *)
(* system maps each path of the model to what is there.  Other sessions    *)
(* and programs change it between two commands, between the test and the   *)
(* rename() of RNTO, and between the checks of a transfer and its open(),  *)
(* which wait up to ten seconds for the data connection in between.  The   *)
(* bytes of a transfer, and the data connection itself (FtpDataChannel),   *)
(* are left out.                                                           *)
(*                                                                         *)
(* handleClient() catches no exception: a throwing call of std::filesystem *)
(* in a handler ends the whole process.  exists() and is_directory() throw *)
(* too, where the code does not ask for an error_code, when the process    *)
(* may not look at a path.                                                 *)
(***************************************************************************)
EXTENDS Naturals, SequencesExt

CONSTANTS
    Path,               \* bound: the paths the model has, "/" and parents included
    Foreign,            \* bound: those of them that others make and remove
    Opaque,             \* bound: those that the process may at times not look at: their
                        \* directory lets nobody in (EACCES), a name is too long
    Arg,                \* the arguments of the commands, as the client spells them
    UniqueName,         \* the candidates of STOU for a file name, in their order
    Name, NoName,       \* user names that USER may give; username_ is empty
    Account, NoAccount, \* FTPUser objects; current_user_ is null
    NameOf, HomeOf,     \* getUsername(), getHomeDirectory()
    Grants,             \* permissions_: records of an operation and a scope
    HostOf,             \* the host whose user manager holds the account, or NoHost
    Host, NoHost,       \* the enabled virtual hosts; none selected
    RootOf              \* getRootDirectory()

ASSUME PathsAreATree ==
    /\ <<>> \in Path /\ \A p \in Path : p # <<>> => Front(p) \in Path
    /\ Foreign \subseteq Path \ {<<>>}
    /\ Opaque \subseteq Path /\ \A p \in Opaque, q \in Path : IsPrefix(p, q) => q \in Opaque
ASSUME PathsAreSequences == \A p \in Path : p \in Seq(Range(p))
\* No file has the name "..", and the candidates of handleSTOU() end in a number.
ASSUME NamesAreProper ==
    /\ UniqueName \in Seq(Range(UniqueName)) /\ ".." \notin Range(UniqueName)
    /\ \A p \in Path : ".." \notin Range(p)
ASSUME AccountsAreDescribed ==
    /\ NameOf \in [Account -> Name] /\ HomeOf \in [Account -> Path]
    /\ HostOf \in [Account -> Host \cup {NoHost}] /\ RootOf \in [Host -> Path]
    /\ NoAccount \notin Account /\ NoName \notin Name /\ NoHost \notin Host

VARIABLES
    fs,             \* what is at each path: "none", "file" or "dir"
    running,        \* FALSE when an exception has ended the process
    name,           \* username_
    authenticated,  \* authenticated_
    user,           \* current_user_
    host,           \* current_virtual_host_
    cwd,            \* current_directory_
    renameFrom,     \* rename_from_path_ and, history, who sent RNFR
    job,            \* the command that has made its checks and is to act: a transfer that
                    \* waits for its data connection, an RNTO, a SIZE, or Idle; and,
                    \* history, whether others put something in its place meanwhile
    loginAs,        \* history: the account of the last accepted login
    moved,          \* history: a HOST was accepted since then
    touched         \* history: the accesses that the last step made, or died of

identity == <<name, authenticated, user, host, loginAs, moved>>
vars == <<fs, running, identity, cwd, renameFrom, job, touched>>

Idle == [op |-> "none", path |-> <<>>, raced |-> FALSE]
NoSource == [path |-> <<>>, user |-> NoAccount, host |-> NoHost]
Transfer == {"list", "mlsd", "retr", "stor", "stou", "appe"}

------------------------------------------------------------------------------
(* Paths and permissions.                                                   *)

\* weakly_canonical(): "." and ".." are gone, and "/.." is "/".
Normalize(p) ==
    FoldLeft(LAMBDA q, n : IF n # ".." THEN Append(q, n) ELSE IF q = <<>> THEN q ELSE Front(q),
             <<>>, p)

\* isWithin(): the path, or below it, by whole components.
Within(child, parent) == IsPrefix(parent, child)

Home == IF user = NoAccount THEN <<>> ELSE HomeOf[user]

\* Absolute paths are virtual: the home directory is their root.
Resolve(arg) == Normalize((IF arg.abs THEN Home ELSE cwd) \o arg.steps)

\* validatePath() without the second constraint.
ValidInHome(p) == user # NoAccount /\ Within(p, HomeOf[user])

\* validatePath(): in the home directory and in the root of the virtual host.
Valid(p) ==
    /\ user # NoAccount
    /\ Within(p, HomeOf[user])
    /\ host # NoHost => Within(p, RootOf[host])

\* FTPUser::hasPermission(): no entries allow everything, a scope is a path
\* below the home directory.
Granted(account, op, p) ==
    \/ Grants[account] = {}
    \/ \E g \in Grants[account] : g.op \in {op, "all"} /\ Within(p, HomeOf[account] \o g.scope)

HasPermission(op, p) == user # NoAccount /\ Granted(user, op, p)

\* The account that handlePASS() finds: a host that has a user manager of its own
\* is asked, the server's user manager otherwise.
GetUser ==
    LET manager == IF \E a \in Account : HostOf[a] = host THEN host ELSE NoHost
        found   == {a \in Account : NameOf[a] = name /\ HostOf[a] = manager}
    IN IF found = {} THEN NoAccount ELSE CHOOSE a \in found : TRUE

------------------------------------------------------------------------------
(* The file system.                                                         *)

IsDir(p)  == p \in Path /\ fs[p] = "dir"
IsFile(p) == p \in Path /\ fs[p] = "file"
Exists(p) == IsDir(p) \/ IsFile(p)
InDir(p)  == p # <<>> /\ IsDir(Front(p))
IsEmpty(p) == \A q \in Path : IsStrictPrefix(p, q) => fs[q] = "none"

TypeOK ==
    /\ fs \in [Path -> {"none", "file", "dir"}]
    /\ \A p \in Path : p # <<>> /\ fs[p] # "none" => InDir(p)
    /\ running \in BOOLEAN
    /\ name \in Name \cup {NoName}
    /\ authenticated \in BOOLEAN
    /\ {user, loginAs, renameFrom.user} \subseteq Account \cup {NoAccount}
    /\ {host, renameFrom.host} \subseteq Host \cup {NoHost}
    /\ {cwd, renameFrom.path, job.path} \subseteq Path
    /\ job.op \in Transfer \cup {"rnto", "size", "none"} /\ job.raced \in BOOLEAN
    /\ moved \in BOOLEAN
    /\ \A t \in touched : t.path \in Path

\* The home directories exist, and nothing else.
Init ==
    /\ fs = [p \in Path |-> IF \E a \in Account : Within(HomeOf[a], p) THEN "dir" ELSE "none"]
    /\ running = TRUE
    /\ name = NoName /\ authenticated = FALSE /\ user = NoAccount /\ host = NoHost
    /\ cwd = <<>>
    /\ renameFrom = NoSource
    /\ job = Idle
    /\ loginAs = NoAccount /\ moved = FALSE
    /\ touched = {}

\* Any other session or program makes or removes a file or an empty directory.
Other(p) ==
    /\ \/ /\ ~Exists(p) /\ InDir(p)
          /\ fs' \in {[fs EXCEPT ![p] = "file"], [fs EXCEPT ![p] = "dir"]}
          /\ job' = [job EXCEPT !.raced = @ \/ (job # Idle /\ job.path = p)]
       \/ /\ Exists(p) /\ IsEmpty(p)
          /\ fs' = [fs EXCEPT ![p] = "none"]
          /\ UNCHANGED job
    /\ touched' = {}
    /\ UNCHANGED <<running, identity, cwd, renameFrom>>

------------------------------------------------------------------------------
(* Login.                                                                   *)

Ready == running /\ job = Idle
LoggedIn == Ready /\ authenticated

\* An access of the current command, and who made it.
Access(op, p) == [op |-> op, path |-> p, user |-> user, host |-> host]

\* A command on the session alone leaves the files and this untouched.
Untouched ==
    /\ touched' = {}
    /\ UNCHANGED <<fs, running, renameFrom, job>>

\* USER that leaves the login in force.
UserKeepsLogin(n) ==
    /\ Ready
    /\ name' = n
    /\ Untouched /\ UNCHANGED <<authenticated, user, host, loginAs, moved, cwd>>

HandleUSER(n) ==
    /\ Ready
    /\ name' = n
    /\ authenticated' = FALSE
    /\ loginAs' = NoAccount /\ moved' = FALSE
    /\ Untouched /\ UNCHANGED <<user, host, cwd>>

\* PASS is refused: a wrong password, no such user, or a limit on sessions.
\* current_user_ is replaced all the same, authenticated_ is not touched.
RefusePASS ==
    /\ Ready /\ name # NoName
    /\ user' = GetUser
    /\ Untouched /\ UNCHANGED <<name, authenticated, host, loginAs, moved, cwd>>

AcceptPASS ==
    /\ Ready /\ name # NoName
    /\ GetUser # NoAccount
    /\ user' = GetUser /\ loginAs' = GetUser
    /\ authenticated' = TRUE
    /\ cwd' = HomeOf[GetUser]
    /\ moved' = FALSE
    /\ Untouched /\ UNCHANGED <<name, host>>

HandleHOST(h) ==
    /\ Ready
    /\ host' = h
    /\ moved' = authenticated
    /\ Untouched /\ UNCHANGED <<name, authenticated, user, loginAs, cwd>>

\* QUIT or the client hangs up, or the process was terminated and is started again:
\* the next session starts from nothing but the files.
Reconnect ==
    /\ Ready \/ ~running
    /\ running' = TRUE
    /\ name' = NoName /\ authenticated' = FALSE /\ user' = NoAccount /\ host' = NoHost
    /\ cwd' = <<>>
    /\ renameFrom' = NoSource
    /\ job' = Idle
    /\ loginAs' = NoAccount /\ moved' = FALSE
    /\ touched' = {}
    /\ UNCHANGED fs

------------------------------------------------------------------------------
(* Commands that look.                                                      *)

\* An exception of std::filesystem ends the process at an access.
Throw(op, p) ==
    /\ p \in Path
    /\ running' = FALSE
    /\ touched' = {Access(op, p)}
    /\ UNCHANGED <<fs, identity, cwd, renameFrom, job>>

ChangeTo(p) ==
    /\ cwd' = p
    /\ Untouched /\ UNCHANGED identity

\* CWD that does not look whether there is such a directory.
CwdUntested(arg) ==
    /\ LoggedIn
    /\ Valid(Resolve(arg))
    /\ \/ ChangeTo(Resolve(arg))
       \/ Resolve(arg) \in Opaque /\ Throw("look", Resolve(arg))

HandleCWD(arg) ==
    /\ LoggedIn
    /\ Valid(Resolve(arg))
    /\ \/ IsDir(Resolve(arg)) /\ ChangeTo(Resolve(arg))
       \/ Resolve(arg) \in Opaque /\ Throw("look", Resolve(arg))

\* CDUP does not throw.
HandleCDUP ==
    LET parent == Resolve([abs |-> FALSE, steps |-> <<"..">>]) IN
    /\ LoggedIn
    /\ Valid(parent) /\ IsDir(parent)
    /\ ChangeTo(parent)

Look(op, p) ==
    /\ touched' = {Access(op, p)}
    /\ UNCHANGED <<fs, running, identity, renameFrom, job, cwd>>

\* MLST, MDTM and STAT: no permission is asked for.
HandleMLST(arg) ==
    /\ LoggedIn
    /\ Valid(Resolve(arg)) /\ Exists(Resolve(arg))
    /\ Look("look", Resolve(arg))

\* A command begins to wait, or to act.
Start(op, p, raced) ==
    /\ p \in Path
    /\ job' = [op |-> op, path |-> p, raced |-> raced]
    /\ touched' = {}
    /\ UNCHANGED <<fs, running, identity, cwd, renameFrom>>

Done(accesses) ==
    /\ job' = Idle
    /\ touched' = accesses
    /\ UNCHANGED <<running, identity, cwd, renameFrom>>

\* SIZE does not call validatePath().  It tests for a file first ...
HandleSIZE(arg) ==
    /\ LoggedIn
    /\ \/ IsFile(Resolve(arg)) /\ Start("size", Resolve(arg), FALSE)
       \/ Resolve(arg) \in Opaque /\ Throw("size", Resolve(arg))

\* ... and then file_size() throws if that is gone, or no file any more.
Size ==
    /\ running /\ job.op = "size"
    /\ \/ IsFile(job.path) /\ Done({Access("size", job.path)}) /\ UNCHANGED fs
       \/ (~IsFile(job.path) \/ job.path \in Opaque) /\ Throw("size", job.path)

------------------------------------------------------------------------------
(* Commands that change the tree at once.                                   *)

\* The checks that all of them start with.
MayWrite(arg) == HasPermission("write", Resolve(arg)) /\ Valid(Resolve(arg))

Write(p, what) ==
    /\ fs' = [fs EXCEPT ![p] = what]
    /\ touched' = {Access("write", p)}
    /\ UNCHANGED <<running, identity, renameFrom, job, cwd>>

\* Making and removing throws for want of a permission or of space, too.
HandleDELE(arg) ==
    LET p == Resolve(arg) IN
    /\ LoggedIn /\ MayWrite(arg)
    /\ \/ IsFile(p) /\ Write(p, "none")
       \/ (IsFile(p) \/ p \in Opaque) /\ Throw("write", p)

\* create_directory() answers false for a directory that exists, and throws when
\* a file is in its place or the parent is not a directory.
HandleMKD(arg) ==
    LET p == Resolve(arg) IN
    /\ LoggedIn /\ MayWrite(arg)
    /\ \/ ~Exists(p) /\ InDir(p) /\ p \in Path /\ Write(p, "dir")
       \/ (~IsDir(p) \/ p \in Opaque) /\ Throw("write", p)

\* RMD that does not ask for the permission to write.
RmdUngranted(arg) ==
    LET p == Resolve(arg) IN
    /\ LoggedIn /\ Valid(p)
    /\ \/ IsDir(p) /\ p # <<>> /\ IsEmpty(p) /\ Write(p, "none")
       \/ (IsDir(p) \/ p \in Opaque) /\ Throw("write", p)

\* remove() throws for a directory that is not empty, among others.
HandleRMD(arg) ==
    LET p == Resolve(arg) IN
    /\ LoggedIn /\ MayWrite(arg)
    /\ \/ IsDir(p) /\ p # <<>> /\ IsEmpty(p) /\ Write(p, "none")
       \/ (IsDir(p) \/ p \in Opaque) /\ Throw("write", p)

\* SITE CHMOD: modes are not modelled, but the file is touched.
HandleCHMOD(arg) ==
    /\ LoggedIn /\ MayWrite(arg)
    /\ Exists(Resolve(arg))
    /\ Write(Resolve(arg), fs[Resolve(arg)])

HandleRNFR(arg) ==
    /\ LoggedIn /\ MayWrite(arg)
    /\ \/ /\ Exists(Resolve(arg))
          /\ renameFrom' = [path |-> Resolve(arg), user |-> user, host |-> host]
          /\ touched' = {}
          /\ UNCHANGED <<fs, running, identity, cwd, job>>
       \/ Resolve(arg) \in Opaque /\ Throw("write", Resolve(arg))

\* RNTO is refused, which uses up the name that RNFR gave.
RefuseRNTO ==
    /\ renameFrom' = NoSource
    /\ touched' = {}
    /\ UNCHANGED <<fs, running, identity, cwd, job>>

\* RNTO that leaves it to rename() to find out what is at the target.
RntoUntested(arg) ==
    /\ LoggedIn /\ renameFrom # NoSource
    /\ \/ ~MayWrite(arg) /\ RefuseRNTO
       \/ MayWrite(arg) /\ Start("rnto", Resolve(arg), FALSE)

\* RNTO up to the test that nothing is at the target.
HandleRNTO(arg) ==
    /\ LoggedIn /\ renameFrom # NoSource
    /\ \/ (~MayWrite(arg) \/ Exists(Resolve(arg)) \/ Resolve(arg) \notin Path) /\ RefuseRNTO
       \/ MayWrite(arg) /\ ~Exists(Resolve(arg)) /\ Start("rnto", Resolve(arg), FALSE)
       \/ MayWrite(arg) /\ Resolve(arg) \in Opaque /\ Throw("write", Resolve(arg))

\* rename(2) of a file or a whole directory, in place of a file or of an empty
\* directory if there is one.  Bound: what moves must fit into Path.
CanRename(p, q) ==
    /\ Exists(p) /\ InDir(q) /\ ~Within(q, p)
    /\ Exists(q) => fs[q] = fs[p] /\ IsEmpty(q)
    /\ \A r \in Path : Within(r, p) /\ fs[r] # "none" =>
                         q \o SubSeq(r, Len(p) + 1, Len(r)) \in Path

Renamed(p, q) ==
    [r \in Path |->
        IF Within(r, q) THEN LET s == p \o SubSeq(r, Len(q) + 1, Len(r))
                             IN IF s \in Path THEN fs[s] ELSE "none"
        ELSE IF Within(r, p) THEN "none"
        ELSE fs[r]]

\* The rest of RNTO: whatever comes of rename(), the name is used up.
Rename ==
    LET p == renameFrom.path
        q == job.path
    IN
    /\ running /\ job.op = "rnto"
    /\ \/ /\ CanRename(p, q)
          /\ fs' = Renamed(p, q)
          /\ touched' = {[op |-> "write", path |-> p, user |-> renameFrom.user,
                          host |-> renameFrom.host],
                         Access("write", q)}
       \/ UNCHANGED fs /\ touched' = {}
    /\ renameFrom' = NoSource /\ job' = Idle
    /\ UNCHANGED <<running, identity, cwd>>

------------------------------------------------------------------------------
(* Commands with a data connection: the checks, the wait, and the open.     *)

\* LIST asks for the permission on the current directory, not on its argument.
HandleLIST(arg) ==
    /\ LoggedIn
    /\ HasPermission("list", cwd) /\ Valid(Resolve(arg))
    /\ \/ Exists(Resolve(arg)) /\ Start("list", Resolve(arg), FALSE)
       \/ Resolve(arg) \in Opaque /\ Throw("look", Resolve(arg))

HandleMLSD(arg) ==
    /\ LoggedIn
    /\ HasPermission("list", Resolve(arg)) /\ Valid(Resolve(arg)) /\ IsDir(Resolve(arg))
    /\ Start("mlsd", Resolve(arg), FALSE)

HandleRETR(arg) ==
    /\ LoggedIn
    /\ HasPermission("read", Resolve(arg)) /\ Valid(Resolve(arg))
    /\ \/ IsFile(Resolve(arg)) /\ Start("retr", Resolve(arg), FALSE)
       \/ Resolve(arg) \in Opaque /\ Throw("read", Resolve(arg))

HandleSTOR(arg) == LoggedIn /\ MayWrite(arg) /\ Start("stor", Resolve(arg), FALSE)

HandleAPPE(arg) == LoggedIn /\ MayWrite(arg) /\ Start("appe", Resolve(arg), FALSE)

\* STOU: the first candidate that does not exist, then as STOR.  In a directory that
\* it may not look into it takes the first one; that can be opened only if others
\* let the process in meanwhile.
HandleSTOU ==
    \E blind \in BOOLEAN :
        LET free == {i \in DOMAIN UniqueName : blind \/ ~Exists(cwd \o <<UniqueName[i]>>)}
            first == CHOOSE i \in free : \A j \in free : i <= j
            arg == [abs |-> FALSE, steps |-> <<UniqueName[first]>>]
        IN
        /\ LoggedIn /\ free # {}
        /\ blind => Resolve(arg) \in Opaque
        /\ MayWrite(arg)
        /\ Start("stou", Resolve(arg), blind)

\* No data connection (425), or an open() that fails.
NoData ==
    /\ running /\ job.op \in Transfer
    /\ Done({}) /\ UNCHANGED fs

\* Outside the try block of handleLIST(), is_directory() throws for what it may not
\* look at, and file_size() for a file that is gone.
List ==
    /\ running /\ job.op = "list"
    /\ \/ Exists(job.path) /\ Done({Access("look", job.path)}) /\ UNCHANGED fs
       \/ (~Exists(job.path) \/ job.path \in Opaque) /\ Throw("look", job.path)

ListMachine ==
    /\ running /\ job.op = "mlsd"
    /\ IsDir(job.path)
    /\ Done({Access("list", job.path)}) /\ UNCHANGED fs

Retrieve ==
    /\ running /\ job.op = "retr"
    /\ IsFile(job.path)
    /\ Done({Access("read", job.path)}) /\ UNCHANGED fs

\* create_directories() of the parent, which throws when a file is in the way or it
\* may not make one; then the file is created or truncated, unless the open() fails.
Store ==
    LET above == {q \in Path : IsStrictPrefix(q, job.path)}
        made  == [q \in Path |-> IF q \in above THEN "dir" ELSE fs[q]]
        makes == {Access("make", q) : q \in {q \in above : fs[q] = "none"}}
    IN
    /\ running /\ job.op \in {"stor", "stou"}
    /\ \/ /\ (\E q \in above : fs[q] # "dir") \/ job.path \in Opaque
          /\ Throw("write", job.path)
       \/ /\ ~\E q \in above : IsFile(q)
          /\ \/ fs' = made /\ Done(makes)
             \/ /\ ~IsDir(job.path)
                /\ fs' = [made EXCEPT ![job.path] = "file"]
                /\ Done(makes \cup {Access("write", job.path)})

\* APPE makes no directory.
AppendTo ==
    /\ running /\ job.op = "appe"
    /\ \/ /\ IsFile(job.path) \/ (~Exists(job.path) /\ InDir(job.path))
          /\ fs' = [fs EXCEPT ![job.path] = "file"]
          /\ Done({Access("write", job.path)})
       \/ job.path \in Opaque /\ Throw("write", job.path)

------------------------------------------------------------------------------
Next ==
    \/ \E p \in Foreign : Other(p)
    \/ \E n \in Name : HandleUSER(n)
    \/ RefusePASS
    \/ AcceptPASS
    \/ \E h \in Host : HandleHOST(h)
    \/ Reconnect
    \/ HandleCDUP
    \/ \E arg \in Arg :
        \/ HandleCWD(arg)
        \/ HandleMLST(arg)
        \/ HandleSIZE(arg)
        \/ HandleDELE(arg)
        \/ HandleMKD(arg)
        \/ HandleRMD(arg)
        \/ HandleCHMOD(arg)
        \/ HandleRNFR(arg)
        \/ HandleRNTO(arg)
        \/ HandleLIST(arg)
        \/ HandleMLSD(arg)
        \/ HandleRETR(arg)
        \/ HandleSTOR(arg)
        \/ HandleAPPE(arg)
    \/ HandleSTOU
    \/ Rename
    \/ Size
    \/ NoData
    \/ List
    \/ ListMachine
    \/ Retrieve
    \/ Store
    \/ AppendTo

Spec == Init /\ [][Next]_vars

------------------------------------------------------------------------------
(* Safety.                                                                  *)

\* validatePath() and hasPermission() hold for whoever made the access.
Allows(t, op, p) ==
    /\ t.user \in Account
    /\ IsPrefix(HomeOf[t.user], p)
    /\ t.host \in Host => IsPrefix(RootOf[t.host], p)
    /\ op \in {"write", "read", "list"} => Granted(t.user, op, p)

\* What a command touches lies in the home directory of the account in force
\* when it was checked, and in the root of the host selected then (the source of a
\* rename was checked by RNFR); what it writes or reads, that account was granted.
\* There are two exceptions.  SIZE checks nothing.  The directories that a STOR or
\* STOU finds missing are made unchecked, even the home directory and those above
\* it, but only on the way to a path that the account may write to.
Confined ==
    \A t \in touched :
        \/ t.op = "size"
        \/ t.op = "make" /\ \E p \in Path : IsStrictPrefix(t.path, p) /\ Allows(t, "write", p)
        \/ t.op \notin {"size", "make"} /\ Allows(t, t.op, t.path)

\* As long as no virtual host is chosen after the login, a session that is logged
\* in acts as the account whose password was accepted, in a directory of its home,
\* whatever USER and PASS commands are refused.
ActsAsLoggedIn ==
    authenticated /\ ~moved => /\ user = loginAs
                               /\ user \in Account
                               /\ Within(cwd, HomeOf[user])

\* STOU truncates a file, and RNTO replaces one or an empty directory, only if
\* others made it, or let the process see it, after the handler had found the name
\* free: for STOU the whole wait for its data connection later.
ReplacesOnlyIfRaced ==
    [][running' /\ job.op \in {"stou", "rnto"} /\ touched' # {} /\ Exists(job.path)
            => job.raced]_vars

\* An exception that nobody catches ends the process with all its sessions.  It
\* comes from a command that writes, on a path that the account in force may write
\* to; from one that looks (CWD, LIST, RETR, SIZE) at a path that the process may not
\* look at; or from LIST and SIZE when others remove what they have just seen.  Thus
\* a session without write grants ends it only in the last two ways.
WhatEndsTheProcess ==
    [][running /\ ~running' => \E t \in touched' :
        \/ t.op = "write" /\ Valid(t.path) /\ Granted(user, "write", t.path)
        \/ t.path \in Opaque
        \/ job.op = "list" /\ t.path = job.path /\ ~Exists(job.path)
        \/ job.op = "size" /\ t.path = job.path /\ ~IsFile(job.path)]_vars
==============================================================================
