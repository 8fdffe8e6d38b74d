# A verification of simple-sftpd

TLA+ modules that model the FTP daemon of this repository, configurations that
model-check them with TLC, and theorems proved with TLAPS. File names below are
relative to `src/simple-sftpd/` unless they start with `main/`.

## 1. The system

`main/production.cpp` reads the configuration, starts an `FTPServer`, and stops
it on a signal. The server has an accept thread; each accepted client gets an
`FTPConnection` with a thread of its own, kept in the registry of an
`FTPConnectionManager`, whose cleanup thread takes ended connections away.

| Component | State | Operations | Modelled in |
|---|---|---|---|
| `FTPServer` (`core/server.cpp`) | `running_`, listening socket, accept thread | `start`, `stop`, `serverLoop`, `handleConnection`, destructor | `FtpServer` |
| `FTPConnectionManager` (`core/connection_manager.cpp`) | `connections_` under a mutex, cleanup thread | `addConnection`, `getConnectionCount`, `cleanupLoop`, `stopAllConnections`, `stop` | `ConnectionManager` |
| `FTPConnection`, its life (`core/connection.cpp:164-420`) | `active_`, `socket_`, thread, references, registered flag | `start`, `handleClient`, `stop`, destructor | `FtpConnection` |
| `FTPConnection`, login and files | user, host, current directory, rename source, the tree | USER, PASS, HOST, CWD, RETR, STOR, STOU, RNFR, ... | `FtpFiles` |
| `FTPConnection`, data connections | passive and data socket, active address, EPSV ALL, MODE, REST | PASV, EPSV, PORT, EPRT, ABOR, accept, connect, close | `FtpDataChannel` |
| `SessionTracker` (`core/session_tracker.cpp`) | sessions per user and per host | register, unregister, counts; PASS and `stop()` call them | `SessionLimits` |
| Bytes of a transfer, quotas, `Compression` | offsets, streams, files, quota | the loops of RETR, STOR, APPE | `FtpTransfer` |
| TLS: AUTH, `SSLContext` | `ssl_context_`, `ssl_`, `ssl_enabled_`, `ssl_active_` | handshake, read, write, free in `stop()` | `ControlChannel` |
| `FTPUserManager` (`user/user_manager.cpp`), `FTPUser` | map of users, JSON file | load, save, add, remove, migration; the `user` commands and the constructor of a connection call them | `UserStore`, `UserAccounts` |
| `FTPVirtualHostManager` | map of hosts, JSON file | add with undo, remove, modify, load, save | `VirtualHosts` |
| Process control (`main/production.cpp`) | PID file, port, signal flag | start, stop with kill, restart, status, reload, virtual, the signal handler | `ProcessControl` |
| `FTPRateLimiter`, and the accept thread's tests | window and count per address | allow, record | `Admission`, `FrontDoor` |
| `IPAccessControl`, password, PAM, configuration parser | | a list that stays empty, pure functions, libraries | not modelled |
| Logger, `PerformanceMonitor`, `FileCache`, vulnerability scanner | | output, counters, a cache no handler reads | not modelled |
| Enterprise and datacenter editions | | stubs | not modelled |

How they interact: the server calls the manager (add, count) from the accept
thread and (stop) from the main thread; the manager calls `stop()` of a
connection from either of its users while it holds its mutex; a connection calls
the tracker from its own thread (PASS) and from whoever runs `stop()`. Sessions
meet in three more places: the file system, the descriptor table of the process,
and the process itself, which one uncaught exception ends. Processes meet in the
user file: each connection loads it when it is constructed, and the command line
loads, changes and saves it, with no lock in between. They meet in the virtual
hosts file in the same way, and through the PID file, the port and signals.

What is hard here: five kinds of threads with one mutex that is held across joins;
an object whose last reference may go in any of three threads; flags that are
raised one step after what they stand for; descriptors that are closed twice;
checks that a ten-second wait separates from what they guard; files that are read,
written, resumed and appended to by several sessions at once, in loops that stop
short; files of accounts and hosts that are emptied before they are written; a
signal handler that does the whole shutdown, wherever the main thread was; a PID
file that names whoever has the number now; a pointer to the TLS state that is
freed under its user; a clock that is read twice; commands in any order.
`PROJECT.json` lists each hazard at its line.

What correctness means: no thread or socket outlives its object, nobody is in
`stop()` twice, and the limits hold (server); the tracker counts the sessions that
exist (sessions); a session touches what its account may touch, and whoever may not
write ends the process only by looking where the process may not look, or at what
others remove (files); no socket leaks, and a transfer uses the connection that was
asked for unless another session has closed it (data connections); accounts
change by commands only (users); the PID file names the server that serves, a
command signals servers only, and every process ends (process control); the hosts
file holds the hosts that were asked for, also when a command failed (hosts); an address gets
its allowance and no more than two in a minute, and a session that turned to TLS
stays with it until it ends (front door); a client that does not stall receives its
file in order and whole, an upload lies where it was meant to lie, and a quota holds
up to what was admitted (transfers).

## 2. The modules

`FtpServer` EXTENDS `ConnectionManager` EXTENDS `FtpConnection`: one state machine
of the main, accept, cleanup and client threads. `UserStore` takes `UserAccounts`
as the specification it implements. `ProcessControl` EXTENDS `VirtualHosts`, and
`FrontDoor` composes `Admission` and `ControlChannel`. The others are separate,
since they share no state with these that their properties need; each takes from a
neighbour only what it promises. (In `SessionLimits` and `FtpDataChannel` another
thread's `stop()` may come at any time, which is more than the server does.) `MC*`
modules give constants their values.

### FtpConnection, ConnectionManager, FtpServer

A step is one access to state that another thread may read in between, so
`start()` (flag, thread), `stop()` (unregister, flag, data socket, socket, join)
and PASS (register, flag) are several. `stopOf` and `stopAt` are the program
counter of `stop()` in each thread that can run it; `refs` counts the
`shared_ptr`s; `obj` becomes "dead" when the destructor's `stop()` returns.
`mutex` is held by the cleanup across each `stop()` it makes, as in the code.
A command is only what it does to the life of the connection: answer, log in,
end, or block on a data connection. A client that hangs up within a line has what it
sent executed, with `active_` already cleared (`ReadRest`).

Abstractions: the vector is swept in any order; address rules and the limiter
refuse or admit by choice; the connection pool, which has no caller, is left out;
the signal is delivered to the main thread. `send()` to a client that is gone is
an error, not a SIGPIPE: the daemon does not ignore the signal itself, but systemd
does for a service unless told otherwise, and `deployment/systemd` says nothing
else.

### SessionLimits

The counts of the tracker, and, for each connection, the name and host that
`stop()` will hand back and where PASS is between its tests and the flag. Bounds:
none but the number of connections, since a place is used again.

### FtpFiles

One session in full, everybody else by `Other`, which makes or removes a file or
an empty directory at any moment. A path is a sequence of names; `Resolve`,
`Valid` and `Granted` are `resolvePath()`, `validatePath()` and `hasPermission()`.
A command without data connection is one step. A transfer is two: the checks
(`Start`), and the access after the wait; so is RNTO, whose `rename()` (`Rename`)
comes after the test that nothing is at the target (`HandleRNTO`), and SIZE, which
asks for the size (`Size`) of a file that it has found (`HandleSIZE`). `job.raced`
remembers whether others put something in the place in between. `Access` records
who was checked for what, so that `Confined` can be said of what is touched and not
of how it was computed. It has two exceptions. SIZE checks nothing. The directories
that `create_directories()` of STOR and STOU makes on the way to a path are made
unchecked (`make`), and may lie above what the account may write, or its home.

The handlers call the overloads of `std::filesystem` that throw, and nothing in the
thread of a connection catches: MKD below a missing directory, RMD of a full one,
STOR below a file, a LIST whose path went away during its wait, and a SIZE whose
file did between its two calls end the process for every session (`Throw`, which
sets `running` to FALSE; `Reconnect` starts again). So do `exists()` and
`is_directory()` of CWD, LIST, RETR and SIZE where the process may not look, since
a name is too long or a directory lets nobody in: `Opaque` are the paths at which
this may happen. `WhatEndsTheProcess` says for whom an end is in reach.

Abstractions: no symbolic links, no chroot, no PAM, no quotas, no sizes; modes
and times are not kept, so that an opaque path throws or does not by choice.

### FtpDataChannel

Several sessions over one table of descriptors: a new descriptor is the lowest
free number, and `close()` closes whatever has the number. `table` remembers who
opened what. `asked`, `via`, `robbed` and `spent` are history, for the properties
only: `via` says whose listening socket the connection came through, `robbed` which
of its sockets another session has closed. A transfer is a command that was read, the
"150", a wait, a connection, and an end that closes `fd` and leaves `data`
(`data_socket_`) as the code does: at the number of a socket that is closed, so
that a later `closeDataSocket()` closes whatever has the number then, also a
socket of another session. `NoSocketLeaks` holds in spite of it; `LastModeWins` names
what else comes of it: a transfer may then take its connection from the listening
socket of another session. `stop()` of another thread waits for
`acceptDataConnection()` alone; it may fall between the "150" and the lock, and a line
that was read before it is executed after it. `Plain` sessions (a bound) only send
PASV and LIST.

Abstractions: the control connections' and the files' descriptors are not in the
table; whether a path is accepted does not matter.

### UserAccounts, UserStore

`UserAccounts` is the promise: a map from names to accounts that the commands
change one after the other, with the default accounts where a connection may add
them, until `disturbed`. `UserStore` is the code: a process loads the file into
memory (`Load`; a password in plain text is hashed, and then the file is
rewritten), changes the memory (`AddUser`, `RemoveUser`, `SetPassword`,
`ModifyUser` of the command line; `AddTest`, `AddAnonymous` of a connection), and
saves in two steps, the opening that empties the file (`Open`) and the text
(`Write`). Either may fail, hashing may fail, and a process may be killed at any
step. The refinement maps the abstract accounts to the last text that was written
completely, read as a loader reads it (`Plain(content)`); `disturbed` becomes TRUE
when a save replaces what its process has not read.

Abstractions: an account is a password and everything else (`attr`); the order of
users in the file is not kept; a text is written whole or not at all, where a
crash may also leave a part of it, which does not parse either. What the commands
print is left out. Bound: `MaxRuns` commands and connections.

### FtpTransfer

Several sessions over the same files. A file is a sequence of bytes, and a byte
is known by the command that stored it and the place its sender meant it for, so
that the properties can ask where it went. One action is one call of the loops:
`Sendfile`, `SendMapped`, `ReadAndSend`, `Receive`, each with any shorter count
that the call may return, and the ways in which each method gives up
(`SendfileStops`, `MmapStops`, `ReadStops`, `DiskError`). `Disconnect` is a
connection that is lost; in active mode `send()` also fails when the client has taken
nothing for ten seconds, and the next one may work (`SendTimesOut`). `offset` is the variable
of `handleRETR()`: `sendfile()` advances it, the loop over the mapping does not,
and each later method starts from it; `pos` is where the current method is. The
mapping can be read up to the end of the page in which the file now ends (`Page`).
An upload fills the buffer of its `ofstream`, which keeps the bytes or writes them
(`Flush`); `how` is the mode that STOR and APPE choose before they open the file, and
an open for update that fails is tried again with truncation (`OpensAs`). `meant` is
how much the client sends; `ReceiveFails` ends the loop before it is all there.
After a disk error the stream writes nothing more (`faulty`), and nothing notices.
The quota is looked at in `Start` only (`Allowed`). `from`, `before`, `got`,
`stored`, `disturbed`, `trampled`, `stalled`, `cut`, `strayed` and `peak` are history.

What the code does here and the properties name as an exception: a "226" is sent
for a download that a lost connection or a short or late `send()` cut off, and for an
upload whose `recv()` failed or timed out; after a failed `send()` from the mapping
the last method starts again at `offset`, so that a client that only stalled receives
bytes twice (`stalled`); if the file has become shorter, the rest of its last page is
sent; a resumed STOR whose file is gone, or cannot be opened for update, writes at 0
of an empty file; an APPE
that found no file empties what another one has stored meanwhile; and the loop of
`ZlibStream::process()`, told that there is no more input, goes round for ever if
the client ended a MODE Z upload before its stream did ("spin" in `TransfersEnd`).

Abstractions: open files are not deleted or renamed; what a failed write had
brought to the disk is lost as a whole; the output of zlib is counted when it is
read; throttling is a delay and left
out, and so are the "426" of a failed initialisation of zlib and positions beyond
63 bits. `create_directories()`, which may throw, is in `FtpFiles`. Bounds:
`MaxUp` bytes per upload, `MaxRest`, `MaxJobs` commands.

### VirtualHosts, ProcessControl

A process is the command that it runs, and `at` says where it is. `start` and
`restart` install one handler for SIGTERM and SIGHUP, which runs `FTPServer::stop()`
in the interrupted main thread; `handler` is where it is, `flag` is
`g_shutdown_requested`, and `Main` says that the main thread does not go on
meanwhile. `Deliver` is a signal that begins the shutdown, or, as the second one,
ends the process. `writePidFile()` is two steps (`OpenPidFile`, `WritePidFile`), so
that a reader may find the file empty; `readPidFile()` then returns a variable that
nobody has set, which is any number. `Kill` meets whoever has the number now, and
`OtherComes` lets another program have it. `Crash` ends a process anywhere.
`Bind` may fail for other reasons than a port that is taken. `Barred` processes drop
their privileges and may then not change the directory of the PID file:
`writePidFile()` then fails without a word, and `removePidFile()` throws. The server
is a static object: `exit()` runs its destructor (`DestroyServer`), whose `stop()`
waits for the sessions of a server that has served (`served`, "destroy", `Destroyed`),
also when a second signal ends the process (`ForcedExit`).

`VirtualHosts` is the manager's map in the memory of each process and the file:
loading, the commands, and a save in two steps, the opening, which empties the
file, and the text. Either may fail. An addition that could not be saved is taken
back, which saves again (`TakeBack`). `saveVirtualHosts()` does not write the
texts for error replies that `loadVirtualHosts()` reads (`custom`, `Saved`), so that
any save loses those of every host (`resaved`).

History, for the properties: `overlap` (two commands met), `intruded` (a start
beside a running server threw or was signalled, and removed the server's PID file),
`left` (a process died without removing its PID file), `hit` (something that is no
server was signalled), `stale` and `torn` (a save replaced what its process had not
read, or ended without its text). The code has these cases; the properties say that
they, and servers without privileges (`Barred`), are the only ones in which it goes
wrong.

Abstractions: the two forks of `daemonize()` are one process; the commands that do not
serve are run by a user who may change the PID directory; a number is not given away
while a command holds it in a variable, so that a SIGKILL after the last poll meets
nobody else; the polls of `stopServer()` are a wait that ends when it likes; a thread
that cannot be created after `bind()`, and what a handler may break by calls that are
not safe in one (locks that the main thread holds), are left out. Bounds: `MaxRuns`
commands and signals by hand.

### Admission, ControlChannel, FrontDoor

`Admission` is the order of the accept thread's tests and the limiter's entry for an
address. `isAllowed()` and `recordRequest()` each read the clock, so `Tick` may fall
between them and end a window there. Bounds: `MaxTime`, `MaxRequests`.

`ControlChannel` is the thread of a connection at the places where it looks at
`ssl_` and where it uses what it saw (`ChooseRead`, `ReadLine`, `ChooseWrite`,
`Write`, `CreateSSL`, `Handshake`), the three steps in which the accept thread makes a
session (`Open`: constructor and registry; `Activate`: `active_`; `Spawn`: its thread),
and `stop()` of another thread in its steps: clear `active_`, free, null, close, join.
The cleanup stops what is not active, so it may meet a session between `Open` and
`Activate` and stop it at any time after (`early`); one thread at a time does so
(`Unlocked`), and a session that is erased under the accept thread's hands lives on
there ("erased"). A use of a pointer that has been freed goes on in any way
the code has for it, or the process dies (`DieOfPointer`). Of the commands, AUTH is
told from the others. OpenSSL succeeds or fails.

`FrontDoor` is `serverLoop()` between them: an admitted client gets a connection if
there is room. The limiter decides who comes in, the sessions make room again.

## 3. The runs

| Run | Instance | What it shows |
|---|---|---|
| `server_safety` | 2 clients, both admitted, 1 login each | `SingleStopper`; `NothingOutlivesObject`; `SessionGivenBack`; `GoneMeansClean`; `ErasedAfterStop` |
| `server_progress` | 2 clients, room for 1 | `LiveBound`; shutdown ends, ended sessions are reclaimed, waiting clients answered, if clients leave in the end |
| `server_idle_shutdown` | 1 silent client | VIOLATED `ShutdownCompletes`: `stop()` closes the socket and joins a thread that `close()` does not wake |
| `session_limits` | 3 connections, 2 users, 1 host, limits 1 and 2 | `OvershootBound`, `NeverUndercounts`, `CountsAreExact` |
| `ftp_files` | 6 paths, one of them opaque, 2 accounts of one name, 1 virtual host | `TypeOK`, `Confined`, `ActsAsLoggedIn`, `ReplacesOnlyIfRaced`, `WhatEndsTheProcess` |
| `data_channel` | 2 sessions, one plain, 4 descriptors, 2 addresses | `NoSocketLeaks`, `LastModeWins`, `RestServesOnce` |
| `user_store` | a server and a command line, 2 names, 2 passwords, 2 attributes, 3 runs, 3 first files | `ActsAsAccounts` (implements `UserAccounts`), `StaleNeedsOverlap`, `BrokenIsASave` |
| `users_survive` | a server alone, 2 runs | VIOLATED `UsersSurvive`: a server that dies while it saves leaves a file that the next connection takes for an empty store |
| `ftp_transfer` | 2 sessions, a file of 2 bytes and a missing one, chunks and pages of 2, uploads of 1 byte, 2 commands | `DownloadsAreInOrder`, `DownloadsAreWhole`, `BytesAreInPlace`, `UploadsAreStored`, `AppendsSurvive`, `QuotaOvershoot`, `TransfersEnd` |
| `administration` | 3 processes, 3 commands or signals, 1 host with 1 setting | `ServerIsNamed`, `NothingLeftBehind`, `OnlyServersAreSignalled`, `RestartFindsPortFree`, `HostsAreAsAsked`, `ProcessesEnd` |
| `reload_keeps_serving` | 2 processes, 2 commands | VIOLATED `ReloadKeepsServing`: SIGHUP runs the handler of SIGTERM, so that `reload` ends the server |
| `front_door` | 1 address, 2 requests per 2 ticks, a clock of 6, 5 requests; 1 connection with certificates of server and host | `TwoWindowsAtMost`, `RefusedOnlyIfBusy`, `CommandsStayPrivate`, `RepliesStayPrivate` |

The violated runs are the project's findings; `PROJECT.json` quotes what the
repository says against each. What else the code does, and properties of passing
runs measure: test and registration of a session are not atomic, and
`OvershootBound` says by how much the limit is missed; a client that is accepted
after the last sweep of `stop()` is served until the destructor, which
`GoneMeansClean` says leaves nothing; `CountsAreExact` and `NeverUndercounts` say
which order of USER, HOST and PASS makes the tracker count wrong;
`StaleNeedsOverlap` says when the command line and a connection can undo each
other's accounts; `QuotaOvershoot` bounds what concurrent uploads bring over the
quota; `TwoWindowsAtMost` says how tight an address can pack its requests around the
edge of a window; `RepliesStayPrivate` says that a line in clear after AUTH takes a
session that is being stopped and has ended, or that the cleanup met before it had
started; `WhatEndsTheProcess` that whoever may not write can end the process only by a
LIST or SIZE of what others remove meanwhile, or by a look where the process may not
look; `ServerIsNamed` that a server which has given up its privileges may serve with no
PID file; `HostsAreAsAsked` that a command which fails may still cost every host its
texts. Type
invariants that a theorem covers are not checked again.

Why the bounds are enough. The hazards of the server are between one connection
and the threads around it; a second connection adds the limit, the queue at the
lock, and a sweep with something left to visit. Three connections let two race for
a limit while a third leaves. Six paths hold a home with a directory and a file in
it, a file beside, and a second home that is the root of a host; five arguments
reach inside, outside, up, and an absolute path. Four descriptors let both
sessions have a listening socket and a transfer at once, and with fewer free
numbers than wishes every open can also fail. Three runs over a user file let two
overlap after a first one that migrated or broke it. A file of two bytes is sent in one
call or, when one is short, in two, of which each may stop inside the page and be
followed by the next method, time out or break; a second command of either session
changes the file under it. Two uploads of one byte against a quota of one byte
more than the file show the overshoot. Three processes and three commands let a
server run while two commands meet, or one command meet a number that another
program has; a second virtual command loads what the first one is saving. A clock
of three windows with five requests holds two allowances that meet at an edge and
the request that must not fit; the second address and the second connection that
`MCFrontDoor` names would only add interleavings, since entries and connections
share nothing else.

Why deadlock checking is on everywhere: no program state here is final except the
end of the process, which `Terminated` names.

In `user_store`, `ftp_transfer`, `administration`, `front_door` and their violated
runs `Terminated` is the end of the bounded number of commands.

Fairness. `ThreadFairness` is weak fairness for each thread, which the scheduler
gives, and strong fairness for taking the registry's mutex, which others release
infinitely often. `ClientFairness` is about the environment: each client hangs up
in the end. The code has no idle timeout that would make it so
(`connection_timeout_` is never read), which is what `server_idle_shutdown` shows
by leaving this assumption out. `FairSpec` of `FtpTransfer` is weak fairness for
the steps of each handler, which includes that a client ends its upload and that
somebody connects or the wait ends; nothing is assumed of faults or commands.
`Fairness` of `ProcessControl` is weak fairness for the main thread of each process
with its handler, which the scheduler gives; that `stop()` returns to the handler is
not promised (`StopReturns`), because of what `server_idle_shutdown` shows, and
`ProcessesEnd` names it, as it names the destructor that `exit()` runs (`Destroyed`).

## 4. The proofs

All statements hold for any values of the constants that satisfy the named
assumptions: `NoConnIsNoClient`, `MaxLoginsIsNat`, `ThreadsAreThree`,
`MaxConnectionsIsPositive`; those of `SessionLimits`; `EndpointsDiffer`,
`LimitsAreNat`; of `UserStore`, that the marks for a missing or broken file and a
missing account are no values of their kinds, the defaults are accounts, and the
first file parses; of `FtpTransfer`, `FlagsAreBoolean`, `SizesArePositive`,
`BoundsAreNat`, `SetsAreFinite` (which includes that there is a file),
`MissingIsNoContent`, `FirstContentIsOld`; of `FrontDoor`, `LimiterNumbers`, `NobodyIsNoAddress`, `CertIsABoolean`,
`HostCertIsPossible`, `MaxConnectionsIsNat`; of `FtpFiles`, `PathsAreATree`
(with "/", and with the parent of each path), `PathsAreSequences`, `NamesAreProper`
(no file is called ".."), `AccountsAreDescribed`; of `ProcessControl` and `VirtualHosts`, `PidMarks`,
`BarredArePids`, `MaxRunsIsNat`, `HostMarks`. So they hold for any number of clients, sessions,
descriptors, processes, accounts, files, bytes, addresses and paths, and any
limits.

`FtpServerProofs`: `InductiveInvariant`, `TypeCorrect`, `StopIsExclusive`.
`SingleStopper` is not inductive: that cleanup and shutdown exclude each other
comes from the mutex, and that the destructor excludes both from the reference
that the registry holds. The invariant states these: who holds the mutex while a
sweep is under way, that what is in the registry or in the accept thread's hand
is referenced and how often, and that an object without references is in the
hand of one thread only.

Of the same module: `LimitIsKept`, `DeadIsClean`, `SessionsAreGivenBack`,
`ServerIsClean`, `StopComesFirst`, all from `LifeInv` on top of that invariant. What
a dead object has left behind depends on what its last `stop()` found, so the
argument follows the object: once its socket is closed its thread reads no command
any more (`Quiet`); what is erased from the registry, or is about to be, is quiet
(`QuietInv`); an object without references is in the hand of a thread that runs its
`stop()` (`OwnerInv`); the tracker's count is the registered flag, plus one in the
step of PASS between the two (`SessionInv`); and from the test of the limit to the
creation nobody else makes an object (`RoomInv`).

`SessionLimitsProofs`: `TypeCorrect`, `LimitsAreNearlyKept`, `CountsAreEnough`,
`CountsAreRight`. The count of a user plus the connections between test and
registration stays below limit plus connections: a connection that joins the
window found the count below the limit, and the window has at most all
connections. The count alone is not inductive; the sum is. The lemmas are on the
cardinality of the window after a step. The other two compare the counts with the
connections that are registered or one step before it (`Counted`), and need that a
second login of a connection is noticed before it is counted (`FirstLogins`).

`FtpDataChannelProofs`: `TypeCorrect`, `SocketsAreKept`, `LastAskedIsUsed`,
`RestIsUsedUp`, `NoActiveAfterEpsvAll`. `NoSocketLeaks` is inductive with the
types, in which a transfer has a descriptor and nothing else does.
`LastModeWins` needs `ModeInv`: a session has a passive socket or an address,
never both, and what it has is what was asked for; and `OwnInv`: what a session keeps
the number of is its own, or else another one has closed it. `RestServesOnce` needs that
no completed transfer left its position (`spent`) and that MODE Z was tested at
the start of a transfer and cannot change during it.

`UserStoreProofs`: `TypeCorrect`, `BrokenIsOnlyASave`, `TurnsAreSafe`,
`PlaintextIsAFailure`, `StoreImplementsAccounts`. `TurnsAreSafe` needs that
without an overlap at most one process is at work and the file says what it has
read. The refinement needs that, while nothing is disturbed, the memory of a
process that is about to save is what its command makes of what it has read
(`Makes`), and that hashing does not show through `Plain`; each step of the store
is then a command of `UserAccounts`, the disturbance, or a stutter.

`FtpFilesProofs`: `AccessIsConfined`, `SessionActsAsLoggedIn`. `Confined` speaks
of the last step only. What carries it from the checks to the access is that a
waiting command was checked for the identity in force, which no step changes
meanwhile (`JobInv`), and that the source of a rename was checked for the identity
that RNFR left with it, whoever has logged in since (`RenameInv`). For the
identity itself, `LoginInv` says that a refused PASS after an accepted one can
only have asked for the same account: USER would have ended the login, and HOST is
the exception.

Of the same module: `WholeInvariant`, `FilesTypeCorrect`, `ReplacesWhatOthersMade`,
`EndsOfTheProcess`, all from `WholeInv`. `TreeInv` says that everything strictly
above something that exists is a directory, which `TypeOK` says of the next level
only: `create_directories()` makes a whole path at once, and `rename()` moves all
that is below a directory, so the next level is not inductive. `SessionInv` has that
`Resolve` ends in the tree, for which `Normalize` must take ".." away wherever it
stands. `RacedInv` carries the test of RNTO and STOU over the wait. For
`WhatEndsTheProcess` each call that throws is traced back to the permission that its
handler had tested for that path, to the path being opaque, or to what the job had
seen there.

`FrontDoorProofs`: `TypeCorrect`, `TwoAllowances`, `RefusalIsEarned`,
`CommandsArePrivate`, `RepliesArePrivate`. For the limiter the invariant relates the
entry to the recorded times: it counts the last of them, they lie in its window, and
all but one allowance of the others lie before the window that came last (`Placed`);
`MayRecord` says what is left of the answer of `isAllowed()` when `recordRequest()`
looks at the clock again. For the channel it says at which places of the thread the
pointer can be what, and that a `stop()` before the shutdown found `active_` cleared
or came early (`SessionInv`). The halves share no variable.

`FtpTransferProofs`: `TypeCorrect`, `ReceivedInOrder`, `CompleteMeansWhole`,
`UploadsInPlace`. The first needs where a command can be and that a file which is
open exists (`StageInv`). That downloads are in order and whole rests on `Sound`:
unless something happened to the file, the connection or the disk, or a `send()` timed
out, the place of
the current method is where the client is, `offset` has followed it in the part
that `sendfile()` sends, and the file is as long as it was, so that the mapping
can be read to its end. `UploadsInPlace` rests on `Upload`: until a write fails,
what the stream holds belongs where the stream stands, and what the client sends
next belongs behind it; `Apart` says what a session's step leaves of the others.

Of the same module: `WhatWasSentIsStored`, `EveryAppendSurvives`,
`QuotaIsOvershotByAdmitted`. For the first, `Streamed` cuts an upload in what the
stream has written and what it still holds: the file is what the client meant it to
be after the first part (`Written`), and writing the second part after the first is
writing both at once (`OverwriteTwice`). For the second, `Numbered` says that a
command's number is on no byte but its own, and `Appended` that the file holds the
written part in order; another session's step leaves the file alone, tramples on it,
or appends bytes with another number (`OthersOnlyAppend`). For the third, what the
home holds is not bounded by itself: `WithinQuota` adds what every admitted STOR
can still put there (`Room`), its stream included. Receiving and writing do not raise
that sum, an APPE does not count in it, and a STOR that starts has found the home
below the quota, when no more than `peak` of them have room for `MaxUp` bytes each.
The sums are `SumFunction` of the community modules: `SumUnfolds` and `SetInduct`
get from its recursive definition what it is by the least number of members for
which a fact could fail, and `SumChanges`, `SumIsLess` and `SumIsBounded` follow.

`ProcessControlProofs`: `TypeCorrect`, `ServingIsNamed`, `NoFileLeftBehind`,
`SignalsReachServers`, `RestartsFindPort`, `HostsAreAsked`. What a command reads in
the PID file is about a moment that is past when it acts, so the argument is about
who else can be under way then. While no start has met another command, a process
on its way to serve is alone, but for servers that nobody has told to stop (`Alone`,
from `MeetInv`), and beside a server only processes that leave its file as it is
(`Harmless`, in `NamedInv`). `FileInv` says whom the file names and that a blank one
is about to be written, `HeldInv` that the process which a command has read is or
was a server and is gone when the command goes on, `RestartInv` that a restart has
read whose port it will need. For the hosts, `MemoryInv` relates the memory of the
one process that has read the file to what was asked for: taking an addition back
gives what there was (`TakenBack`), and what a save forgets does not depend on
whether it comes before a change or after it (`SavedChanged`).

Only model-checked: liveness, since fairness and ENABLED are out of the provers'
reach (`ShutdownCompletes`, `EndedIsReclaimed`, `WaiterIsAnswered`, `TransfersEnd`,
`ProcessesEnd`). Each other property of a passing run has its theorem. `SelectSeq`
has no definition that the provers can expand, so `AppendsSurvive` says with
`Holds` that the bytes of the APPE in the file are those that were sent, each once
and in order.

## 5. Not modelled, and what could follow

Not modelled, beside the parts that the table names: `chroot()` at login, which
acts on the whole process (it needs root and an account with the option; a model
needs several sessions over one tree); the level that PROT sets, which no code
reads, since data connections are never encrypted; symbolic links; the removal of
files that are open; SITE UTIME and what listings look like; throttling, which is
a delay; the connection pool and `removeConnection()`, which have no caller; the
lists of `IPAccessControl`, to which no code adds a rule; the user commands'
reports against what they did.

What could follow: several full sessions in `FtpFiles`.
