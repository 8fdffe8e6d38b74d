--------------------------- MODULE ProcessControl ---------------------------
(***************************************************************************)
(* main/production.cpp: the processes of the program on one machine, which *)
(* meet in the PID file, the port, the virtual hosts file and the signals  *)
(* they send each other.                                                   *)
(*                                                                         *)
(* A process is the command that it runs.  start and restart install a     *)
(* handler for SIGTERM and SIGHUP alike, which runs FTPServer::stop() in   *)
(* the interrupted main thread; `flag` is g_shutdown_requested, with the   *)
(* signal that set it, and `handler` is where the handler is.  A process   *)
(* identifier is free again when its process has ended, and something else *)
(* may get it, but not while a command is still holding it in a variable.  *)
(***************************************************************************)
EXTENDS VirtualHosts

CONSTANTS
  Nobody,   \* no process
  Blank,    \* the PID file is there and empty
  Barred,   \* processes whose server drops its privileges and may then not
            \* change the directory of the PID file
  MaxRuns   \* bound: commands begun and signals sent by hand

VARIABLES
  at,        \* at[p] : where the process is; "free", "other" (not ours)
  command,   \* command[p] : the command that it runs
  held,      \* held[p] : the pid that the command has read
  pending,   \* pending[p] : signals sent and not yet handled
  flag,      \* flag[p] : the signal that set g_shutdown_requested
  handler,   \* handler[p] : where the signal handler is
  port,      \* the process that listens
  served,    \* the processes that have listened: g_server has had clients
  pidFile,   \* the process it names, Nobody if there is no file, or Blank
  opened,    \* the processes that have this very file open for writing
  runs,      \* commands begun and signals sent by hand
  overlap,   \* history: a start has met another command
  intruded,  \* history: a start beside a server has thrown or been signalled
  left,      \* history: a process died without removing its PID file
  hit        \* history: a command has signalled what is no server

procVars == <<at, command, held, pending, flag, handler, port, served,
              pidFile, opened, runs>>
vars == <<procVars, overlap, intruded, left, hit, hostVars>>

Command == {"start", "stop", "restart", "status", "reload", "virtual"}
Signal == {"HUP", "TERM"}

Starting == {"load", "bind", "open_pid", "write_pid"}
Serving == {"open_pid", "write_pid", "serve", "drop", "exit"}
Asking == {"read", "check", "kill", "poll", "unlink"}
Saving == {"open", "text", "undo", "undo_text"}
Place == {"free", "other", "manage", "serve", "drop", "exit", "destroy"}
           \cup Starting \cup Asking \cup Saving

ASSUME PidMarks == Nobody \notin Pid /\ Blank \notin Pid /\ Nobody # Blank
ASSUME BarredArePids == Barred \subseteq Pid
ASSUME MaxRunsIsNat == MaxRuns \in Nat

TypeOK ==
  /\ HostsTypeOK
  /\ at \in [Pid -> Place]
  /\ command \in [Pid -> Command]
  /\ held \in [Pid -> Pid \cup {Nobody}]
  /\ pending \in [Pid -> SUBSET Signal]
  /\ flag \in [Pid -> Signal \cup {"no"}]
  /\ handler \in [Pid -> {"no", "stop", "wait", "remove"}]
  /\ port \in Pid \cup {Nobody}
  /\ served \subseteq Pid
  /\ pidFile \in Pid \cup {Nobody, Blank}
  /\ opened \subseteq Pid
  /\ runs \in 0 .. MaxRuns
  /\ {overlap, intruded, left, hit} \subseteq BOOLEAN

Init ==
  /\ HostsInit
  /\ at = [p \in Pid |-> "free"]
  /\ command = [p \in Pid |-> "virtual"]
  /\ held = [p \in Pid |-> Nobody]
  /\ pending = [p \in Pid |-> {}]
  /\ flag = [p \in Pid |-> "no"]
  /\ handler = [p \in Pid |-> "no"]
  /\ port = Nobody
  /\ served = {}
  /\ pidFile = Nobody
  /\ opened = {}
  /\ runs = 0
  /\ overlap = FALSE
  /\ intruded = FALSE
  /\ left = FALSE
  /\ hit = FALSE

\* isProcessRunning(): somebody has this pid.
Running(p) == at[p] # "free"

Ours(p) == at[p] \notin {"free", "other"}

\* The handler is installed, first thing in both commands.
Handles(p) == Ours(p) /\ command[p] \in {"start", "restart"}

\* FTPServer::running_: the port is open and stop() has not closed it.
ServerRuns(p) == port = p

\* The main thread goes on unless its handler has interrupted it.
Main(p) == handler[p] = "no"

Held == {held[p] : p \in Pid}

-----------------------------------------------------------------------------
(***************************************************************************)
(* Steps that several actions share                                        *)
(***************************************************************************)

\* removePidFile(): it does not look whose file it is.
RemovePidFile == pidFile' = Nobody /\ opened' = {}

\* A file that the process may not remove makes removePidFile() throw, which
\* nothing catches for good.
MayRemove(p) == p \in Barred \cap served => pidFile = Nobody

KeepPidFile == UNCHANGED <<pidFile, opened>>

Goes(p, place) == at' = [at EXCEPT ![p] = place]

\* The processes of D are gone, with their ports and what they held.
Gone(D, aftermath) ==
  /\ at' = [q \in Pid |-> IF q \in D THEN "free" ELSE aftermath[q]]
  /\ command' = [q \in Pid |-> IF q \in D THEN "virtual" ELSE command[q]]
  /\ held' = [q \in Pid |-> IF q \in D THEN Nobody ELSE held[q]]
  /\ pending' = [q \in Pid |-> IF q \in D THEN {} ELSE pending[q]]
  /\ flag' = [q \in Pid |-> IF q \in D THEN "no" ELSE flag[q]]
  /\ handler' = [q \in Pid |-> IF q \in D THEN "no" ELSE handler[q]]
  /\ port' = IF port \in D THEN Nobody ELSE port
  /\ served' = served \ D

KeepHosts == UNCHANGED hostVars
KeepHistory == UNCHANGED <<intruded, left, hit>>

\* A process ends in order.
Ends(p) == Gone({p}, at)

\* A process dies where it stands: the PID file that names it, or that it
\* has just emptied, stays.
Dies(p, aftermath) ==
  /\ Gone({p}, aftermath)
  /\ opened' = opened \ {p}
  /\ pidFile' = pidFile
  /\ left' = (left \/ (Ours(p) /\ (pidFile = p \/ p \in opened)))
  /\ EndHosts(p, at[p] \in {"text", "undo_text"})

-----------------------------------------------------------------------------
(***************************************************************************)
(* main(): a command begins                                                *)
(***************************************************************************)

FirstPlace(c) ==
  CASE c = "start" -> "load"
    [] c = "virtual" -> "manage"
    [] OTHER -> "read"

Begin(p, c) ==
  /\ at[p] = "free"
  /\ p \notin Held
  /\ runs < MaxRuns
  /\ runs' = runs + 1
  /\ Goes(p, FirstPlace(c))
  /\ command' = [command EXCEPT ![p] = c]
  /\ UNCHANGED <<held, pending, flag, handler, port, served>>
  /\ KeepPidFile /\ KeepHosts /\ KeepHistory

\* Another program gets the pid, or ends.  Only a pid that the PID file
\* names makes a difference.
OtherComes(p) ==
  /\ at[p] = "free"
  /\ p = pidFile
  /\ p \notin Held
  /\ Goes(p, "other")
  /\ UNCHANGED <<command, held, pending, flag, handler, port, served, runs>>
  /\ KeepPidFile /\ KeepHosts /\ KeepHistory

OtherLeaves(p) ==
  /\ at[p] = "other"
  /\ Goes(p, "free")
  /\ UNCHANGED <<command, held, pending, flag, handler, port, served, runs>>
  /\ KeepPidFile /\ KeepHosts /\ KeepHistory

-----------------------------------------------------------------------------
(***************************************************************************)
(* startServer()                                                           *)
(***************************************************************************)

\* The configuration is read and the server constructed; or the
\* configuration is refused.
LoadConfiguration(p) ==
  /\ at[p] = "load" /\ Main(p)
  /\ \/ Goes(p, "bind") /\ LoadForServer(p)
        /\ UNCHANGED <<command, held, pending, flag, handler, port, served>>
     \/ Ends(p) /\ EndHosts(p, FALSE)
  /\ UNCHANGED runs
  /\ KeepPidFile /\ KeepHistory

\* Something throws, for a value of the wrong type in a file or for want of
\* memory: the handler removes the PID file.
StartThrows(p) ==
  /\ at[p] \in {"load", "bind"} /\ Main(p)
  /\ Goes(p, "drop")
  /\ intruded' = (intruded \/ port \notin {p, Nobody})
  /\ UNCHANGED <<command, held, pending, flag, handler, port, served, runs>>
  /\ UNCHANGED <<left, hit>>
  /\ KeepPidFile /\ KeepHosts

\* FTPServer::start(): the port is taken, and the privileges are dropped; or
\* it fails, for another process that has the port, a bad address or want of
\* a privilege.
Bind(p) ==
  /\ at[p] = "bind" /\ Main(p)
  /\ \/ /\ port = Nobody
        /\ port' = p
        /\ served' = served \cup {p}
        /\ Goes(p, "open_pid")
        /\ UNCHANGED <<command, held, pending, flag, handler>>
        /\ KeepHosts
     \/ Ends(p) /\ EndHosts(p, FALSE)
  /\ UNCHANGED runs
  /\ KeepPidFile /\ KeepHistory

\* writePidFile() opens the file, and by that empties it, ...  A process
\* without its privileges cannot make one, and may or may not write to one
\* that is there; that it fails is not told to anybody.
OpenPidFile(p) ==
  /\ at[p] = "open_pid" /\ Main(p)
  /\ \/ /\ p \notin Barred \/ pidFile # Nobody
        /\ pidFile' = Blank
        /\ opened' = opened \cup {p}
        /\ Goes(p, "write_pid")
     \/ /\ p \in Barred
        /\ KeepPidFile
        /\ Goes(p, "serve")
  /\ UNCHANGED <<command, held, pending, flag, handler, port, served, runs>>
  /\ KeepHosts /\ KeepHistory

\* ... and writes into the file it opened, which may have been removed.
WritePidFile(p) ==
  /\ at[p] = "write_pid" /\ Main(p)
  /\ pidFile' = IF p \in opened THEN p ELSE pidFile
  /\ opened' = opened \ {p}
  /\ Goes(p, "serve")
  /\ UNCHANGED <<command, held, pending, flag, handler, port, served, runs>>
  /\ KeepHosts /\ KeepHistory

\* The main loop leaves when a signal has been handled.
LeaveMainLoop(p) ==
  /\ at[p] = "serve" /\ Main(p)
  /\ flag[p] # "no" \/ ~ServerRuns(p)
  /\ Goes(p, "drop")
  /\ UNCHANGED <<command, held, pending, flag, handler, port, served, runs>>
  /\ KeepPidFile /\ KeepHosts /\ KeepHistory

\* An end that leaves the removal to the handler.
DropNothing(p) ==
  /\ at[p] = "drop" /\ Main(p)
  /\ KeepPidFile
  /\ Goes(p, "exit")
  /\ UNCHANGED <<command, held, pending, flag, handler, port, served, runs>>
  /\ KeepHosts /\ KeepHistory

\* The PID file is removed at the end of startServer(), and by stop and
\* status when the process it names is gone.
DropPidFile(p) ==
  /\ at[p] = "drop" /\ Main(p)
  /\ \/ /\ MayRemove(p)
        /\ RemovePidFile
        /\ Goes(p, "exit")
        /\ UNCHANGED <<command, held, pending, flag, handler, port, served>>
        /\ KeepHosts /\ KeepHistory
     \/ ~MayRemove(p) /\ Dies(p, at) /\ UNCHANGED <<intruded, hit>>
  /\ UNCHANGED runs

\* exit() destroys g_server: stop() once more, if the one in the handler came
\* before the server ran, and in any case the sessions that are left, one
\* accepted during the last stop() among them.  Their threads are joined.
DestroyServer(p) ==
  /\ at' = [at EXCEPT ![p] = "destroy"]
  /\ port' = IF port = p THEN Nobody ELSE port
  /\ UNCHANGED <<command, held, flag, served, runs, intruded, hit>>
  /\ KeepHosts

Exit(p) ==
  /\ at[p] = "exit" /\ Main(p)
  /\ \/ p \notin served /\ Ends(p) /\ EndHosts(p, FALSE) /\ KeepHistory
        /\ UNCHANGED runs
     \/ p \in served /\ DestroyServer(p) /\ UNCHANGED <<pending, handler, left>>
  /\ KeepPidFile

\* The last session has ended.
Destroyed(p) ==
  /\ at[p] = "destroy" /\ Main(p)
  /\ Ends(p) /\ EndHosts(p, FALSE)
  /\ UNCHANGED runs
  /\ KeepPidFile /\ KeepHistory

-----------------------------------------------------------------------------
(***************************************************************************)
(* stopServer(), restartServer(), showStatus(), reloadConfiguration()      *)
(***************************************************************************)

\* A step of a command that changes nothing but where it is.
Proceeds(p, place) ==
  /\ Goes(p, place)
  /\ UNCHANGED <<command, held, pending, flag, handler, port, served, runs>>
  /\ KeepHosts /\ KeepHistory

\* readPidFile(): without a file there is no process.  An empty file leaves
\* the variable as it was, and nobody has given it a value: it is any number.
ReadPidFile(p) ==
  /\ at[p] = "read" /\ Main(p)
  /\ \E q \in IF pidFile = Blank THEN Pid \cup {Nobody} ELSE {pidFile} :
       /\ held' = [held EXCEPT ![p] = q]
       /\ Goes(p, IF q = Nobody THEN "exit" ELSE "check")
  /\ UNCHANGED <<command, pending, flag, handler, port, served, runs>>
  /\ KeepPidFile /\ KeepHosts /\ KeepHistory

\* A status that removes the file of a server that runs.
CheckDropsIt(p) ==
  /\ at[p] = "check" /\ Main(p)
  /\ Proceeds(p, CASE Running(held[p]) /\ command[p] # "status" -> "kill"
                   [] command[p] = "status" -> "drop"
                   [] ~Running(held[p]) /\ command[p] \notin {"reload", "status"} -> "drop"
                   [] ~Running(held[p]) /\ command[p] = "reload" -> "exit")
  /\ KeepPidFile

Check(p) ==
  /\ at[p] = "check" /\ Main(p)
  /\ Proceeds(p, CASE Running(held[p]) /\ command[p] # "status" -> "kill"
                   [] Running(held[p]) /\ command[p] = "status" -> "exit"
                   [] ~Running(held[p]) /\ command[p] # "reload" -> "drop"
                   [] ~Running(held[p]) /\ command[p] = "reload" -> "exit")
  /\ KeepPidFile

SignalOf(c) == IF c = "reload" THEN "HUP" ELSE "TERM"
AfterKill(c) == IF c = "reload" THEN "exit" ELSE "poll"

\* kill(): whoever has the pid now gets the signal, and who has no handler
\* for it is gone.
Kill(p) ==
  LET q == held[p]
      onward == [at EXCEPT ![p] = AfterKill(command[p])]
  IN /\ at[p] = "kill" /\ Main(p)
     /\ hit' = (hit \/ (Running(q) /\ ~Handles(q)))
     /\ \/ ~Running(q) /\ Goes(p, "exit") /\ KeepPidFile
           /\ UNCHANGED <<command, held, pending, flag, handler, port, served,
                          left>>
           /\ KeepHosts
        \/ Handles(q) /\ at' = onward /\ KeepPidFile
           /\ pending' = [pending EXCEPT ![q] = @ \cup {SignalOf(command[p])}]
           /\ UNCHANGED <<command, held, flag, handler, port, served,
                          left>>
           /\ KeepHosts
        \/ Running(q) /\ ~Handles(q) /\ Dies(q, onward)
     /\ UNCHANGED <<runs, intruded>>

PollEnds(p) ==
  /\ at[p] = "poll" /\ Main(p)
  /\ ~Running(held[p])
  /\ Proceeds(p, "unlink")
  /\ KeepPidFile

\* The polls are used up, and that is all.
GiveUpGently(p) ==
  /\ at[p] = "poll" /\ Main(p)
  /\ Running(held[p])
  /\ Proceeds(p, "unlink")
  /\ KeepPidFile

\* The polls are used up: SIGKILL.
GiveUpPolling(p) ==
  /\ at[p] = "poll" /\ Main(p)
  /\ Running(held[p])
  /\ Dies(held[p], [at EXCEPT ![p] = "unlink"])
  /\ UNCHANGED <<runs, intruded, hit>>

\* stop has done its work; restart starts a server in its own process.
Unlink(p) ==
  /\ at[p] = "unlink" /\ Main(p)
  /\ Proceeds(p, IF command[p] = "restart" THEN "load" ELSE "exit")
  /\ RemovePidFile

-----------------------------------------------------------------------------
(***************************************************************************)
(* signalHandler(), in the main thread of start and restart                *)
(***************************************************************************)

\* A second signal: exit(), which destroys a server that has served.  Where
\* a thread of it is still to be joined by the handler below, or the server is
\* being destroyed already, that is the end.
ForcedExit(p, s) ==
  \/ /\ p \in served /\ handler[p] # "wait" /\ at[p] # "destroy"
     /\ DestroyServer(p)
     /\ pending' = [pending EXCEPT ![p] = @ \ {s}]
     /\ handler' = [handler EXCEPT ![p] = "no"]
     /\ pidFile' = pidFile
     /\ opened' = opened \ {p}
     /\ left' = (left \/ pidFile = p \/ p \in opened)
  \/ /\ p \notin served \/ handler[p] = "wait" \/ at[p] = "destroy"
     /\ Dies(p, at)
     /\ UNCHANGED <<runs, intruded, hit>>

\* The first signal begins the shutdown.  A second one ends the process: at
\* once if it is another signal, after the handler if it is the same.
Deliver(p) ==
  \E s \in pending[p] :
    /\ Handles(p)
    /\ Main(p) \/ s # flag[p]
    /\ \/ /\ flag[p] = "no"
          /\ flag' = [flag EXCEPT ![p] = s]
          /\ handler' = [handler EXCEPT ![p] = "stop"]
          /\ pending' = [pending EXCEPT ![p] = @ \ {s}]
          /\ intruded' = (intruded \/ port \notin {p, Nobody})
          /\ UNCHANGED <<at, command, held, port, served, runs, left, hit>>
          /\ KeepPidFile /\ KeepHosts
       \/ flag[p] # "no" /\ ForcedExit(p, s)

\* A stop() that waits for the start() that it has interrupted.
StopAwaitsStart(p) ==
  /\ handler[p] = "stop"
  /\ ServerRuns(p)
  /\ port' = Nobody
  /\ handler' = [handler EXCEPT ![p] = "wait"]
  /\ UNCHANGED <<at, command, held, pending, flag, served, runs>>
  /\ KeepPidFile /\ KeepHosts /\ KeepHistory

\* stop() of a server that runs closes the port and then waits for sessions
\* and threads; of any other it does nothing.
HandlerStops(p) ==
  /\ handler[p] = "stop"
  /\ IF ServerRuns(p)
     THEN port' = Nobody /\ handler' = [handler EXCEPT ![p] = "wait"]
     ELSE port' = port /\ handler' = [handler EXCEPT ![p] = "remove"]
  /\ UNCHANGED <<at, command, held, pending, flag, served, runs>>
  /\ KeepPidFile /\ KeepHosts /\ KeepHistory

StopReturns(p) ==
  /\ handler[p] = "wait"
  /\ handler' = [handler EXCEPT ![p] = "remove"]
  /\ UNCHANGED <<at, command, held, pending, flag, port, served, runs>>
  /\ KeepPidFile /\ KeepHosts /\ KeepHistory

HandlerRemoves(p) ==
  /\ handler[p] = "remove"
  /\ \/ /\ MayRemove(p)
        /\ RemovePidFile
        /\ handler' = [handler EXCEPT ![p] = "no"]
        /\ UNCHANGED <<at, command, held, pending, flag, port, served>>
        /\ KeepHosts /\ KeepHistory
     \/ ~MayRemove(p) /\ Dies(p, at) /\ UNCHANGED <<intruded, hit>>
  /\ UNCHANGED runs

-----------------------------------------------------------------------------
(***************************************************************************)
(* handleVirtualCommand()                                                  *)
(***************************************************************************)

KeepProcesses ==
  /\ UNCHANGED <<command, held, pending, flag, handler, port, served, runs>>
  /\ KeepPidFile /\ KeepHistory

Manage(p) ==
  /\ at[p] = "manage"
  /\ \E w \in Wish :
       \/ LoadForCommand(p, w) /\ Goes(p, "open")
       \/ ~Accepts(Loaded, w) /\ KeepHosts /\ Goes(p, "exit")
  /\ KeepProcesses

OpenHostsFile(p) ==
  /\ \/ at[p] = "open" /\ Goes(p, "text")
     \/ at[p] = "undo" /\ Goes(p, "undo_text")
  /\ OpenHosts(p)
  /\ KeepProcesses

\* The file cannot be opened: an addition is taken back, which saves again.
OpenHostsFails(p) ==
  /\ \/ at[p] = "open" /\ wish[p].does = "add"
        /\ TakeBack(p) /\ Goes(p, "undo")
     \/ at[p] = "open" /\ wish[p].does # "add"
        /\ KeepHosts /\ Goes(p, "exit")
     \/ at[p] = "undo" /\ KeepHosts /\ Goes(p, "exit")
  /\ KeepProcesses

WriteHostsFile(p) ==
  /\ at[p] \in {"text", "undo_text"}
  /\ WriteHosts(p, at[p] = "text") \/ LoseHosts(p)
  /\ Goes(p, "exit")
  /\ KeepProcesses

-----------------------------------------------------------------------------
(***************************************************************************)
(* The machine around the program                                          *)
(***************************************************************************)

\* Somebody sends a signal to a server: a terminal, the service manager.
SignalByHand(p) ==
  /\ Handles(p)
  /\ runs < MaxRuns
  /\ runs' = runs + 1
  /\ \E s \in Signal : pending' = [pending EXCEPT ![p] = @ \cup {s}]
  /\ UNCHANGED <<at, command, held, flag, handler, port, served>>
  /\ KeepPidFile /\ KeepHosts /\ KeepHistory

Crash(p) ==
  /\ Ours(p)
  /\ Dies(p, at)
  /\ UNCHANGED <<runs, intruded, hit>>

-----------------------------------------------------------------------------
(***************************************************************************)
(* When commands meet                                                      *)
(***************************************************************************)

\* A command that uses the PID file, or a server on its way.
Commanding(p) == Ours(p) /\ command[p] # "virtual" /\ at[p] # "serve"
                 /\ (flag[p] = "no" \/ at[p] \in Starting)

\* A server that has been told to stop.
Ending(p) == flag[p] # "no" \/ pending[p] # {}

\* A start or restart meets another command, or a server on its way meets
\* one that is about to stop, has yet to remove the PID file, and has not been
\* stopped by itself.
Meeting ==
  \E p, q \in Pid :
    /\ p # q
    /\ Commanding(p) /\ Handles(p)
    /\ \/ Commanding(q)
       \/ at[p] \in Starting /\ Ending(q) /\ at[q] # "destroy" /\ q # held[p]

ServerSteps(p) ==
  \/ LoadConfiguration(p) \/ StartThrows(p) \/ Bind(p) \/ OpenPidFile(p)
  \/ WritePidFile(p) \/ LeaveMainLoop(p) \/ DropPidFile(p) \/ Exit(p)

AskingSteps(p) ==
  \/ ReadPidFile(p) \/ Check(p) \/ Kill(p) \/ PollEnds(p)
  \/ GiveUpPolling(p) \/ Unlink(p)

VirtualSteps(p) ==
  \/ Manage(p) \/ OpenHostsFile(p) \/ OpenHostsFails(p) \/ WriteHostsFile(p)

MainSteps(p) == ServerSteps(p) \/ AskingSteps(p) \/ VirtualSteps(p)

HandlerSteps(p) == Deliver(p) \/ HandlerStops(p) \/ HandlerRemoves(p)

Surroundings(p) ==
  \/ \E c \in Command : Begin(p, c)
  \/ OtherComes(p) \/ OtherLeaves(p) \/ SignalByHand(p) \/ Crash(p)

\* The end of the bounded number of commands.
Terminated ==
  runs = MaxRuns /\ (\A p \in Pid : ~Ours(p)) /\ UNCHANGED vars

Next ==
  \/ /\ \E p \in Pid :
          \/ MainSteps(p) \/ HandlerSteps(p) \/ Surroundings(p)
          \/ StopReturns(p) \/ Destroyed(p)
     /\ overlap' = (overlap \/ Meeting')
  \/ Terminated

\* The scheduler runs the main thread of each process, in which the handler
\* runs too; how long stop() and the destructor wait for sessions is not
\* promised.
Fairness ==
  \A p \in Pid : WF_procVars(MainSteps(p) \/ HandlerSteps(p))

Spec == Init /\ [][Next]_vars
FairSpec == Spec /\ Fairness

-----------------------------------------------------------------------------
(***************************************************************************)
(* Properties                                                              *)
(***************************************************************************)

\* While a server serves, the PID file names it, so that stop, status and
\* reload find it; unless commands have met, a start beside a running server
\* has removed the file (removePidFile() at startServer's handler and in
\* signalHandler()), or the server dropped its privileges before it came to
\* write the file: writePidFile() fails without a word.
ServerIsNamed ==
  \A p \in Pid :
    at[p] = "serve" /\ ~Ending(p) /\ ~overlap /\ ~intruded =>
      pidFile = p \/ p \in Barred

\* When the program does not run, there is no PID file, unless one of its
\* processes died, of an exception for a file that it may not remove or of a
\* second signal as well as of a crash.
NothingLeftBehind ==
  (~left /\ \A p \in Pid : ~Ours(p) \/ command[p] = "virtual")
    => pidFile = Nobody

\* stop, restart and reload signal servers only, unless a process died and
\* left its PID file (isProcessRunning() cannot tell whose the pid is) or a
\* start was just writing it (readPidFile() returns what it has not read).
OnlyServersAreSignalled == hit => (left \/ overlap)

\* A restart finds the port free: the server that it stopped is gone.  Not so if
\* there is one more, which no PID file names since it had no privileges.
RestartFindsPortFree ==
  \A p \in Pid :
    (at[p] = "bind" /\ command[p] = "restart" /\ ~overlap /\ ~intruded)
      => port \in Barred \cup {Nobody}

\* Between saves the file has the hosts that successful commands asked for.  A
\* command that fails adds and removes none and changes no setting, even if it
\* saves again; but any save at all, its own included, takes from every host its
\* texts for error replies, which are loaded and never written.
HostsAreAsAsked ==
  (~stale /\ ~torn /\ \A p \in Pid : at[p] \notin {"text", "undo_text"})
    => Loaded = IF resaved THEN Saved(asked) ELSE asked

\* A process of the program ends, whenever it was signalled and whatever it
\* waits for, unless it serves and nobody has signalled it, or its stop() or, at
\* exit(), the destructor of the server waits for sessions.
ProcessesEnd ==
  \A p \in Pid :
    Ours(p) ~> \/ ~Ours(p)
               \/ at[p] = "serve" /\ ~Ending(p)
               \/ handler[p] = "wait"
               \/ at[p] = "destroy"

\* operations.md promises that a reload drops no connection.
ReloadKeepsServing ==
  \A p \in Pid : (at[p] = "serve" /\ flag[p] = "HUP") => ServerRuns(p)
=============================================================================
