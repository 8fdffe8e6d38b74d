------------------------------- MODULE FtpServer -------------------------------
(***************************************************************************)
(* The daemon's server object: class FTPServer of core/server.cpp, with    *)
(* the accept thread (serverLoop), the registry of connections, the        *)
(* connections and their threads, and the main thread that starts it,      *)
(* stops it on a signal and destroys it.                                   *)
(*                                                                         *)
(* The program starts its server once, stops it once (a second signal      *)
(* exits at once) and destroys it at exit.  Linux delivers the signal to   *)
(* the main thread.                                                        *)
(***************************************************************************)
EXTENDS ConnectionManager

CONSTANT MaxConnections   \* config connection.max_connections

ASSUME MaxConnectionsIsPositive == MaxConnections \in Nat \ {0}

VARIABLES
    running,     \* running_ of the server
    listening,   \* server_socket_ is open
    serverAt,    \* where serverLoop() is
    cur,         \* the socket, then the object, that serverLoop() holds
    mainAt       \* where the main thread is

srvVars == <<running, listening, serverAt, cur, mainAt>>
vars    == <<connVars, mgrVars, srvVars>>

ServerPc == {"off", "loop", "accept", "screen", "count", "create", "add", "start",
             "spawn", "drop", "dropped", "done"}
MainPc   == {"new", "up", "close", "stopAll1", "joinCleaner", "stopAll2",
             "joinServer", "stopped", "destroy", "gone"}

TypeOK ==
    /\ ConnTypeOK
    /\ MgrTypeOK
    /\ running \in BOOLEAN
    /\ listening \in BOOLEAN
    /\ serverAt \in ServerPc
    /\ cur \in Conn \cup {NoConn}
    /\ mainAt \in MainPc

Init ==
    /\ ConnInit
    /\ MgrInit
    /\ running = FALSE
    /\ listening = FALSE
    /\ serverAt = "off"
    /\ cur = NoConn
    /\ mainAt = "new"

------------------------------------------------------------------------------
(* Clients (external).                                                      *)

\* A client's connection is established by the kernel and waits for accept().
Connect(c) ==
    /\ listening
    /\ peer[c] = "away"
    /\ peer' = [peer EXCEPT ![c] = "queued"]
    /\ UNCHANGED <<sock, objVars, clientAt, sessVars, stopVars, mgrVars, srvVars>>

PeerStep(c) == Connect(c) \/ (PeerClose(c) /\ UNCHANGED <<mgrVars, srvVars>>)

------------------------------------------------------------------------------
(* serverLoop() and handleConnection(), the accept thread.                  *)

ServerGoto(pc) == serverAt' = pc /\ UNCHANGED <<running, listening, mainAt>>

LoopCheck ==
    /\ serverAt = "loop"
    /\ ServerGoto(IF running THEN "accept" ELSE "done")
    /\ UNCHANGED <<cur, connVars, mgrVars>>

\* The clients accept() can return, in any order.
Queued == {c \in Conn : listening /\ peer[c] = "queued"}

Accept(c) ==
    /\ serverAt = "accept"
    /\ c \in Queued
    /\ peer' = [peer EXCEPT ![c] = "open"]
    /\ sock' = [sock EXCEPT ![c] = TRUE]
    /\ cur' = c
    /\ ServerGoto("screen")
    /\ UNCHANGED <<objVars, clientAt, sessVars, stopVars, mgrVars>>

\* accept() has nobody to return, or its socket is closed: sleep and go round.
AcceptNobody ==
    /\ serverAt = "accept"
    /\ Queued = {}
    /\ ServerGoto("loop")
    /\ UNCHANGED <<cur, connVars, mgrVars>>

\* A rejected client's socket is closed, and the client is done.
Reject ==
    /\ sock' = [sock EXCEPT ![cur] = FALSE]
    /\ peer' = [peer EXCEPT ![cur] = "gone"]
    /\ cur' = NoConn
    /\ ServerGoto("loop")
    /\ UNCHANGED <<objVars, clientAt, sessVars, stopVars, mgrVars>>

\* The address rules and the rate limiter refuse or let pass.
Screen ==
    /\ serverAt = "screen"
    /\ \/ Reject
       \/ ServerGoto("count") /\ UNCHANGED <<cur, connVars, mgrVars>>

\* The limit taken as the last number that still lets one in.
CountTestOffByOne ==
    /\ serverAt = "count"
    /\ CountIsReadable
    /\ IF Cardinality(connections) > MaxConnections
       THEN Reject
       ELSE ServerGoto("create") /\ UNCHANGED <<cur, connVars, mgrVars>>

CountTest ==
    /\ serverAt = "count"
    /\ CountIsReadable
    /\ IF Cardinality(connections) >= MaxConnections
       THEN Reject
       ELSE ServerGoto("create") /\ UNCHANGED <<cur, connVars, mgrVars>>

Create ==
    /\ serverAt = "create"
    /\ Construct(cur)
    /\ ServerGoto("add")
    /\ UNCHANGED <<cur, mgrVars>>

Add ==
    /\ serverAt = "add"
    /\ AddConnection(cur)
    /\ ServerGoto("start")
    /\ UNCHANGED cur

\* connection->start(): active_ first, the thread after it.
Start ==
    /\ serverAt = "start"
    /\ Activate(cur)
    /\ ServerGoto("spawn")
    /\ UNCHANGED <<cur, mgrVars>>

StartThread ==
    /\ serverAt = "spawn"
    /\ Spawn(cur)
    /\ ServerGoto("drop")
    /\ UNCHANGED <<cur, mgrVars>>

\* handleConnection() returns and its shared_ptr goes.
Drop ==
    /\ serverAt = "drop"
    /\ DropRef(Acceptor, cur)
    /\ cur' = NoConn
    /\ ServerGoto("dropped")
    /\ UNCHANGED mgrVars

DropStopStep ==
    /\ serverAt = "dropped"
    /\ StopStep(Acceptor)
    /\ UNCHANGED <<mgrVars, srvVars>>

Dropped ==
    /\ serverAt = "dropped"
    /\ Returned(Acceptor)
    /\ ServerGoto("loop")
    /\ UNCHANGED <<cur, connVars, mgrVars>>

ServerStep ==
    \/ LoopCheck
    \/ \E c \in Conn : Accept(c)
    \/ AcceptNobody
    \/ Screen
    \/ CountTest
    \/ Create
    \/ Add
    \/ Start
    \/ StartThread
    \/ Drop
    \/ DropStopStep
    \/ Dropped

------------------------------------------------------------------------------
(* The main thread: start(), stop() from the signal handler, destruction.   *)

\* mainAt moves to pc, and stopAllConnections() is called on the way.
MainGoto(pc) == mainAt' = pc /\ UNCHANGED <<serverAt, cur>>
CallStopAll  == stopAllAt' = "lock" /\ UNCHANGED <<connections, mutex, cleanupAt, todo>>

\* start(): the socket, the manager and its thread, the accept thread.  It may
\* fail on the socket, and the program ends.
StartServer ==
    /\ mainAt = "new"
    /\ \/ /\ listening' = TRUE
          /\ running' = TRUE
          /\ MgrStart
          /\ serverAt' = "loop"
          /\ mainAt' = "up"
          /\ UNCHANGED cur
       \/ /\ mainAt' = "destroy"
          /\ UNCHANGED <<running, listening, serverAt, cur, mgrVars>>
    /\ UNCHANGED connVars

StopServer ==
    /\ mainAt = "up"
    /\ running' = FALSE
    /\ MainGoto("close")
    /\ UNCHANGED <<listening, connVars, mgrVars>>

CloseListener ==
    /\ mainAt = "close"
    /\ listening' = FALSE
    /\ CallStopAll
    /\ MainGoto("stopAll1")
    /\ UNCHANGED <<running, mgrRunning, connVars>>

\* The manager's stop(): running_ off, join, and stopAllConnections() again.
StopManager ==
    /\ mainAt = "stopAll1"
    /\ stopAllAt = "idle"
    /\ mgrRunning' = FALSE
    /\ MainGoto("joinCleaner")
    /\ UNCHANGED <<connections, mutex, cleanupAt, stopAllAt, todo>>
    /\ UNCHANGED <<running, listening, connVars>>

JoinCleaner ==
    /\ mainAt = "joinCleaner"
    /\ cleanupAt = "done"
    /\ CallStopAll
    /\ MainGoto("stopAll2")
    /\ UNCHANGED <<running, listening, mgrRunning, connVars>>

ManagerStopped ==
    /\ mainAt = "stopAll2"
    /\ stopAllAt = "idle"
    /\ MainGoto("joinServer")
    /\ UNCHANGED <<running, listening, connVars, mgrVars>>

\* A stop() that does not wait for the accept thread.
JoinNobody ==
    /\ mainAt = "joinServer"
    /\ MainGoto("stopped")
    /\ UNCHANGED <<running, listening, connVars, mgrVars>>

JoinServer ==
    /\ mainAt = "joinServer"
    /\ serverAt = "done"
    /\ MainGoto("stopped")
    /\ UNCHANGED <<running, listening, connVars, mgrVars>>

\* The program exits and destroys the server: both stop() return at once, and
\* the vector of connections goes with the manager, without the lock.
Destroy ==
    /\ mainAt = "stopped"
    /\ MainGoto("destroy")
    /\ UNCHANGED <<running, listening, connVars, mgrVars>>

DestroyConnection(c) ==
    /\ mainAt = "destroy"
    /\ c \in connections
    /\ Returned(Main)
    /\ EraseConnection(Main, c)
    /\ UNCHANGED <<mutex, mgrRunning, cleanupAt, stopAllAt, todo, srvVars>>

DestroyStopStep ==
    /\ mainAt = "destroy"
    /\ StopStep(Main)
    /\ UNCHANGED <<mgrVars, srvVars>>

Destroyed ==
    /\ mainAt = "destroy"
    /\ connections = {}
    /\ Returned(Main)
    /\ MainGoto("gone")
    /\ UNCHANGED <<running, listening, connVars, mgrVars>>

\* What the main thread does by itself once it was told to stop.
Shutdown ==
    \/ CloseListener
    \/ StopManager
    \/ JoinCleaner
    \/ ManagerStopped
    \/ JoinServer
    \/ Destroy
    \/ \E c \in Conn : DestroyConnection(c)
    \/ DestroyStopStep
    \/ Destroyed

------------------------------------------------------------------------------
ClientThread(c) == ClientStep(c) /\ UNCHANGED <<mgrVars, srvVars>>
ManagerStep     == MgrStep /\ UNCHANGED srvVars

\* The program has ended; clients may still be there.
Terminated == mainAt = "gone" /\ UNCHANGED vars

Next ==
    \/ \E c \in Conn : PeerStep(c) \/ ClientThread(c)
    \/ ServerStep
    \/ ManagerStep
    \/ StartServer
    \/ StopServer
    \/ Shutdown
    \/ Terminated

Spec == Init /\ [][Next]_vars

\* The operating system runs every thread that can run; a mutex that is free
\* again and again is eventually had.  Nothing makes the signal come.
ThreadFairness ==
    /\ WF_vars(ServerStep)
    /\ SF_vars(CountTest)
    /\ SF_vars(Add)
    /\ SF_vars(StopAllLocks /\ UNCHANGED srvVars)
    /\ WF_vars(CleanupStep /\ UNCHANGED srvVars)
    /\ WF_vars(StopAllStep /\ UNCHANGED srvVars)
    /\ WF_vars(StartServer)
    /\ WF_vars(Shutdown)
    /\ \A c \in Conn : WF_vars(ClientRuns(c) /\ UNCHANGED <<mgrVars, srvVars>>)

\* Clients that do not stay for ever: each one hangs up in the end, and its
\* data connections with it.
ClientFairness ==
    \A c \in Conn :
        /\ WF_vars(PeerClose(c) /\ UNCHANGED <<mgrVars, srvVars>>)
        /\ WF_vars(TransferEnds(c) /\ UNCHANGED <<mgrVars, srvVars>>)

FairSpec == Spec /\ ThreadFairness /\ ClientFairness
IdleSpec == Spec /\ ThreadFairness

------------------------------------------------------------------------------
(* Safety.                                                                  *)

\* Objects, each with a thread and a socket, never outnumber max_connections,
\* although serverLoop() reads the count, gives the lock back and adds later,
\* and although it may still hold an object that cleanup has erased.
LiveBound == Cardinality({c \in Conn : obj[c] = "live"}) <= MaxConnections

\* No two threads are ever inside stop() of the same connection, whose body
\* (flag, socket, join) takes no lock: cleanup, shutdown and the destructor of
\* the last reference exclude each other.
SingleStopper ==
    \A t, u \in Thread :
        t # u /\ ~Returned(t) /\ ~Returned(u) => stopOf[t] # stopOf[u]

\* The destructor leaves nothing behind: no thread that still runs on the dead
\* object (or a joinable one, which would abort), and no open socket.
NothingOutlivesObject ==
    \A c \in Conn :
        obj[c] = "dead" => clientAt[c] \in {"none", "done"} /\ ~joinable[c] /\ ~sock[c]

\* A session that logged in once is given back to the tracker by the time its
\* connection is destroyed, wherever stop() met the login on its way: what the
\* first stop() misses the destructor's stop() finds.  A connection that only
\* the destruction of the server stops may miss it; the tracker goes too then.
SessionGivenBack ==
    \A c \in Conn :
        obj[c] = "dead" /\ logins[c] <= 1 /\ mainAt \notin {"destroy", "gone"} => charge[c] = 0

\* When the server object is gone, so are its threads, sockets and connections.
GoneMeansClean ==
    mainAt = "gone" =>
        /\ serverAt \in {"off", "done"} /\ cleanupAt \in {"off", "done"}
        /\ \A c \in Conn : obj[c] # "live" /\ ~sock[c] /\ clientAt[c] \in {"none", "done"}

\* A connection leaves the registry of a running server only with its socket
\* closed: stop() comes before erase, in cleanup as in shutdown.
ErasedAfterStop ==
    [][\A c \in connections \ connections' : mainAt = "destroy" \/ ~sock[c]]_vars

------------------------------------------------------------------------------
(* Liveness.                                                                *)

\* The shutdown the signal asked for ends with the server destroyed.
ShutdownCompletes == (mainAt = "close") ~> (mainAt = "gone")

\* A session that ended is reclaimed: thread joined, object destroyed.
EndedIsReclaimed == \A c \in Conn : (clientAt[c] = "done") ~> (obj[c] = "dead")

\* A client that waits is accepted or refused, unless the server stops.
WaiterIsAnswered == \A c \in Conn : (peer[c] = "queued") ~> (peer[c] # "queued" \/ ~listening)
==============================================================================
