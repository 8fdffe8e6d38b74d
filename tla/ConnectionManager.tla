-------------------------- MODULE ConnectionManager --------------------------
(***************************************************************************)
(* The registry of connections and its cleanup thread: class               *)
(* FTPConnectionManager of core/connection_manager.cpp.                    *)
(*                                                                         *)
(* connections_mutex_ is held across every stop() that cleanupLoop() and   *)
(* stopAllConnections() call, so a stop() that blocks in its join keeps    *)
(* every other user of the registry out.  The vector is visited in order;  *)
(* the model visits it in any order.                                       *)
(*                                                                         *)
(* The connection pool beside the registry has no caller in the program    *)
(* and stays empty: its maintenance thread sleeps and ends, and is left    *)
(* out, as is the join of it.                                              *)
(***************************************************************************)
EXTENDS FtpConnection

CONSTANTS Free, Main, Acceptor, Cleaner   \* nobody; the three threads

ASSUME ThreadsAreThree ==
    /\ Thread = {Main, Acceptor, Cleaner}
    /\ Main # Acceptor /\ Main # Cleaner /\ Acceptor # Cleaner
    /\ Free \notin Thread

VARIABLES
    connections,   \* connections_
    mutex,         \* the holder of connections_mutex_
    mgrRunning,    \* running_ of the manager
    cleanupAt,     \* where cleanupLoop() is
    stopAllAt,     \* where stopAllConnections() is, always run by Main
    todo           \* what the loop of the thread that holds the mutex has left to visit

mgrVars == <<connections, mutex, mgrRunning, cleanupAt, stopAllAt, todo>>

CleanupPc == {"off", "sleep", "lock", "sweep", "stop", "erased", "done"}
StopAllPc == {"idle", "lock", "stop", "clear"}

MgrTypeOK ==
    /\ connections \subseteq Conn
    /\ mutex \in Thread \cup {Free}
    /\ mgrRunning \in BOOLEAN
    /\ cleanupAt \in CleanupPc
    /\ stopAllAt \in StopAllPc
    /\ todo \subseteq Conn

MgrInit ==
    /\ connections = {}
    /\ mutex = Free
    /\ mgrRunning = FALSE
    /\ cleanupAt = "off"
    /\ stopAllAt = "idle"
    /\ todo = {}

\* Thread t is in no stop(): the one it called, if any, has returned.
Returned(t) == stopAt[t] = "idle"

------------------------------------------------------------------------------
(* addConnection(), getConnectionCount(), and erasing an element.           *)

AddConnection(c) ==
    /\ mutex = Free
    /\ connections' = connections \cup {c}
    /\ refs' = [refs EXCEPT ![c] = @ + 1]
    /\ UNCHANGED <<mutex, mgrRunning, cleanupAt, stopAllAt, todo>>
    /\ UNCHANGED <<peerVars, obj, active, joinable, clientAt, sessVars, stopVars>>

\* The count is read under the lock, by the accept thread.
CountIsReadable == mutex = Free

EraseConnection(t, c) ==
    /\ connections' = connections \ {c}
    /\ DropRef(t, c)

------------------------------------------------------------------------------
(* start() and cleanupLoop().                                               *)

MgrStart ==
    /\ mgrRunning' = TRUE
    /\ cleanupAt' = "sleep"
    /\ UNCHANGED <<connections, mutex, stopAllAt, todo>>

\* The sleep of up to a second is over; running_ decides what comes next.
CleanupWakes ==
    /\ cleanupAt = "sleep"
    /\ cleanupAt' = IF mgrRunning THEN "lock" ELSE "done"
    /\ UNCHANGED <<connections, mutex, mgrRunning, stopAllAt, todo, connVars>>

CleanupLocks ==
    /\ cleanupAt = "lock"
    /\ mutex = Free
    /\ mutex' = Cleaner
    /\ todo' = connections
    /\ cleanupAt' = "sweep"
    /\ UNCHANGED <<connections, mgrRunning, stopAllAt, connVars>>

\* An active connection is skipped.
CleanupSkips(c) ==
    /\ cleanupAt = "sweep"
    /\ c \in todo
    /\ active[c]
    /\ todo' = todo \ {c}
    /\ UNCHANGED <<connections, mutex, mgrRunning, cleanupAt, stopAllAt, connVars>>

\* A sweep that erases an inactive connection without stopping it.
CleanupStopsNothing(c) ==
    /\ cleanupAt = "sweep"
    /\ c \in todo
    /\ ~active[c]
    /\ stopOf' = [stopOf EXCEPT ![Cleaner] = c]
    /\ todo' = todo \ {c}
    /\ cleanupAt' = "stop"
    /\ UNCHANGED <<connections, mutex, mgrRunning, stopAllAt>>
    /\ UNCHANGED <<peerVars, objVars, clientAt, sessVars, stopAt>>

\* An inactive one is stopped, with the lock held ...
CleanupStops(c) ==
    /\ cleanupAt = "sweep"
    /\ c \in todo
    /\ ~active[c]
    /\ CallStop(Cleaner, c)
    /\ todo' = todo \ {c}
    /\ cleanupAt' = "stop"
    /\ UNCHANGED <<connections, mutex, mgrRunning, stopAllAt>>
    /\ UNCHANGED <<peerVars, objVars, clientAt, sessVars>>

CleanupStopStep ==
    /\ cleanupAt \in {"stop", "erased"}
    /\ StopStep(Cleaner)
    /\ UNCHANGED mgrVars

\* ... and erased, which destroys it unless the accept thread still refers to it.
CleanupErases ==
    /\ cleanupAt = "stop"
    /\ Returned(Cleaner)
    /\ EraseConnection(Cleaner, stopOf[Cleaner])
    /\ cleanupAt' = "erased"
    /\ UNCHANGED <<mutex, mgrRunning, stopAllAt, todo>>

CleanupGoesOn ==
    /\ cleanupAt = "erased"
    /\ Returned(Cleaner)
    /\ cleanupAt' = "sweep"
    /\ UNCHANGED <<connections, mutex, mgrRunning, stopAllAt, todo, connVars>>

\* A sweep that keeps the lock over its sleep.
CleanupKeepsLock ==
    /\ cleanupAt = "sweep"
    /\ todo = {}
    /\ cleanupAt' = IF mgrRunning THEN "sleep" ELSE "done"
    /\ UNCHANGED <<connections, mutex, mgrRunning, stopAllAt, todo, connVars>>

\* The end of the sweep and of its lock, and the loop's own test of running_.
CleanupUnlocks ==
    /\ cleanupAt = "sweep"
    /\ todo = {}
    /\ mutex' = Free
    /\ cleanupAt' = IF mgrRunning THEN "sleep" ELSE "done"
    /\ UNCHANGED <<connections, mgrRunning, stopAllAt, todo, connVars>>

CleanupStep ==
    \/ CleanupWakes
    \/ CleanupLocks
    \/ \E c \in Conn : CleanupSkips(c) \/ CleanupStops(c)
    \/ CleanupStopStep
    \/ CleanupErases
    \/ CleanupGoesOn
    \/ CleanupUnlocks

------------------------------------------------------------------------------
(* stopAllConnections(), run by Main: stop every element, then clear().     *)

\* stopAllConnections() without connections_mutex_.
StopAllWithoutLock ==
    /\ stopAllAt = "lock"
    /\ todo' = connections
    /\ stopAllAt' = "stop"
    /\ UNCHANGED <<connections, mutex, mgrRunning, cleanupAt, connVars>>

StopAllLocks ==
    /\ stopAllAt = "lock"
    /\ mutex = Free
    /\ mutex' = Main
    /\ todo' = connections
    /\ stopAllAt' = "stop"
    /\ UNCHANGED <<connections, mgrRunning, cleanupAt, connVars>>

StopAllStops(c) ==
    /\ stopAllAt = "stop"
    /\ c \in todo
    /\ Returned(Main)
    /\ CallStop(Main, c)
    /\ todo' = todo \ {c}
    /\ UNCHANGED <<connections, mutex, mgrRunning, cleanupAt, stopAllAt>>
    /\ UNCHANGED <<peerVars, objVars, clientAt, sessVars>>

StopAllStopStep ==
    /\ stopAllAt \in {"stop", "clear"}
    /\ StopStep(Main)
    /\ UNCHANGED mgrVars

StopAllStopped ==
    /\ stopAllAt = "stop"
    /\ todo = {}
    /\ Returned(Main)
    /\ stopAllAt' = "clear"
    /\ UNCHANGED <<connections, mutex, mgrRunning, cleanupAt, todo, connVars>>

\* clear() drops the references one after the other.
StopAllClears(c) ==
    /\ stopAllAt = "clear"
    /\ c \in connections
    /\ Returned(Main)
    /\ EraseConnection(Main, c)
    /\ UNCHANGED <<mutex, mgrRunning, cleanupAt, stopAllAt, todo>>

\* A stopAllConnections() that returns with the lock held.
StopAllKeepsLock ==
    /\ stopAllAt = "clear"
    /\ connections = {}
    /\ Returned(Main)
    /\ stopAllAt' = "idle"
    /\ UNCHANGED <<connections, mutex, mgrRunning, cleanupAt, todo, connVars>>

StopAllReturns ==
    /\ stopAllAt = "clear"
    /\ connections = {}
    /\ Returned(Main)
    /\ mutex' = Free
    /\ stopAllAt' = "idle"
    /\ UNCHANGED <<connections, mgrRunning, cleanupAt, todo, connVars>>

StopAllStep ==
    \/ StopAllLocks
    \/ \E c \in Conn : StopAllStops(c) \/ StopAllClears(c)
    \/ StopAllStopStep
    \/ StopAllStopped
    \/ StopAllReturns

MgrStep == CleanupStep \/ StopAllStep
==============================================================================
