--------------------------- MODULE FtpConnection ---------------------------
(***************************************************************************)
(* The life of a control connection: class FTPConnection of                *)
(* core/connection.cpp, seen by the threads of the server.                 *)
(*                                                                         *)
(* Each accepted client gets an object (shared_ptr, here a count of        *)
(* references), a socket and a thread that runs handleClient().  Any other *)
(* thread may call stop() on the object: a manager thread that tears it    *)
(* down, or the thread that drops the last reference, through the          *)
(* destructor.  stop() is a routine of several steps that can block, so    *)
(* stopAt and stopOf are its program counter in each thread that runs it.  *)
(*                                                                         *)
(* A command is modelled by what it does to the life of the connection: it *)
(* answers, it logs the session in, it ends the session, or it opens a     *)
(* data connection and blocks on it.                                       *)
(***************************************************************************)
EXTENDS Naturals, FiniteSets

CONSTANTS
    Conn,       \* the clients that may ever connect, each one once
    NoConn,     \* "none of Conn"
    Thread,     \* the threads that may run stop(): main, accept and cleanup thread
    MaxLogins   \* bound: successful PASS commands per connection

ASSUME NoConnIsNoClient == NoConn \notin Conn
ASSUME MaxLoginsIsNat == MaxLogins \in Nat

VARIABLES
    peer,        \* the client's end: "away", "queued", "open", "gone", or "drained":
                 \* gone, and nothing of what it sent is left to read
    sock,        \* socket_ >= 0, the server's end of the control connection
    refs,        \* use_count() of the shared_ptr
    obj,         \* the FTPConnection: "none", "live" or "dead"
    active,      \* active_
    clientAt,    \* where handleClient() is, "none" before the thread exists
    joinable,    \* client_thread_.joinable()
    registered,  \* session_registered_
    charge,      \* sessions the tracker counts on behalf of this connection
    logins,      \* successful logins so far, for MaxLogins only
    stopOf,      \* the connection a thread runs stop() of
    stopAt       \* the next step of that stop()

peerVars == <<peer, sock>>
objVars  == <<refs, obj, active, joinable>>
sessVars == <<registered, charge, logins>>
stopVars == <<stopOf, stopAt>>
connVars == <<peerVars, objVars, clientAt, sessVars, stopVars>>

ClientPc == {"none", "welcome", "loop", "recv", "login", "flag", "accept", "io",
             "reply", "exit", "done"}
StopPc   == {"idle", "unregister", "deactivate", "closeData", "closeSock", "join"}

ConnTypeOK ==
    /\ peer \in [Conn -> {"away", "queued", "open", "gone", "drained"}]
    /\ sock \in [Conn -> BOOLEAN]
    /\ refs \in [Conn -> 0..2]
    /\ obj \in [Conn -> {"none", "live", "dead"}]
    /\ active \in [Conn -> BOOLEAN]
    /\ clientAt \in [Conn -> ClientPc]
    /\ joinable \in [Conn -> BOOLEAN]
    /\ registered \in [Conn -> BOOLEAN]
    /\ charge \in [Conn -> 0..MaxLogins]
    /\ logins \in [Conn -> 0..MaxLogins]
    /\ stopOf \in [Thread -> Conn \cup {NoConn}]
    /\ stopAt \in [Thread -> StopPc]

ConnInit ==
    /\ peer = [c \in Conn |-> "away"]
    /\ sock = [c \in Conn |-> FALSE]
    /\ refs = [c \in Conn |-> 0]
    /\ obj = [c \in Conn |-> "none"]
    /\ active = [c \in Conn |-> FALSE]
    /\ clientAt = [c \in Conn |-> "none"]
    /\ joinable = [c \in Conn |-> FALSE]
    /\ registered = [c \in Conn |-> FALSE]
    /\ charge = [c \in Conn |-> 0]
    /\ logins = [c \in Conn |-> 0]
    /\ stopOf = [t \in Thread |-> NoConn]
    /\ stopAt = [t \in Thread |-> "idle"]

------------------------------------------------------------------------------
(* The client's end (external).                                             *)

\* A client hangs up.  One that hangs up before it is accepted is accepted all
\* the same, and has done so after.
PeerClose(c) ==
    /\ peer[c] = "open"
    /\ peer' = [peer EXCEPT ![c] = "gone"]
    /\ UNCHANGED <<sock, objVars, clientAt, sessVars, stopVars>>

------------------------------------------------------------------------------
(* handleClient(), the connection's own thread.                             *)

\* sendResponse(): nothing on a closed socket; a failed send to a client that
\* is gone ends the session, but the first send after it left still succeeds.
HungUp(c) == peer[c] \in {"gone", "drained"}

SendOutcomes(c) == IF sock[c] /\ HungUp(c) THEN {FALSE, active[c]} ELSE {active[c]}

Goto(c, pc) == clientAt' = [clientAt EXCEPT ![c] = pc]

\* The answer to a command, and before the first one the 220 greeting.
Reply(c) ==
    /\ clientAt[c] \in {"welcome", "reply"}
    /\ \E a \in SendOutcomes(c) : active' = [active EXCEPT ![c] = a]
    /\ Goto(c, "loop")
    /\ UNCHANGED <<peerVars, refs, obj, joinable, sessVars, stopVars>>

\* The test of the command loop and the entry of readLine(): a session that
\* ended, or whose socket is closed, leaves the loop; another blocks in recv().
LoopTest(c) ==
    /\ clientAt[c] = "loop"
    /\ Goto(c, IF active[c] /\ sock[c] THEN "recv" ELSE "exit")
    /\ UNCHANGED <<peerVars, objVars, sessVars, stopVars>>

\* recv() returns because the client sent the rest of a command line.  It does
\* not return because another thread closed the socket: close() wakes nobody.
\* "reply" stands for every command that only answers.
ReadCommand(c) ==
    /\ clientAt[c] = "recv"
    /\ peer[c] = "open"
    /\ \/ Goto(c, "reply")
       \/ Goto(c, "accept")
       \/ logins[c] < MaxLogins /\ Goto(c, "login")
    /\ UNCHANGED <<peerVars, objVars, sessVars, stopVars>>

\* recv() returns 0 or fails after the client hung up: readLine() clears
\* active_ on 0 and leaves it on an error.  The loop ends on the empty line.
ReadClosed(c) ==
    /\ clientAt[c] = "recv"
    /\ HungUp(c)
    /\ \E a \in {FALSE, active[c]} : active' = [active EXCEPT ![c] = a]
    /\ Goto(c, "exit")
    /\ UNCHANGED <<peerVars, refs, obj, joinable, sessVars, stopVars>>

\* The same after the beginning of a line: readLine() returns what it has, and
\* the loop, which tests active_ only before it reads, executes it as a command.
\* An error leaves active_, and nothing that the next recv() could still return.
ReadRest(c) ==
    /\ clientAt[c] = "recv"
    /\ peer[c] = "gone"
    /\ \/ active' = [active EXCEPT ![c] = FALSE] /\ UNCHANGED peer
       \/ peer' = [peer EXCEPT ![c] = "drained"] /\ UNCHANGED active
    /\ \/ Goto(c, "reply")
       \/ Goto(c, "accept")
       \/ logins[c] < MaxLogins /\ Goto(c, "login")
    /\ UNCHANGED <<sock, refs, obj, joinable, sessVars, stopVars>>

\* A blank line also ends the session: the loop's own condition is the length
\* of the line, so the "continue" under it is never reached.
ReadBlank(c) ==
    /\ clientAt[c] = "recv"
    /\ peer[c] = "open"
    /\ Goto(c, "exit")
    /\ UNCHANGED <<peerVars, objVars, sessVars, stopVars>>

\* QUIT: the farewell, active_ cleared, and the break out of the loop.
Quit(c) ==
    /\ clientAt[c] = "recv"
    /\ peer[c] = "open"
    /\ active' = [active EXCEPT ![c] = FALSE]
    /\ Goto(c, "exit")
    /\ UNCHANGED <<peerVars, refs, obj, joinable, sessVars, stopVars>>

\* A PASS that succeeds: the tracker counts one more session, and only the
\* next step raises the flag that makes stop() give it back.
Register(c) ==
    /\ clientAt[c] = "login"
    /\ charge' = [charge EXCEPT ![c] = @ + 1]
    /\ logins' = [logins EXCEPT ![c] = @ + 1]
    /\ Goto(c, "flag")
    /\ UNCHANGED <<peerVars, objVars, registered, stopVars>>

RaiseFlag(c) ==
    /\ clientAt[c] = "flag"
    /\ registered' = [registered EXCEPT ![c] = TRUE]
    /\ Goto(c, "reply")
    /\ UNCHANGED <<peerVars, objVars, charge, logins, stopVars>>

\* acceptDataConnection(): select() for at most ten seconds, or a connect with
\* a timeout, under data_socket_mutex_.  It ends by itself, with or without a
\* data connection; handlers answer 150 before the bytes flow.
AcceptData(c) ==
    /\ clientAt[c] = "accept"
    /\ \/ Goto(c, "reply") /\ UNCHANGED active
       \/ /\ \E a \in SendOutcomes(c) : active' = [active EXCEPT ![c] = a]
          /\ Goto(c, "io")
    /\ UNCHANGED <<peerVars, refs, obj, joinable, sessVars, stopVars>>

\* The transfer over a data connection blocks on the client's end of it.
TransferEnds(c) ==
    /\ clientAt[c] = "io"
    /\ Goto(c, "reply")
    /\ UNCHANGED <<peerVars, objVars, sessVars, stopVars>>

\* A thread that ends without clearing active_.
ExitStillActive(c) ==
    /\ clientAt[c] = "exit"
    /\ Goto(c, "done")
    /\ UNCHANGED <<peerVars, objVars, sessVars, stopVars>>

\* The end of handleClient().
Exit(c) ==
    /\ clientAt[c] = "exit"
    /\ active' = [active EXCEPT ![c] = FALSE]
    /\ Goto(c, "done")
    /\ UNCHANGED <<peerVars, refs, obj, joinable, sessVars, stopVars>>

\* The steps the thread takes by itself, and those that wait for the client.
ClientRuns(c) ==
    Reply(c) \/ LoopTest(c) \/ ReadClosed(c) \/ ReadRest(c) \/ Register(c)
    \/ RaiseFlag(c) \/ AcceptData(c) \/ Exit(c)

ClientIsServed(c) == ReadCommand(c) \/ ReadBlank(c) \/ Quit(c) \/ TransferEnds(c)

ClientStep(c) == ClientRuns(c) \/ ClientIsServed(c)

------------------------------------------------------------------------------
(* start(), called by the accept thread.                                    *)

\* The object of an accepted socket is built, with one reference.
Construct(c) ==
    /\ obj' = [obj EXCEPT ![c] = "live"]
    /\ refs' = [refs EXCEPT ![c] = 1]
    /\ UNCHANGED <<peerVars, active, joinable, clientAt, sessVars, stopVars>>

Activate(c) ==
    /\ active' = [active EXCEPT ![c] = TRUE]
    /\ UNCHANGED <<peerVars, refs, obj, joinable, clientAt, sessVars, stopVars>>

Spawn(c) ==
    /\ joinable' = [joinable EXCEPT ![c] = TRUE]
    /\ Goto(c, "welcome")
    /\ UNCHANGED <<peerVars, refs, obj, active, sessVars, stopVars>>

------------------------------------------------------------------------------
(* stop(), run by thread t.                                                 *)

\* Thread t calls stop() of c, with the caller's other changes elsewhere.
CallStop(t, c) ==
    /\ stopOf' = [stopOf EXCEPT ![t] = c]
    /\ stopAt' = [stopAt EXCEPT ![t] = "unregister"]

\* A destructor that does not call stop().
DropRefOnly(t, c) ==
    /\ refs' = [refs EXCEPT ![c] = @ - 1]
    /\ obj' = [obj EXCEPT ![c] = IF refs[c] = 1 THEN "dead" ELSE @]
    /\ stopOf' = [stopOf EXCEPT ![t] = NoConn]
    /\ UNCHANGED <<peerVars, active, joinable, clientAt, sessVars, stopAt>>

\* One reference less.  Whoever drops the last one runs the destructor, which
\* is one more stop(); when that returns the object is dead.
DropRef(t, c) ==
    /\ refs' = [refs EXCEPT ![c] = @ - 1]
    /\ IF refs[c] = 1
       THEN CallStop(t, c)
       ELSE stopOf' = [stopOf EXCEPT ![t] = NoConn] /\ UNCHANGED stopAt
    /\ UNCHANGED <<peerVars, obj, active, joinable, clientAt, sessVars>>

\* The flag tells whether there is a session to give back to the tracker.
StopUnregister(t) ==
    /\ stopAt[t] = "unregister"
    /\ LET c == stopOf[t]
       IN  IF registered[c]
           THEN /\ charge' = [charge EXCEPT ![c] = @ - 1]
                /\ registered' = [registered EXCEPT ![c] = FALSE]
           ELSE UNCHANGED <<charge, registered>>
    /\ stopAt' = [stopAt EXCEPT ![t] = "deactivate"]
    /\ UNCHANGED <<peerVars, objVars, clientAt, logins, stopOf>>

StopDeactivate(t) ==
    /\ stopAt[t] = "deactivate"
    /\ active' = [active EXCEPT ![stopOf[t]] = FALSE]
    /\ stopAt' = [stopAt EXCEPT ![t] = "closeData"]
    /\ UNCHANGED <<peerVars, refs, obj, joinable, clientAt, sessVars, stopOf>>

\* closeDataSocket() takes data_socket_mutex_, which the client's thread holds
\* while it waits for a data connection.
StopCloseData(t) ==
    /\ stopAt[t] = "closeData"
    /\ clientAt[stopOf[t]] # "accept"
    /\ stopAt' = [stopAt EXCEPT ![t] = "closeSock"]
    /\ UNCHANGED <<peerVars, objVars, clientAt, sessVars, stopOf>>

StopCloseSock(t) ==
    /\ stopAt[t] = "closeSock"
    /\ sock' = [sock EXCEPT ![stopOf[t]] = FALSE]
    /\ stopAt' = [stopAt EXCEPT ![t] = "join"]
    /\ UNCHANGED <<peer, objVars, clientAt, sessVars, stopOf>>

\* A stop() that detaches the thread where it should join it.
StopDetaches(t) ==
    /\ stopAt[t] = "join"
    /\ LET c == stopOf[t]
       IN  /\ joinable' = [joinable EXCEPT ![c] = FALSE]
           /\ obj' = [obj EXCEPT ![c] = IF refs[c] = 0 THEN "dead" ELSE @]
    /\ stopAt' = [stopAt EXCEPT ![t] = "idle"]
    /\ UNCHANGED <<peerVars, refs, active, clientAt, sessVars, stopOf>>

\* The join.  stop() returns, and the destructor that ran it ends the object;
\* another caller still has the connection in hand.
StopJoin(t) ==
    /\ stopAt[t] = "join"
    /\ LET c == stopOf[t]
       IN  /\ joinable[c] => clientAt[c] = "done"
           /\ joinable' = [joinable EXCEPT ![c] = FALSE]
           /\ IF refs[c] = 0
              THEN /\ obj' = [obj EXCEPT ![c] = "dead"]
                   /\ stopOf' = [stopOf EXCEPT ![t] = NoConn]
              ELSE UNCHANGED <<obj, stopOf>>
    /\ stopAt' = [stopAt EXCEPT ![t] = "idle"]
    /\ UNCHANGED <<peerVars, refs, active, clientAt, sessVars>>

StopStep(t) ==
    \/ StopUnregister(t)
    \/ StopDeactivate(t)
    \/ StopCloseData(t)
    \/ StopCloseSock(t)
    \/ StopJoin(t)
==============================================================================
