----------------------------- MODULE SessionLimits -----------------------------
(***************************************************************************)
(* The limits on concurrent sessions: SessionTracker, shared by every      *)
(* connection, and what USER, HOST, PASS and stop() do with it             *)
(* (core/session_tracker.cpp, core/connection.cpp).                        *)
(*                                                                         *)
(* Each call of the tracker is atomic under its mutex; handlePASS() makes  *)
(* three of them and a fourth step that raises session_registered_, with   *)
(* other connections in between.  A connection may log in again, and may   *)
(* rename itself (USER) or move to another host (HOST) while its session   *)
(* is registered: stop() then unregisters the names it finds.              *)
(***************************************************************************)
EXTENDS Integers, FiniteSets

CONSTANTS
    Conn,                \* places for connections, used again and again
    User, NoUser,        \* names that PASS accepts; username_ is empty
    Host, NoHost,        \* enabled virtual hosts; none selected
    MaxSessionsPerUser,  \* config security.max_sessions_per_user, 0: no limit
    MaxSessions          \* max_sessions of every host, 0: no limit

ASSUME ConnIsFinite == IsFiniteSet(Conn)
ASSUME LimitsAreNat == MaxSessionsPerUser \in Nat /\ MaxSessions \in Nat
ASSUME NoNameIsNoName == NoUser \notin User /\ NoHost \notin Host

VARIABLES
    at,          \* where the connection is: a step of handlePASS(), between
                 \* commands ("ready"), past its last one ("leaving"), or "none"
    stopped,     \* the first stop() has run; the destructor's is to come
    name,        \* username_
    vhost,       \* current_virtual_host_
    registered,  \* session_registered_
    countUser,   \* count_by_user_
    countHost,   \* count_by_host_
    renamed,     \* history: some USER or HOST came on a registered session
    repeated     \* history: some PASS came on a registered session

vars == <<at, stopped, name, vhost, registered, countUser, countHost, renamed, repeated>>

Place == {"none", "ready", "checkHost", "register", "flag", "leaving"}

TypeOK ==
    /\ at \in [Conn -> Place]
    /\ stopped \in [Conn -> BOOLEAN]
    /\ name \in [Conn -> User \cup {NoUser}]
    /\ vhost \in [Conn -> Host \cup {NoHost}]
    /\ registered \in [Conn -> BOOLEAN]
    /\ countUser \in [User -> Nat]
    /\ countHost \in [Host -> Nat]
    /\ renamed \in BOOLEAN
    /\ repeated \in BOOLEAN

Init ==
    /\ at = [c \in Conn |-> "none"]
    /\ stopped = [c \in Conn |-> FALSE]
    /\ name = [c \in Conn |-> NoUser]
    /\ vhost = [c \in Conn |-> NoHost]
    /\ registered = [c \in Conn |-> FALSE]
    /\ countUser = [u \in User |-> 0]
    /\ countHost = [h \in Host |-> 0]
    /\ renamed = FALSE
    /\ repeated = FALSE

------------------------------------------------------------------------------
(* The tracker.                                                             *)

\* registerSession(): one more for each name that is not empty.
RegisterSession(u, h) ==
    /\ countUser' = [v \in User |-> countUser[v] + IF v = u THEN 1 ELSE 0]
    /\ countHost' = [g \in Host |-> countHost[g] + IF g = h THEN 1 ELSE 0]

\* unregisterSession(): one less, and never below none.
UnregisterSession(u, h) ==
    /\ countUser' = [v \in User |-> IF v = u /\ countUser[v] > 0 THEN countUser[v] - 1 ELSE countUser[v]]
    /\ countHost' = [g \in Host |-> IF g = h /\ countHost[g] > 0 THEN countHost[g] - 1 ELSE countHost[g]]

------------------------------------------------------------------------------
(* The commands of one connection.                                          *)

\* A command was handled: the loop goes on unless the session was stopped.
Handled(c) == at' = [at EXCEPT ![c] = IF stopped[c] THEN "leaving" ELSE "ready"]

Connect(c) ==
    /\ at[c] = "none"
    /\ at' = [at EXCEPT ![c] = "ready"]
    /\ UNCHANGED <<stopped, name, vhost, registered, countUser, countHost, renamed, repeated>>

HandleUSER(c, u) ==
    /\ at[c] = "ready"
    /\ name' = [name EXCEPT ![c] = u]
    /\ renamed' = (renamed \/ registered[c])
    /\ Handled(c)
    /\ UNCHANGED <<stopped, vhost, registered, countUser, countHost, repeated>>

HandleHOST(c, h) ==
    /\ at[c] = "ready"
    /\ vhost' = [vhost EXCEPT ![c] = h]
    /\ renamed' = (renamed \/ registered[c])
    /\ Handled(c)
    /\ UNCHANGED <<stopped, name, registered, countUser, countHost, repeated>>

\* handlePASS() with a password that is accepted: the user's limit first.  A
\* wrong password, or no USER before, changes nothing here.
CheckUser(c) ==
    /\ at[c] = "ready"
    /\ name[c] # NoUser
    /\ IF MaxSessionsPerUser > 0 /\ countUser[name[c]] >= MaxSessionsPerUser
       THEN Handled(c)
       ELSE at' = [at EXCEPT ![c] = "checkHost"]
    /\ repeated' = (repeated \/ registered[c])
    /\ UNCHANGED <<stopped, name, vhost, registered, countUser, countHost, renamed>>

\* A host's limit that admits one session more.
CheckHostOffByOne(c) ==
    /\ at[c] = "checkHost"
    /\ IF vhost[c] # NoHost /\ MaxSessions > 0 /\ countHost[vhost[c]] > MaxSessions
       THEN Handled(c)
       ELSE at' = [at EXCEPT ![c] = "register"]
    /\ UNCHANGED <<stopped, name, vhost, registered, countUser, countHost, renamed, repeated>>

\* The host's limit next; then the session is authenticated.
CheckHost(c) ==
    /\ at[c] = "checkHost"
    /\ IF vhost[c] # NoHost /\ MaxSessions > 0 /\ countHost[vhost[c]] >= MaxSessions
       THEN Handled(c)
       ELSE at' = [at EXCEPT ![c] = "register"]
    /\ UNCHANGED <<stopped, name, vhost, registered, countUser, countHost, renamed, repeated>>

Register(c) ==
    /\ at[c] = "register"
    /\ RegisterSession(name[c], vhost[c])
    /\ at' = [at EXCEPT ![c] = "flag"]
    /\ UNCHANGED <<stopped, name, vhost, registered, renamed, repeated>>

RaiseFlag(c) ==
    /\ at[c] = "flag"
    /\ registered' = [registered EXCEPT ![c] = TRUE]
    /\ Handled(c)
    /\ UNCHANGED <<stopped, name, vhost, countUser, countHost, renamed, repeated>>

\* QUIT, or the client hangs up.
Leave(c) ==
    /\ at[c] = "ready"
    /\ at' = [at EXCEPT ![c] = "leaving"]
    /\ UNCHANGED <<stopped, name, vhost, registered, countUser, countHost, renamed, repeated>>

------------------------------------------------------------------------------
(* stop(): once by cleanup or shutdown, at any moment of the session, and   *)
(* once more by the destructor when the thread is joined.                   *)

\* A stop() that gives the session back again on every call.
GiveBackAlways(c) ==
    /\ UnregisterSession(name[c], vhost[c])
    /\ registered' = [registered EXCEPT ![c] = FALSE]

\* A stop() that lowers the flag and forgets the tracker.
GiveBackNothing(c) ==
    /\ registered' = [registered EXCEPT ![c] = FALSE]
    /\ UNCHANGED <<countUser, countHost>>

GiveBack(c) ==
    /\ IF registered[c]
       THEN UnregisterSession(name[c], vhost[c])
       ELSE UNCHANGED <<countUser, countHost>>
    /\ registered' = [registered EXCEPT ![c] = FALSE]

Stop(c) ==
    /\ at[c] # "none"
    /\ ~stopped[c]
    /\ GiveBack(c)
    /\ stopped' = [stopped EXCEPT ![c] = TRUE]
    /\ UNCHANGED <<at, name, vhost, renamed, repeated>>

Destroy(c) ==
    /\ at[c] \in {"ready", "leaving"}
    /\ stopped[c]
    /\ GiveBack(c)
    /\ at' = [at EXCEPT ![c] = "none"]
    /\ stopped' = [stopped EXCEPT ![c] = FALSE]
    /\ name' = [name EXCEPT ![c] = NoUser]
    /\ vhost' = [vhost EXCEPT ![c] = NoHost]
    /\ UNCHANGED <<renamed, repeated>>

------------------------------------------------------------------------------
Next ==
    \E c \in Conn :
        \/ Connect(c)
        \/ \E u \in User : HandleUSER(c, u)
        \/ \E h \in Host : HandleHOST(c, h)
        \/ CheckUser(c)
        \/ CheckHost(c)
        \/ Register(c)
        \/ RaiseFlag(c)
        \/ Leave(c)
        \/ Stop(c)
        \/ Destroy(c)

Spec == Init /\ [][Next]_vars

------------------------------------------------------------------------------
(* Safety.                                                                  *)

\* The connections that passed the limit of user u (of host h), and are not
\* registered yet.
UserWindow(u) == {c \in Conn : at[c] \in {"checkHost", "register"} /\ name[c] = u}
HostWindow(h) == {c \in Conn : at[c] = "register" /\ vhost[c] = h}

\* Between the test of a limit and registerSession() other connections pass the
\* same test: the count overshoots, but never by a whole set of connections,
\* whatever the clients do (log in again, rename themselves, switch hosts).
OvershootBound ==
    /\ MaxSessionsPerUser > 0 =>
          \A u \in User : countUser[u] + Cardinality(UserWindow(u))
                            <= MaxSessionsPerUser - 1 + Cardinality(Conn)
    /\ MaxSessions > 0 =>
          \A h \in Host : countHost[h] + Cardinality(HostWindow(h))
                            <= MaxSessions - 1 + Cardinality(Conn)

\* The sessions that stop() will give back under the names u and h.
UserSessions(u) == Cardinality({c \in Conn : registered[c] /\ name[c] = u})
                     + Cardinality({c \in Conn : at[c] = "flag" /\ name[c] = u})
HostSessions(h) == Cardinality({c \in Conn : registered[c] /\ vhost[c] = h})
                     + Cardinality({c \in Conn : at[c] = "flag" /\ vhost[c] = h})

\* As long as no registered session was renamed, the tracker counts at least the
\* sessions there are, so that a limit is never looser than configured.
NeverUndercounts ==
    ~renamed => /\ \A u \in User : countUser[u] >= UserSessions(u)
                /\ \A h \in Host : countHost[h] >= HostSessions(h)

\* With clients that log in once, it counts exactly those: nothing leaks, and
\* when all connections are gone every count is zero again.
CountsAreExact ==
    ~renamed /\ ~repeated => /\ \A u \in User : countUser[u] = UserSessions(u)
                             /\ \A h \in Host : countHost[h] = HostSessions(h)
==============================================================================
