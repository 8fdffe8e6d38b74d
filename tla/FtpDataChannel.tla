---------------------------- MODULE FtpDataChannel ----------------------------
(***************************************************************************)
(* The data connections of several sessions of one process: PASV, EPSV,    *)
(* PORT, EPRT, ABOR, MODE, REST and the transfer commands, with            *)
(* createPassiveDataSocket(), acceptDataConnection(),                      *)
(* connectActiveDataSocket() and closeDataSocket() (core/connection.cpp).  *)
(*                                                                         *)
(* Sessions share one thing, the descriptor table of the process: a new    *)
(* descriptor is the lowest free number, and close() closes whatever has   *)
(* the number now.  Only the descriptors of data connections and of their  *)
(* listening sockets are modelled.  Whether the path of a transfer is      *)
(* accepted (FtpFiles) does not matter here: a command that is refused     *)
(* before it comes to the data connection changes nothing.                 *)
(***************************************************************************)
EXTENDS Naturals

CONSTANTS
    Session,     \* the sessions of the process
    Plain,       \* bound: those whose clients use PASV and LIST alone
    MaxFd,       \* the limit on open descriptors
    Endpoint,    \* addresses that PORT and EPRT accept
    LowPort,     \* an address whose port is below 1024, and not 0
    NoPort,      \* an address whose port is 0
    MaxRest      \* bound: REST positions

ASSUME EndpointsDiffer ==
    /\ LowPort \notin Endpoint /\ NoPort \notin Endpoint /\ LowPort # NoPort
    /\ {"nothing", "passive", "foreign", "unsure"} \cap (Endpoint \cup {LowPort, NoPort}) = {}
ASSUME LimitsAreNat == MaxFd \in Nat /\ MaxRest \in Nat

VARIABLES
    table,       \* the descriptor table: which session opened a socket, and for what
    at,          \* between commands ("ready"), with a command that was read ("line"),
                 \* before and in acceptDataConnection() ("sent", "wait"), in a
                 \* transfer ("transfer")
    op,          \* the command of the transfer
    stopped,     \* another thread has run stop() on the session
    listen,      \* passive_listen_socket_, 0 for -1
    data,        \* data_socket_, 0 for -1
    fd,          \* data_fd of the transfer's handler, 0 outside a transfer
    activeOn,    \* active_mode_enabled_
    activeTo,    \* active_mode_ip_ and active_mode_port_, NoPort when cleared
    epsvAll,     \* epsv_all_
    mode,        \* transfer_mode_: "S" or "Z"
    resume,      \* resume_position_
    asked,       \* history: what the last accepted PASV, EPSV, PORT or EPRT asked for;
                 \* "unsure" when a PORT was refused since then
    via,         \* history: how the connection of the transfer was made; "foreign"
                 \* when the listening socket was another session's
    robbed,      \* history: which sockets of the session another one has closed
    spent        \* history: a completed transfer left its REST position behind

active  == <<activeOn, activeTo>>
history == <<asked, via, robbed, spent>>
params  == <<epsvAll, mode, resume>>
vars == <<table, at, op, stopped, listen, data, fd, active, params, history>>

Fd == 1..MaxFd
Free == [session |-> "none", use |-> "none"]
Entry == {Free} \cup [session : Session, use : {"listen", "data"}]
Resuming == {"retr", "stor"}

DataTypes ==
    /\ table \in [Fd -> Entry]
    /\ at \in [Session -> {"ready", "line", "sent", "wait", "transfer"}]
    /\ op \in [Session -> {"list", "retr", "stor", "appe"}]
    /\ stopped \in [Session -> BOOLEAN]
    /\ listen \in [Session -> 0..MaxFd]
    /\ data \in [Session -> 0..MaxFd]
    /\ fd \in [Session -> 0..MaxFd]
    /\ \A s \in Session : fd[s] # 0 <=> at[s] = "transfer"
    /\ activeOn \in [Session -> BOOLEAN]
    /\ activeTo \in [Session -> Endpoint \cup {LowPort, NoPort}]
    /\ epsvAll \in [Session -> BOOLEAN]
    /\ mode \in [Session -> {"S", "Z"}]
    /\ resume \in [Session -> 0..MaxRest]
    /\ asked \in [Session -> Endpoint \cup {"nothing", "passive", "unsure"}]
    /\ via \in [Session -> Endpoint \cup {LowPort, "nothing", "passive", "foreign"}]
    /\ spent \in [Session -> BOOLEAN]

TypeOK == DataTypes /\ robbed \in [Session -> SUBSET {"listen", "data"}]

Init ==
    /\ table = [f \in Fd |-> Free]
    /\ at = [s \in Session |-> "ready"]
    /\ op = [s \in Session |-> "list"]
    /\ stopped = [s \in Session |-> FALSE]
    /\ listen = [s \in Session |-> 0]
    /\ data = [s \in Session |-> 0]
    /\ fd = [s \in Session |-> 0]
    /\ activeOn = [s \in Session |-> FALSE]
    /\ activeTo = [s \in Session |-> NoPort]
    /\ epsvAll = [s \in Session |-> FALSE]
    /\ mode = [s \in Session |-> "S"]
    /\ resume = [s \in Session |-> 0]
    /\ asked = [s \in Session |-> "nothing"]
    /\ via = [s \in Session |-> "nothing"]
    /\ robbed = [s \in Session |-> {}]
    /\ spent = [s \in Session |-> FALSE]

------------------------------------------------------------------------------
(* Descriptors.                                                             *)

\* close(): whoever opened it.
Closed(t, fds) == [f \in Fd |-> IF f \in fds THEN Free ELSE t[f]]

\* The descriptor that a new socket gets: the lowest free number, if there is one.
Lowest(t, f) == f \in Fd /\ t[f] = Free /\ \A g \in 1..(f - 1) : t[g] # Free
Opened(t, f, s, use) == [t EXCEPT ![f] = [session |-> s, use |-> use]]

\* The table after closeDataSocket(), which closes both members of the session.
AfterClose(s) == Closed(table, {listen[s], data[s]})

\* What the session closes of the others, and what it has no more of its own.
Robs(s, fds, own) ==
    robbed' = [r \in Session |->
        IF r = s THEN robbed[s] \ own
        ELSE robbed[r] \cup {use \in {"listen", "data"} :
               \E f \in fds \cap Fd : table[f] = [session |-> r, use |-> use]}]

\* PORT that leaves the passive socket open and forgets it.
ForgetDataSocket(s) ==
    /\ table' = table
    /\ data' = [data EXCEPT ![s] = 0]
    /\ listen' = [listen EXCEPT ![s] = 0]
    /\ UNCHANGED robbed

CloseDataSocket(s) ==
    /\ table' = AfterClose(s)
    /\ data' = [data EXCEPT ![s] = 0]
    /\ listen' = [listen EXCEPT ![s] = 0]
    /\ Robs(s, {listen[s], data[s]}, {"listen"})

\* createPassiveDataSocket() on the table that closeDataSocket() left; it fails
\* without a descriptor, or when no port of the range can be bound.
CreatePassive(s) ==
    \/ /\ \E f \in Fd :
            /\ Lowest(AfterClose(s), f)
            /\ table' = Opened(AfterClose(s), f, s, "listen")
            /\ listen' = [listen EXCEPT ![s] = f]
       /\ data' = [data EXCEPT ![s] = 0]
       /\ Robs(s, {listen[s], data[s]}, {"listen"})
       /\ asked' = [asked EXCEPT ![s] = "passive"]
    \/ CloseDataSocket(s) /\ UNCHANGED asked

------------------------------------------------------------------------------
(* Commands that set the data connection up.                                *)

\* readLine() has a command, which is obeyed whatever stop() does meanwhile.
ReadLine(s) ==
    /\ at[s] = "ready" /\ ~stopped[s]
    /\ at' = [at EXCEPT ![s] = "line"]
    /\ UNCHANGED <<table, op, stopped, listen, data, fd, active, params, history>>

Ready(s) == at[s] = "line"
Obeyed(s) == at' = [at EXCEPT ![s] = "ready"] /\ UNCHANGED <<op, stopped, fd>>

\* PASV, and EPSV without ALL: the same but for EPSV ALL and the reply.
EnterPassive(s) ==
    /\ activeOn' = [activeOn EXCEPT ![s] = FALSE]
    /\ CreatePassive(s)
    /\ Obeyed(s)
    /\ UNCHANGED <<activeTo, params, via, spent>>

HandlePASV(s) == Ready(s) /\ ~epsvAll[s] /\ EnterPassive(s)
HandleEPSV(s) == Ready(s) /\ EnterPassive(s)

HandleEPSVALL(s) ==
    /\ Ready(s)
    /\ epsvAll' = [epsvAll EXCEPT ![s] = TRUE]
    /\ Obeyed(s)
    /\ UNCHANGED <<table, listen, data, active, mode, resume, history>>

\* The address is taken over, the passive socket closed.
EnterActive(s, e) ==
    /\ activeTo' = [activeTo EXCEPT ![s] = e]
    /\ activeOn' = [activeOn EXCEPT ![s] = TRUE]
    /\ CloseDataSocket(s)
    /\ asked' = [asked EXCEPT ![s] = e]
    /\ Obeyed(s)
    /\ UNCHANGED <<params, via, spent>>

HandlePORT(s, e) == Ready(s) /\ ~epsvAll[s] /\ EnterActive(s, e)

\* A port out of range is refused when the address is already taken over.
RefusePORT(s, e) ==
    /\ Ready(s) /\ ~epsvAll[s]
    /\ activeTo' = [activeTo EXCEPT ![s] = e]
    /\ asked' = [asked EXCEPT ![s] = "unsure"]
    /\ Obeyed(s)
    /\ UNCHANGED <<table, listen, data, activeOn, params, via, robbed, spent>>

\* EPRT checks everything first.
HandleEPRT(s, e) == Ready(s) /\ ~epsvAll[s] /\ EnterActive(s, e)

HandleABOR(s) ==
    /\ Ready(s)
    /\ CloseDataSocket(s)
    /\ Obeyed(s)
    /\ UNCHANGED <<active, params, asked, via, spent>>

HandleMODE(s, m) ==
    /\ Ready(s)
    /\ mode' = [mode EXCEPT ![s] = m]
    /\ Obeyed(s)
    /\ UNCHANGED <<table, listen, data, active, epsvAll, resume, history>>

HandleREST(s, n) ==
    /\ Ready(s)
    /\ mode[s] # "Z"
    /\ resume' = [resume EXCEPT ![s] = n]
    /\ spent' = [spent EXCEPT ![s] = FALSE]
    /\ Obeyed(s)
    /\ UNCHANGED <<table, listen, data, active, epsvAll, mode, asked, via, robbed>>

------------------------------------------------------------------------------
(* Transfers.                                                               *)

\* "150": the handler goes to wait for its data connection.
Wait(s, o) ==
    /\ at' = [at EXCEPT ![s] = "sent"]
    /\ op' = [op EXCEPT ![s] = o]
    /\ UNCHANGED <<stopped, fd, table, listen, data, active, epsvAll, mode, history>>

\* acceptDataConnection() holds from here on the mutex that closeDataSocket() needs.
Lock(s) ==
    /\ at[s] = "sent"
    /\ at' = [at EXCEPT ![s] = "wait"]
    /\ UNCHANGED <<table, op, stopped, listen, data, fd, active, params, history>>

HandleLIST(s) == Ready(s) /\ Wait(s, "list") /\ UNCHANGED resume

\* RETR and STOR; a position to resume at is dropped in MODE Z, with a 550.
StartTransfer(s, o) ==
    /\ Ready(s)
    /\ IF mode[s] = "Z" /\ resume[s] > 0
       THEN /\ resume' = [resume EXCEPT ![s] = 0]
            /\ Obeyed(s)
            /\ UNCHANGED <<table, listen, data, active, epsvAll, mode, history>>
       ELSE Wait(s, o) /\ UNCHANGED resume

HandleSTOU(s) ==
    /\ Ready(s)
    /\ Wait(s, "stor")
    /\ resume' = [resume EXCEPT ![s] = 0]

HandleAPPE(s) == Ready(s) /\ mode[s] # "Z" /\ Wait(s, "appe") /\ UNCHANGED resume

\* The data connection is there: data_socket_ and data_fd are its descriptor.
Connected(s, how) ==
    /\ \E f \in Fd :
         /\ Lowest(table, f)
         /\ table' = Opened(table, f, s, "data")
         /\ data' = [data EXCEPT ![s] = f]
         /\ fd' = [fd EXCEPT ![s] = f]
    /\ at' = [at EXCEPT ![s] = "transfer"]
    /\ via' = [via EXCEPT ![s] = how]
    /\ robbed' = [robbed EXCEPT ![s] = @ \ {"data"}]
    /\ UNCHANGED <<op, asked>>

\* An address for active mode serves once.
UsedUp(s, used) == [asked EXCEPT ![s] = IF used THEN "nothing" ELSE @]

\* "425".
NoConnection(s) ==
    /\ at' = [at EXCEPT ![s] = "ready"]
    /\ op' = [op EXCEPT ![s] = "list"]
    /\ UNCHANGED <<table, fd, via, robbed>>

waitUnchanged == <<stopped, listen, params, spent>>

\* Active mode that does not clear what it has used.
KeepActive(s) == UNCHANGED active

ClearActive(s) ==
    /\ activeOn' = [activeOn EXCEPT ![s] = FALSE]
    /\ activeTo' = [activeTo EXCEPT ![s] = NoPort]

\* connectActiveDataSocket(): used up whether the client can be reached or not.
ConnectActive(s) ==
    /\ at[s] = "wait" /\ activeOn[s] /\ activeTo[s] # NoPort
    /\ \/ Connected(s, activeTo[s])
       \/ /\ NoConnection(s)
          /\ data' = [data EXCEPT ![s] = 0]
          /\ asked' = UsedUp(s, TRUE)
    /\ ClearActive(s)
    /\ UNCHANGED waitUnchanged

\* It gives up on port 0, or without a descriptor, and clears nothing.
GiveUpActive(s) ==
    /\ at[s] = "wait" /\ activeOn[s]
    /\ NoConnection(s)
    /\ data' = [data EXCEPT ![s] = IF activeTo[s] = NoPort THEN @ ELSE 0]
    /\ UNCHANGED <<waitUnchanged, active, asked>>

\* select() and accept() on the listening socket, which stays open.
AcceptPassive(s) ==
    /\ at[s] = "wait" /\ ~activeOn[s]
    /\ listen[s] # 0 /\ table[listen[s]].use = "listen"
    /\ Connected(s, IF table[listen[s]].session = s THEN "passive" ELSE "foreign")
    /\ UNCHANGED <<waitUnchanged, active>>

\* No passive socket, nobody within ten seconds, or a descriptor that select()
\* refuses: data_socket_ is kept.  A failed accept() makes it -1.
AcceptNobody(s) ==
    /\ at[s] = "wait" /\ ~activeOn[s]
    /\ NoConnection(s)
    /\ \/ UNCHANGED data
       \/ listen[s] # 0 /\ data' = [data EXCEPT ![s] = 0]
    /\ UNCHANGED <<waitUnchanged, active, asked>>

\* The handler closes data_fd; data_socket_ keeps the number.
CloseTransfer(s) ==
    /\ at[s] = "transfer"
    /\ table' = Closed(table, {fd[s]})
    /\ fd' = [fd EXCEPT ![s] = 0]
    /\ at' = [at EXCEPT ![s] = "ready"]
    /\ op' = [op EXCEPT ![s] = "list"]
    /\ asked' = UsedUp(s, via[s] \notin {"passive", "foreign"})
    /\ Robs(s, {fd[s]}, {"data"})
    /\ via' = [via EXCEPT ![s] = "nothing"]
    /\ UNCHANGED <<stopped, listen, data, active, epsvAll, mode>>

\* A completed transfer that keeps the position it resumed at.
CompleteKeepsRest(s) ==
    /\ CloseTransfer(s)
    /\ spent' = [spent EXCEPT ![s] = op[s] # "list" /\ resume[s] > 0]
    /\ UNCHANGED resume

\* "226": RETR, STOR, STOU and APPE use the REST position up.
Complete(s) ==
    /\ CloseTransfer(s)
    /\ IF op[s] = "list"
       THEN UNCHANGED <<resume, spent>>
       ELSE /\ resume' = [resume EXCEPT ![s] = 0]
            /\ spent' = [spent EXCEPT ![s] = resume'[s] > 0]

\* The file cannot be opened, or the like: the position is kept for the next one.
Fail(s) == CloseTransfer(s) /\ UNCHANGED <<resume, spent>>

------------------------------------------------------------------------------
(* The end of a session.                                                    *)

\* stop() by another thread, which waits for acceptDataConnection().
Stop(s) ==
    /\ ~stopped[s] /\ at[s] # "wait"
    /\ CloseDataSocket(s)
    /\ stopped' = [stopped EXCEPT ![s] = TRUE]
    /\ UNCHANGED <<at, op, fd, active, params, asked, via, spent>>

\* The object is destroyed, and the place is taken by a new session.
Renew(s) ==
    /\ stopped[s] /\ at[s] = "ready"
    /\ CloseDataSocket(s)
    /\ stopped' = [stopped EXCEPT ![s] = FALSE]
    /\ activeOn' = [activeOn EXCEPT ![s] = FALSE]
    /\ activeTo' = [activeTo EXCEPT ![s] = NoPort]
    /\ epsvAll' = [epsvAll EXCEPT ![s] = FALSE]
    /\ mode' = [mode EXCEPT ![s] = "S"]
    /\ resume' = [resume EXCEPT ![s] = 0]
    /\ asked' = [asked EXCEPT ![s] = "nothing"]
    /\ spent' = [spent EXCEPT ![s] = FALSE]
    /\ UNCHANGED <<at, op, fd, via>>

------------------------------------------------------------------------------
\* What any client does.
PlainSession(s) ==
    \/ ReadLine(s)
    \/ HandlePASV(s)
    \/ HandleLIST(s)
    \/ Lock(s)
    \/ AcceptPassive(s)
    \/ AcceptNobody(s)
    \/ Complete(s)
    \/ Fail(s)
    \/ Stop(s)
    \/ Renew(s)

OtherCommands(s) ==
    \/ HandleEPSV(s)
    \/ HandleEPSVALL(s)
    \/ \E e \in Endpoint : HandlePORT(s, e)
    \/ \E e \in {LowPort, NoPort} : RefusePORT(s, e)
    \/ \E e \in Endpoint : HandleEPRT(s, e)
    \/ HandleABOR(s)
    \/ \E m \in {"S", "Z"} : HandleMODE(s, m)
    \/ \E n \in 0..MaxRest : HandleREST(s, n)
    \/ \E o \in Resuming : StartTransfer(s, o)
    \/ HandleSTOU(s)
    \/ HandleAPPE(s)
    \/ ConnectActive(s)
    \/ GiveUpActive(s)

Next ==
    \/ \E s \in Session : PlainSession(s)
    \/ \E s \in Session \ Plain : OtherCommands(s)

Spec == Init /\ [][Next]_vars

------------------------------------------------------------------------------
(* Safety.                                                                  *)

\* No socket leaks: what is open is the passive_listen_socket_ of the session that
\* opened it, or the data_fd of its transfer, and will be closed there, even when
\* sessions close each other's sockets.
NoSocketLeaks ==
    \A f \in Fd : table[f] # Free =>
        \E s \in Session :
            /\ table[f].session = s
            /\ f = IF table[f].use = "listen" THEN listen[s] ELSE fd[s]

\* A transfer goes the way that the last accepted PASV, EPSV, PORT or EPRT asked for,
\* over a socket of its own, unless a PORT was refused since then; an address is used
\* for one transfer.  Two exceptions, which closeDataSocket() makes with the number it
\* keeps: another session has closed the listening socket, whose number may be a
\* listening socket of somebody else by now, or has closed the connection itself.
LastModeWins ==
    \A s \in Session : at[s] = "transfer" /\ ~stopped[s] =>
        /\ "listen" \notin robbed[s] => asked[s] \in {via[s], "unsure"}
        /\ "data" \notin robbed[s] => table[fd[s]] = [session |-> s, use |-> "data"]

\* After EPSV ALL no active mode is ever entered; one that was entered before may
\* still be used up.
EpsvAllIsFinal ==
    [][\A s \in Session : epsvAll[s] /\ activeOn'[s] => activeOn[s]]_vars

\* A position that REST gave is used by one transfer, and never in MODE Z.
RestServesOnce ==
    \A s \in Session : at[s] = "transfer" /\ op[s] \in Resuming /\ resume[s] > 0
                          => ~spent[s] /\ mode[s] = "S"
==============================================================================
