-------------------------- MODULE FtpDataChannelProofs --------------------------
(***************************************************************************)
(* Theorems about FtpDataChannel for any number of sessions, descriptors   *)
(* and addresses.                                                          *)
(*                                                                         *)
(* NoSocketLeaks is inductive once it says which session will close a      *)
(* socket: the one that opened it.  That the last mode wins rests on a     *)
(* session having either a passive socket or an address for active mode.   *)
(***************************************************************************)
EXTENDS FtpDataChannel, TLAPS

\* What a session would connect to next is what it was asked to, and it keeps no
\* passive socket beside an address for active mode.
ModeInv ==
    \A s \in Session :
        /\ activeOn[s] => listen[s] = 0 /\ asked[s] \in {activeTo[s], "unsure"}
        /\ ~activeOn[s] /\ listen[s] # 0 => asked[s] \in {"passive", "unsure"}
        /\ at[s] = "transfer" =>
             asked[s] \in {IF via[s] = "foreign" THEN "passive" ELSE via[s], "unsure"}
        /\ at[s] = "transfer" /\ via[s] \notin {"passive", "foreign"} =>
             ~activeOn[s] /\ listen[s] = 0

\* No completed transfer leaves its position behind, and MODE Z none to a transfer.
RestInv ==
    \A s \in Session :
        /\ ~spent[s]
        /\ at[s] \notin {"ready", "line"} /\ op[s] \in Resuming /\ resume[s] > 0 => mode[s] = "S"

\* What nobody else has closed is still the session's own.
Apart(s) ==
    at[s] = "transfer" /\ "listen" \notin robbed[s] =>
        /\ listen[s] = 0 \/ listen[s] # fd[s]
        /\ ~stopped[s] => via[s] # "foreign"

OwnInv ==
    \A s \in Session :
        /\ Apart(s)
        /\ listen[s] # 0 /\ "listen" \notin robbed[s] =>
             table[listen[s]] = [session |-> s, use |-> "listen"]
        /\ at[s] = "transfer" /\ ~stopped[s] /\ "data" \notin robbed[s] =>
             table[fd[s]] = [session |-> s, use |-> "data"]

IInv == TypeOK /\ NoSocketLeaks /\ ModeInv /\ OwnInv /\ RestInv

USE EndpointsDiffer, LimitsAreNat
USE DEF Ready, Obeyed, active, params, history, waitUnchanged, Fd, Free, Entry, Resuming

LEMMA InitIInv == Init => IInv
  BY DEF Init, IInv, TypeOK, DataTypes, NoSocketLeaks, ModeInv, OwnInv, Apart, RestInv

\* The table after closeDataSocket().
LEMMA AfterCloseTable ==
  ASSUME DataTypes, NEW s \in Session
  PROVE  /\ AfterClose(s) \in [Fd -> Entry]
         /\ \A f \in Fd : AfterClose(s)[f] =
                             IF f = listen[s] \/ f = data[s] THEN Free ELSE table[f]
  BY DEF AfterClose, Closed, DataTypes

\* PASV and EPSV either open a listening socket on a free descriptor or only close.
LEMMA EnterPassiveCases ==
  ASSUME DataTypes, NEW s \in Session, EnterPassive(s)
  PROVE  /\ data' = [data EXCEPT ![s] = 0]
         /\ activeOn' = [activeOn EXCEPT ![s] = FALSE]
         /\ at' = [at EXCEPT ![s] = "ready"]
        /\ UNCHANGED <<op, stopped, fd, activeTo, epsvAll, mode, resume, via, spent>>
         /\ \/ /\ table' = AfterClose(s)
               /\ listen' = [listen EXCEPT ![s] = 0]
               /\ asked' = asked
            \/ /\ \E f \in Fd : /\ AfterClose(s)[f] = Free
                                 /\ table' = [AfterClose(s) EXCEPT ![f] = [session |-> s, use |-> "listen"]]
                                 /\ listen' = [listen EXCEPT ![s] = f]
               /\ asked' = [asked EXCEPT ![s] = "passive"]
  BY DEF EnterPassive, CreatePassive, CloseDataSocket, Opened, Lowest

LEMMA PassiveDataTypes ==
  ASSUME DataTypes, NEW s \in Session, EnterPassive(s), at[s] = "line"
  PROVE  DataTypes'
  <1>0. /\ data' = [data EXCEPT ![s] = 0]
        /\ activeOn' = [activeOn EXCEPT ![s] = FALSE]
        /\ at' = [at EXCEPT ![s] = "ready"]
        /\ UNCHANGED <<op, stopped, fd, activeTo, epsvAll, mode, resume, via, spent>>
        /\ asked' \in {asked, [asked EXCEPT ![s] = "passive"]}
    <2>1. /\ activeOn' = [activeOn EXCEPT ![s] = FALSE]
          /\ CreatePassive(s)
          /\ at' = [at EXCEPT ![s] = "ready"]
          /\ UNCHANGED <<op, stopped, fd, activeTo, epsvAll, mode, resume, via, spent>>
      BY DEF EnterPassive
    <2>2. data' = [data EXCEPT ![s] = 0] /\ asked' \in {asked, [asked EXCEPT ![s] = "passive"]}
      BY <2>1 DEF CreatePassive, CloseDataSocket
    <2> QED BY <2>1, <2>2
  <1>1. /\ data' \in [Session -> 0..MaxFd] /\ activeOn' \in [Session -> BOOLEAN]
        /\ asked' \in [Session -> Endpoint \cup {"nothing", "passive", "unsure"}]
    <2>1. data' \in [Session -> 0..MaxFd] /\ activeOn' \in [Session -> BOOLEAN]
      BY <1>0 DEF DataTypes
    <2>2. asked' = asked \/ asked' = [asked EXCEPT ![s] = "passive"]
      BY <1>0
    <2> DEFINE Asked == Endpoint \cup {"nothing", "passive", "unsure"}
    <2>3. asked \in [Session -> Asked] /\ "passive" \in Asked
      BY DEF DataTypes
    <2>4. asked' \in [Session -> Asked]
      <3> HIDE DEF Asked
      <3> QED BY <2>2, <2>3
    <2> QED BY <2>1, <2>4
  <1>t. AfterClose(s) \in [Fd -> Entry] /\ listen \in [Session -> 0..MaxFd] /\ 0 \in 0..MaxFd
    BY AfterCloseTable DEF DataTypes
  <1>2. table' \in [Fd -> Entry] /\ listen' \in [Session -> 0..MaxFd]
    <2>1. CASE table' = AfterClose(s) /\ listen' = [listen EXCEPT ![s] = 0]
      BY <2>1, <1>t
    <2>2. CASE \E f \in Fd : /\ table' = [AfterClose(s) EXCEPT ![f] = [session |-> s, use |-> "listen"]]
                             /\ listen' = [listen EXCEPT ![s] = f]
      <3> PICK f \in Fd : /\ table' = [AfterClose(s) EXCEPT ![f] = [session |-> s, use |-> "listen"]]
                         /\ listen' = [listen EXCEPT ![s] = f]
        BY <2>2
      <3>1. [session |-> s, use |-> "listen"] \in Entry /\ f \in 0..MaxFd
        OBVIOUS
      <3>2. table' \in [Fd -> Entry]
        BY <3>1, <1>t
      <3>3. listen' \in [Session -> 0..MaxFd]
        BY <3>1, <1>t
      <3> QED BY <3>2, <3>3
    <2> QED BY <2>1, <2>2, EnterPassiveCases
  <1>3. /\ at' \in [Session -> {"ready", "line", "sent", "wait", "transfer"}]
        /\ \A r \in Session : fd'[r] # 0 <=> at'[r] = "transfer"
    BY <1>0 DEF DataTypes
  <1> QED BY <1>0, <1>1, <1>2, <1>3 DEF DataTypes

LEMMA PassiveNoSocketLeaks ==
  ASSUME DataTypes, NoSocketLeaks, NEW s \in Session, EnterPassive(s)
  PROVE  NoSocketLeaks'
  <1> SUFFICES ASSUME NEW g \in Fd, table'[g] # Free
               PROVE  \E r \in Session : /\ table'[g].session = r
                                         /\ g = IF table'[g].use = "listen" THEN listen'[r] ELSE fd'[r]
    BY DEF NoSocketLeaks
  <1>0. fd' = fd /\ \A r \in Session : r # s => listen'[r] = listen[r]
    BY DEF EnterPassive, CreatePassive, CloseDataSocket, DataTypes
  <1>1. ASSUME AfterClose(s)[g] # Free, table'[g] = AfterClose(s)[g]
        PROVE  /\ table'[g] = table[g] /\ g # listen[s]
               /\ \E r \in Session : /\ table[g].session = r
                                      /\ g = IF table[g].use = "listen" THEN listen[r] ELSE fd[r]
    BY <1>1, AfterCloseTable DEF NoSocketLeaks
  <1>2. ASSUME AfterClose(s)[g] # Free, table'[g] = AfterClose(s)[g]
        PROVE  \E r \in Session : /\ table'[g].session = r
                                  /\ g = IF table'[g].use = "listen" THEN listen'[r] ELSE fd'[r]
    BY <1>0, <1>1, <1>2
  <1>3. CASE table' = AfterClose(s)
    BY <1>2, <1>3
  <1>4. ASSUME NEW f \in Fd, AfterClose(s)[f] = Free,
               table' = [AfterClose(s) EXCEPT ![f] = [session |-> s, use |-> "listen"]],
               listen' = [listen EXCEPT ![s] = f]
        PROVE  \E r \in Session : /\ table'[g].session = r
                                  /\ g = IF table'[g].use = "listen" THEN listen'[r] ELSE fd'[r]
    <2>1. CASE g = f
      BY SMTT(30), <1>4, <2>1, AfterCloseTable DEF DataTypes
    <2>2. CASE g # f
      BY <1>2, <1>4, <2>2, AfterCloseTable
    <2> QED BY <2>1, <2>2
  <1> QED BY <1>3, <1>4, EnterPassiveCases

\* Every step keeps the types.
LEMMA StepDataTypes == DataTypes /\ [Next]_vars => DataTypes'
  <1> SUFFICES ASSUME DataTypes, [Next]_vars PROVE DataTypes'
    OBVIOUS
  <1> USE DEF DataTypes
  <1>1. ASSUME NEW s \in Session, HandlePASV(s) PROVE DataTypes'
    BY <1>1, PassiveDataTypes DEF HandlePASV
  <1>2. ASSUME NEW s \in Session, HandleEPSV(s) PROVE DataTypes'
    BY <1>2, PassiveDataTypes DEF HandleEPSV
  <1>3. ASSUME NEW s \in Session, HandleEPSVALL(s) PROVE DataTypes'
    BY <1>3 DEF HandleEPSVALL
  <1>4. ASSUME NEW s \in Session, NEW e \in Endpoint, HandlePORT(s, e) PROVE DataTypes'
    BY <1>4 DEF HandlePORT, EnterActive, CloseDataSocket, AfterClose, Closed
  <1>5. ASSUME NEW s \in Session, NEW e \in {LowPort, NoPort}, RefusePORT(s, e) PROVE DataTypes'
    BY <1>5 DEF RefusePORT
  <1>6. ASSUME NEW s \in Session, NEW e \in Endpoint, HandleEPRT(s, e) PROVE DataTypes'
    BY <1>6 DEF HandleEPRT, EnterActive, CloseDataSocket, AfterClose, Closed
  <1>7. ASSUME NEW s \in Session, HandleABOR(s) PROVE DataTypes'
    BY <1>7 DEF HandleABOR, CloseDataSocket, AfterClose, Closed
  <1>8. ASSUME NEW s \in Session, NEW m \in {"S", "Z"}, HandleMODE(s, m) PROVE DataTypes'
    BY <1>8 DEF HandleMODE
  <1>9. ASSUME NEW s \in Session, NEW n \in 0..MaxRest, HandleREST(s, n) PROVE DataTypes'
    BY <1>9 DEF HandleREST
  <1>10. ASSUME NEW s \in Session, HandleLIST(s) PROVE DataTypes'
    BY <1>10 DEF HandleLIST, Wait
  <1>11. ASSUME NEW s \in Session, NEW o \in Resuming, StartTransfer(s, o) PROVE DataTypes'
    <2>1. CASE mode[s] = "Z" /\ resume[s] > 0
      <3>1. /\ resume' = [resume EXCEPT ![s] = 0]
            /\ Obeyed(s)
            /\ UNCHANGED <<table, listen, data, active, epsvAll, mode, history>>
        BY <1>11, <2>1 DEF StartTransfer
      <3>2. /\ at' \in [Session -> {"ready", "line", "sent", "wait", "transfer"}]
            /\ \A r \in Session : fd'[r] # 0 <=> at'[r] = "transfer"
        BY <1>11, <3>1 DEF StartTransfer
      <3>3. resume' \in [Session -> 0..MaxRest]
        BY <3>1
      <3> QED BY <3>1, <3>2, <3>3
    <2>2. CASE ~(mode[s] = "Z" /\ resume[s] > 0)
      <3>1. Wait(s, o) /\ UNCHANGED resume
        BY <1>11, <2>2 DEF StartTransfer
      <3>2. o \in {"list", "retr", "stor", "appe"} /\ fd[s] = 0
        BY <1>11 DEF StartTransfer
      <3>3. /\ at' \in [Session -> {"ready", "line", "sent", "wait", "transfer"}]
            /\ op' \in [Session -> {"list", "retr", "stor", "appe"}]
            /\ \A r \in Session : fd'[r] # 0 <=> at'[r] = "transfer"
        BY <3>1, <3>2 DEF Wait
      <3> QED BY <3>1, <3>3 DEF Wait
    <2> QED BY <2>1, <2>2
  <1>12. ASSUME NEW s \in Session, HandleSTOU(s) PROVE DataTypes'
    BY <1>12 DEF HandleSTOU, Wait
  <1>13. ASSUME NEW s \in Session, HandleAPPE(s) PROVE DataTypes'
    BY <1>13 DEF HandleAPPE, Wait
  <1>14. ASSUME NEW s \in Session, ConnectActive(s) PROVE DataTypes'
    <2>1. CASE Connected(s, activeTo[s])
      BY <1>14, <2>1 DEF ConnectActive, Connected, ClearActive, Opened, Lowest
    <2>2. CASE NoConnection(s) /\ data' = [data EXCEPT ![s] = 0] /\ asked' = UsedUp(s, TRUE)
      BY <1>14, <2>2 DEF ConnectActive, NoConnection, ClearActive, UsedUp
    <2> QED BY <1>14, <2>1, <2>2 DEF ConnectActive
  <1>15. ASSUME NEW s \in Session, GiveUpActive(s) PROVE DataTypes'
    BY <1>15 DEF GiveUpActive, NoConnection
  <1>16. ASSUME NEW s \in Session, AcceptPassive(s) PROVE DataTypes'
    BY <1>16 DEF AcceptPassive, Connected, Opened, Lowest
  <1>17. ASSUME NEW s \in Session, AcceptNobody(s) PROVE DataTypes'
    <2>1. CASE UNCHANGED data
      BY <1>17, <2>1 DEF AcceptNobody, NoConnection
    <2>2. CASE data' = [data EXCEPT ![s] = 0]
      BY <1>17, <2>2 DEF AcceptNobody, NoConnection
    <2> QED BY <1>17, <2>1, <2>2 DEF AcceptNobody
  <1>18. ASSUME NEW s \in Session, Complete(s) PROVE DataTypes'
    <2>1. CASE op[s] = "list"
      BY <1>18, <2>1 DEF Complete, CloseTransfer, Closed, UsedUp
    <2>2. CASE op[s] # "list"
      <3>1. /\ CloseTransfer(s)
            /\ resume' = [resume EXCEPT ![s] = 0]
            /\ spent' = [spent EXCEPT ![s] = resume'[s] > 0]
        BY <1>18, <2>2 DEF Complete
      <3>2. spent' \in [Session -> BOOLEAN]
        <4>1. (resume'[s] > 0) \in BOOLEAN
          OBVIOUS
        <4> QED BY <3>1, <4>1, Zenon
      <3>3. resume' \in [Session -> 0..MaxRest]
        BY <3>1
      <3> QED BY <3>1, <3>2, <3>3 DEF CloseTransfer, Closed, UsedUp
    <2> QED BY <2>1, <2>2
  <1>19. ASSUME NEW s \in Session, Fail(s) PROVE DataTypes'
    BY <1>19 DEF Fail, CloseTransfer, Closed, UsedUp
  <1>20. ASSUME NEW s \in Session, Stop(s) PROVE DataTypes'
    BY <1>20 DEF Stop, CloseDataSocket, AfterClose, Closed
  <1>21. ASSUME NEW s \in Session, Renew(s) PROVE DataTypes'
    BY <1>21 DEF Renew, CloseDataSocket, AfterClose, Closed
  <1>22. ASSUME NEW s \in Session, ReadLine(s) PROVE DataTypes'
    BY <1>22 DEF ReadLine
  <1>23. ASSUME NEW s \in Session, Lock(s) PROVE DataTypes'
    BY <1>23 DEF Lock
  <1>24. CASE UNCHANGED vars
    BY <1>24 DEF vars
  <1> HIDE DEF DataTypes, Ready, Obeyed, active, params, history, waitUnchanged, Fd, Free, Entry, Resuming
  <1> QED BY <1>1, <1>2, <1>3, <1>4, <1>5, <1>6, <1>7, <1>8, <1>9, <1>10, <1>11, <1>12, <1>13, <1>14, <1>15, <1>16, <1>17, <1>18, <1>19, <1>20, <1>21, <1>22, <1>23, <1>24 DEF Next, PlainSession, OtherCommands

\* closeDataSocket() alone.
LEMMA ClosedKeeps ==
  ASSUME DataTypes, NoSocketLeaks, NEW s \in Session, CloseDataSocket(s), fd' = fd
  PROVE  NoSocketLeaks'
  BY DEF DataTypes, NoSocketLeaks, CloseDataSocket, AfterClose, Closed

\* Opening the socket of a transfer.
LEMMA OpenedKeeps ==
  ASSUME DataTypes, NoSocketLeaks, NEW s \in Session, NEW f \in Fd, fd[s] = 0,
         table' = [table EXCEPT ![f] = [session |-> s, use |-> "data"]],
         fd' = [fd EXCEPT ![s] = f], listen' = listen
  PROVE  NoSocketLeaks'
  <1> SUFFICES ASSUME NEW g \in Fd, table'[g] # Free
               PROVE  \E r \in Session : /\ table'[g].session = r
                                         /\ g = IF table'[g].use = "listen" THEN listen'[r] ELSE fd'[r]
    BY DEF NoSocketLeaks
  <1>1. CASE g = f
    BY <1>1 DEF DataTypes
  <1>2. CASE g # f
    <2>1. table'[g] = table[g]
      BY <1>2 DEF DataTypes
    <2>2. PICK r \in Session : /\ table[g].session = r
                               /\ g = IF table[g].use = "listen" THEN listen[r] ELSE fd[r]
      BY <2>1 DEF NoSocketLeaks
    <2>3. fd[r] # 0 => fd'[r] = fd[r]
      BY DEF DataTypes
    <2> QED BY <2>1, <2>2, <2>3
  <1> QED BY <1>1, <1>2

\* Every step keeps each open socket with the session that opened it.
LEMMA StepNoSocketLeaks == DataTypes /\ NoSocketLeaks /\ [Next]_vars => NoSocketLeaks'
  <1> SUFFICES ASSUME DataTypes, NoSocketLeaks, [Next]_vars PROVE NoSocketLeaks'
    OBVIOUS
  <1> USE DEF DataTypes, NoSocketLeaks
  <1>1. ASSUME NEW s \in Session, HandlePASV(s) PROVE NoSocketLeaks'
    BY <1>1, PassiveNoSocketLeaks DEF HandlePASV
  <1>2. ASSUME NEW s \in Session, HandleEPSV(s) PROVE NoSocketLeaks'
    BY <1>2, PassiveNoSocketLeaks DEF HandleEPSV
  <1>3. ASSUME NEW s \in Session, HandleEPSVALL(s) PROVE NoSocketLeaks'
    BY <1>3 DEF HandleEPSVALL
  <1>4. ASSUME NEW s \in Session, NEW e \in Endpoint, HandlePORT(s, e) PROVE NoSocketLeaks'
    BY <1>4, ClosedKeeps DEF HandlePORT, EnterActive
  <1>5. ASSUME NEW s \in Session, NEW e \in {LowPort, NoPort}, RefusePORT(s, e) PROVE NoSocketLeaks'
    BY <1>5 DEF RefusePORT
  <1>6. ASSUME NEW s \in Session, NEW e \in Endpoint, HandleEPRT(s, e) PROVE NoSocketLeaks'
    BY <1>6, ClosedKeeps DEF HandleEPRT, EnterActive
  <1>7. ASSUME NEW s \in Session, HandleABOR(s) PROVE NoSocketLeaks'
    BY <1>7, ClosedKeeps DEF HandleABOR
  <1>8. ASSUME NEW s \in Session, NEW m \in {"S", "Z"}, HandleMODE(s, m) PROVE NoSocketLeaks'
    BY <1>8 DEF HandleMODE
  <1>9. ASSUME NEW s \in Session, NEW n \in 0..MaxRest, HandleREST(s, n) PROVE NoSocketLeaks'
    BY <1>9 DEF HandleREST
  <1>10. ASSUME NEW s \in Session, HandleLIST(s) PROVE NoSocketLeaks'
    BY <1>10 DEF HandleLIST, Wait
  <1>11. ASSUME NEW s \in Session, NEW o \in Resuming, StartTransfer(s, o) PROVE NoSocketLeaks'
    <2>1. CASE mode[s] = "Z" /\ resume[s] > 0
      BY <1>11, <2>1 DEF StartTransfer
    <2>2. CASE ~(mode[s] = "Z" /\ resume[s] > 0)
      BY <1>11, <2>2 DEF StartTransfer, Wait
    <2> QED BY <2>1, <2>2
  <1>12. ASSUME NEW s \in Session, HandleSTOU(s) PROVE NoSocketLeaks'
    BY <1>12 DEF HandleSTOU, Wait
  <1>13. ASSUME NEW s \in Session, HandleAPPE(s) PROVE NoSocketLeaks'
    BY <1>13 DEF HandleAPPE, Wait
  <1>14. ASSUME NEW s \in Session, ConnectActive(s) PROVE NoSocketLeaks'
    <2>1. CASE Connected(s, activeTo[s])
      <3>1. PICK f \in Fd : /\ table[f] = Free
                            /\ table' = [table EXCEPT ![f] = [session |-> s, use |-> "data"]]
                            /\ fd' = [fd EXCEPT ![s] = f]
        BY <2>1 DEF Connected, Lowest, Opened
      <3>2. listen' = listen /\ fd[s] = 0
        BY <1>14 DEF ConnectActive
      <3> QED BY <3>1, <3>2, OpenedKeeps
    <2>2. CASE NoConnection(s) /\ data' = [data EXCEPT ![s] = 0] /\ asked' = UsedUp(s, TRUE)
      BY <1>14, <2>2 DEF ConnectActive, NoConnection, ClearActive, UsedUp
    <2> QED BY <1>14, <2>1, <2>2 DEF ConnectActive
  <1>15. ASSUME NEW s \in Session, GiveUpActive(s) PROVE NoSocketLeaks'
    BY <1>15 DEF GiveUpActive, NoConnection
  <1>16. ASSUME NEW s \in Session, AcceptPassive(s) PROVE NoSocketLeaks'
    <2>1. PICK f \in Fd : /\ table[f] = Free
                          /\ table' = [table EXCEPT ![f] = [session |-> s, use |-> "data"]]
                          /\ fd' = [fd EXCEPT ![s] = f]
      BY <1>16 DEF AcceptPassive, Connected, Lowest, Opened
    <2>2. listen' = listen /\ fd[s] = 0
      BY <1>16 DEF AcceptPassive
    <2> QED BY <2>1, <2>2, OpenedKeeps
  <1>17. ASSUME NEW s \in Session, AcceptNobody(s) PROVE NoSocketLeaks'
    <2>1. CASE UNCHANGED data
      BY <1>17, <2>1 DEF AcceptNobody, NoConnection
    <2>2. CASE data' = [data EXCEPT ![s] = 0]
      BY <1>17, <2>2 DEF AcceptNobody, NoConnection
    <2> QED BY <1>17, <2>1, <2>2 DEF AcceptNobody
  <1>18. ASSUME NEW s \in Session, Complete(s) PROVE NoSocketLeaks'
    <2>1. CASE op[s] = "list"
      BY <1>18, <2>1 DEF Complete, CloseTransfer, Closed, UsedUp
    <2>2. CASE op[s] # "list"
      BY <1>18, <2>2 DEF Complete, CloseTransfer, Closed, UsedUp
    <2> QED BY <2>1, <2>2
  <1>19. ASSUME NEW s \in Session, Fail(s) PROVE NoSocketLeaks'
    BY <1>19 DEF Fail, CloseTransfer, Closed, UsedUp
  <1>20. ASSUME NEW s \in Session, Stop(s) PROVE NoSocketLeaks'
    BY <1>20, ClosedKeeps DEF Stop
  <1>21. ASSUME NEW s \in Session, Renew(s) PROVE NoSocketLeaks'
    BY <1>21, ClosedKeeps DEF Renew
  <1>22. ASSUME NEW s \in Session, ReadLine(s) PROVE NoSocketLeaks'
    BY <1>22 DEF ReadLine
  <1>23. ASSUME NEW s \in Session, Lock(s) PROVE NoSocketLeaks'
    BY <1>23 DEF Lock
  <1>24. CASE UNCHANGED vars
    BY <1>24 DEF vars
  <1> QED BY <1>1, <1>2, <1>3, <1>4, <1>5, <1>6, <1>7, <1>8, <1>9, <1>10, <1>11, <1>12, <1>13, <1>14, <1>15, <1>16, <1>17, <1>18, <1>19, <1>20, <1>21, <1>22, <1>23, <1>24 DEF Next, PlainSession, OtherCommands

\* Every step keeps the mode that was asked for.
LEMMA StepModeInv == DataTypes /\ ModeInv /\ [Next]_vars => ModeInv'
  <1> SUFFICES ASSUME DataTypes, ModeInv, [Next]_vars PROVE ModeInv'
    OBVIOUS
  <1> USE DEF DataTypes, ModeInv
  <1>1. ASSUME NEW s \in Session, HandlePASV(s) PROVE ModeInv'
    BY <1>1 DEF HandlePASV, EnterPassive, CreatePassive, CloseDataSocket, AfterClose, Closed, Lowest, Opened
  <1>2. ASSUME NEW s \in Session, HandleEPSV(s) PROVE ModeInv'
    BY <1>2 DEF HandleEPSV, EnterPassive, CreatePassive, CloseDataSocket, AfterClose, Closed, Lowest, Opened
  <1>3. ASSUME NEW s \in Session, HandleEPSVALL(s) PROVE ModeInv'
    BY <1>3 DEF HandleEPSVALL
  <1>4. ASSUME NEW s \in Session, NEW e \in Endpoint, HandlePORT(s, e) PROVE ModeInv'
    BY <1>4 DEF HandlePORT, EnterActive, CloseDataSocket, AfterClose, Closed
  <1>5. ASSUME NEW s \in Session, NEW e \in {LowPort, NoPort}, RefusePORT(s, e) PROVE ModeInv'
    BY <1>5 DEF RefusePORT
  <1>6. ASSUME NEW s \in Session, NEW e \in Endpoint, HandleEPRT(s, e) PROVE ModeInv'
    BY <1>6 DEF HandleEPRT, EnterActive, CloseDataSocket, AfterClose, Closed
  <1>7. ASSUME NEW s \in Session, HandleABOR(s) PROVE ModeInv'
    BY <1>7 DEF HandleABOR, CloseDataSocket, AfterClose, Closed
  <1>8. ASSUME NEW s \in Session, NEW m \in {"S", "Z"}, HandleMODE(s, m) PROVE ModeInv'
    BY <1>8 DEF HandleMODE
  <1>9. ASSUME NEW s \in Session, NEW n \in 0..MaxRest, HandleREST(s, n) PROVE ModeInv'
    BY <1>9 DEF HandleREST
  <1>10. ASSUME NEW s \in Session, HandleLIST(s) PROVE ModeInv'
    BY <1>10 DEF HandleLIST, Wait
  <1>11. ASSUME NEW s \in Session, NEW o \in Resuming, StartTransfer(s, o) PROVE ModeInv'
    <2>1. CASE mode[s] = "Z" /\ resume[s] > 0
      BY <1>11, <2>1 DEF StartTransfer
    <2>2. CASE ~(mode[s] = "Z" /\ resume[s] > 0)
      BY <1>11, <2>2 DEF StartTransfer, Wait
    <2> QED BY <2>1, <2>2
  <1>12. ASSUME NEW s \in Session, HandleSTOU(s) PROVE ModeInv'
    BY <1>12 DEF HandleSTOU, Wait
  <1>13. ASSUME NEW s \in Session, HandleAPPE(s) PROVE ModeInv'
    BY <1>13 DEF HandleAPPE, Wait
  <1>14. ASSUME NEW s \in Session, ConnectActive(s) PROVE ModeInv'
    <2>1. CASE Connected(s, activeTo[s])
      BY <1>14, <2>1 DEF ConnectActive, Connected, ClearActive, Opened, Lowest
    <2>2. CASE NoConnection(s) /\ data' = [data EXCEPT ![s] = 0] /\ asked' = UsedUp(s, TRUE)
      BY <1>14, <2>2 DEF ConnectActive, NoConnection, ClearActive, UsedUp
    <2> QED BY <1>14, <2>1, <2>2 DEF ConnectActive
  <1>15. ASSUME NEW s \in Session, GiveUpActive(s) PROVE ModeInv'
    BY <1>15 DEF GiveUpActive, NoConnection
  <1>16. ASSUME NEW s \in Session, AcceptPassive(s) PROVE ModeInv'
    BY <1>16 DEF AcceptPassive, Connected, Opened, Lowest
  <1>17. ASSUME NEW s \in Session, AcceptNobody(s) PROVE ModeInv'
    <2>1. CASE UNCHANGED data
      BY <1>17, <2>1 DEF AcceptNobody, NoConnection
    <2>2. CASE data' = [data EXCEPT ![s] = 0]
      BY <1>17, <2>2 DEF AcceptNobody, NoConnection
    <2> QED BY <1>17, <2>1, <2>2 DEF AcceptNobody
  <1>18. ASSUME NEW s \in Session, Complete(s) PROVE ModeInv'
    <2>1. CASE op[s] = "list"
      BY <1>18, <2>1 DEF Complete, CloseTransfer, Closed, UsedUp
    <2>2. CASE op[s] # "list"
      BY <1>18, <2>2 DEF Complete, CloseTransfer, Closed, UsedUp
    <2> QED BY <2>1, <2>2
  <1>19. ASSUME NEW s \in Session, Fail(s) PROVE ModeInv'
    BY <1>19 DEF Fail, CloseTransfer, Closed, UsedUp
  <1>20. ASSUME NEW s \in Session, Stop(s) PROVE ModeInv'
    BY <1>20 DEF Stop, CloseDataSocket, AfterClose, Closed
  <1>21. ASSUME NEW s \in Session, Renew(s) PROVE ModeInv'
    BY <1>21 DEF Renew, CloseDataSocket, AfterClose, Closed
  <1>22. ASSUME NEW s \in Session, ReadLine(s) PROVE ModeInv'
    BY <1>22 DEF ReadLine
  <1>23. ASSUME NEW s \in Session, Lock(s) PROVE ModeInv'
    BY <1>23 DEF Lock
  <1>24. CASE UNCHANGED vars
    BY <1>24 DEF vars
  <1> QED BY <1>1, <1>2, <1>3, <1>4, <1>5, <1>6, <1>7, <1>8, <1>9, <1>10, <1>11, <1>12, <1>13, <1>14, <1>15, <1>16, <1>17, <1>18, <1>19, <1>20, <1>21, <1>22, <1>23, <1>24 DEF Next, PlainSession, OtherCommands

\* Every step keeps REST positions apart.
LEMMA StepRestInv == DataTypes /\ RestInv /\ [Next]_vars => RestInv'
  <1> SUFFICES ASSUME DataTypes, RestInv, [Next]_vars PROVE RestInv'
    OBVIOUS
  <1> USE DEF DataTypes, RestInv
  <1>1. ASSUME NEW s \in Session, HandlePASV(s) PROVE RestInv'
    BY <1>1 DEF HandlePASV, EnterPassive, CreatePassive, CloseDataSocket, AfterClose, Closed, Lowest, Opened
  <1>2. ASSUME NEW s \in Session, HandleEPSV(s) PROVE RestInv'
    BY <1>2 DEF HandleEPSV, EnterPassive, CreatePassive, CloseDataSocket, AfterClose, Closed, Lowest, Opened
  <1>3. ASSUME NEW s \in Session, HandleEPSVALL(s) PROVE RestInv'
    BY <1>3 DEF HandleEPSVALL
  <1>4. ASSUME NEW s \in Session, NEW e \in Endpoint, HandlePORT(s, e) PROVE RestInv'
    BY <1>4 DEF HandlePORT, EnterActive, CloseDataSocket, AfterClose, Closed
  <1>5. ASSUME NEW s \in Session, NEW e \in {LowPort, NoPort}, RefusePORT(s, e) PROVE RestInv'
    BY <1>5 DEF RefusePORT
  <1>6. ASSUME NEW s \in Session, NEW e \in Endpoint, HandleEPRT(s, e) PROVE RestInv'
    BY <1>6 DEF HandleEPRT, EnterActive, CloseDataSocket, AfterClose, Closed
  <1>7. ASSUME NEW s \in Session, HandleABOR(s) PROVE RestInv'
    BY <1>7 DEF HandleABOR, CloseDataSocket, AfterClose, Closed
  <1>8. ASSUME NEW s \in Session, NEW m \in {"S", "Z"}, HandleMODE(s, m) PROVE RestInv'
    BY <1>8 DEF HandleMODE
  <1>9. ASSUME NEW s \in Session, NEW n \in 0..MaxRest, HandleREST(s, n) PROVE RestInv'
    BY <1>9 DEF HandleREST
  <1>10. ASSUME NEW s \in Session, HandleLIST(s) PROVE RestInv'
    BY <1>10 DEF HandleLIST, Wait
  <1>11. ASSUME NEW s \in Session, NEW o \in Resuming, StartTransfer(s, o) PROVE RestInv'
    <2>1. CASE mode[s] = "Z" /\ resume[s] > 0
      BY ZenonT(40), <1>11, <2>1 DEF StartTransfer
    <2>2. CASE ~(mode[s] = "Z" /\ resume[s] > 0)
      <3>1. Wait(s, o) /\ UNCHANGED resume
        BY <1>11, <2>2 DEF StartTransfer
      <3>2. resume[s] > 0 => mode[s] = "S"
        BY <2>2
      <3> QED BY <3>1, <3>2 DEF Wait
    <2> QED BY <2>1, <2>2
  <1>12. ASSUME NEW s \in Session, HandleSTOU(s) PROVE RestInv'
    BY <1>12 DEF HandleSTOU, Wait
  <1>13. ASSUME NEW s \in Session, HandleAPPE(s) PROVE RestInv'
    BY <1>13 DEF HandleAPPE, Wait
  <1>14. ASSUME NEW s \in Session, ConnectActive(s) PROVE RestInv'
    <2>1. CASE Connected(s, activeTo[s])
      BY <1>14, <2>1 DEF ConnectActive, Connected, ClearActive, Opened, Lowest
    <2>2. CASE NoConnection(s) /\ data' = [data EXCEPT ![s] = 0] /\ asked' = UsedUp(s, TRUE)
      BY <1>14, <2>2 DEF ConnectActive, NoConnection, ClearActive, UsedUp
    <2> QED BY <1>14, <2>1, <2>2 DEF ConnectActive
  <1>15. ASSUME NEW s \in Session, GiveUpActive(s) PROVE RestInv'
    BY <1>15 DEF GiveUpActive, NoConnection
  <1>16. ASSUME NEW s \in Session, AcceptPassive(s) PROVE RestInv'
    BY <1>16 DEF AcceptPassive, Connected, Opened, Lowest
  <1>17. ASSUME NEW s \in Session, AcceptNobody(s) PROVE RestInv'
    <2>1. CASE UNCHANGED data
      BY <1>17, <2>1 DEF AcceptNobody, NoConnection
    <2>2. CASE data' = [data EXCEPT ![s] = 0]
      BY <1>17, <2>2 DEF AcceptNobody, NoConnection
    <2> QED BY <1>17, <2>1, <2>2 DEF AcceptNobody
  <1>18. ASSUME NEW s \in Session, Complete(s) PROVE RestInv'
    <2>1. CASE op[s] = "list"
      BY <1>18, <2>1 DEF Complete, CloseTransfer, Closed, UsedUp
    <2>2. CASE op[s] # "list"
      BY <1>18, <2>2 DEF Complete, CloseTransfer, Closed, UsedUp
    <2> QED BY <2>1, <2>2
  <1>19. ASSUME NEW s \in Session, Fail(s) PROVE RestInv'
    BY <1>19 DEF Fail, CloseTransfer, Closed, UsedUp
  <1>20. ASSUME NEW s \in Session, Stop(s) PROVE RestInv'
    BY <1>20 DEF Stop, CloseDataSocket, AfterClose, Closed
  <1>21. ASSUME NEW s \in Session, Renew(s) PROVE RestInv'
    BY <1>21 DEF Renew, CloseDataSocket, AfterClose, Closed
  <1>22. ASSUME NEW s \in Session, ReadLine(s) PROVE RestInv'
    BY <1>22 DEF ReadLine
  <1>23. ASSUME NEW s \in Session, Lock(s) PROVE RestInv'
    BY <1>23 DEF Lock
  <1>24. CASE UNCHANGED vars
    BY <1>24 DEF vars
  <1> QED BY <1>1, <1>2, <1>3, <1>4, <1>5, <1>6, <1>7, <1>8, <1>9, <1>10, <1>11, <1>12, <1>13, <1>14, <1>15, <1>16, <1>17, <1>18, <1>19, <1>20, <1>21, <1>22, <1>23, <1>24 DEF Next, PlainSession, OtherCommands

\* robbed has its type after Robs().
LEMMA RobsType ==
  ASSUME TypeOK, NEW s \in Session, NEW fds, NEW own, Robs(s, fds, own)
  PROVE  robbed' \in [Session -> SUBSET {"listen", "data"}]
  BY DEF Robs, TypeOK

\* What closing some descriptors leaves to the sessions.
LEMMA RobsKeeps ==
  ASSUME TypeOK, OwnInv, NEW s \in Session, NEW fds, NEW own, Robs(s, fds, own),
         NEW r \in Session \ {s}
  PROVE  /\ listen[r] # 0 /\ "listen" \notin robbed'[r] =>
              listen[r] \notin fds /\ table[listen[r]] = [session |-> r, use |-> "listen"]
         /\ at[r] = "transfer" /\ ~stopped[r] /\ "data" \notin robbed'[r] =>
              fd[r] \notin fds /\ table[fd[r]] = [session |-> r, use |-> "data"]
  <1>1. /\ robbed[r] \subseteq robbed'[r]
        /\ \A use \in {"listen", "data"}, f \in fds \cap Fd :
             table[f] = [session |-> r, use |-> use] => use \in robbed'[r]
    BY DEF Robs
  <1>2. listen[r] \in 0..MaxFd /\ fd[r] \in 0..MaxFd /\ (at[r] = "transfer" => fd[r] # 0)
    BY DEF TypeOK, DataTypes
  <1>3. listen[r] # 0 => listen[r] \in Fd
    BY <1>2
  <1>4. at[r] = "transfer" => fd[r] \in Fd
    BY <1>2
  <1> QED BY <1>1, <1>3, <1>4 DEF OwnInv

\* Every step keeps the type of what others have closed.
LEMMA StepRobbedType ==
  TypeOK /\ [Next]_vars => robbed' \in [Session -> SUBSET {"listen", "data"}]
  <1> DEFINE Typed == robbed' \in [Session -> SUBSET {"listen", "data"}]
  <1> SUFFICES ASSUME TypeOK, [Next]_vars PROVE Typed
    OBVIOUS
  <1>0. robbed' = robbed => Typed
    BY DEF TypeOK
  <1>1. ASSUME NEW s \in Session, HandlePASV(s) PROVE Typed
    BY <1>1, RobsType DEF HandlePASV, EnterPassive, CreatePassive, CloseDataSocket
  <1>2. ASSUME NEW s \in Session, HandleEPSV(s) PROVE Typed
    BY <1>2, RobsType DEF HandleEPSV, EnterPassive, CreatePassive, CloseDataSocket
  <1>3. ASSUME NEW s \in Session, HandleEPSVALL(s) PROVE Typed
    BY <1>3, <1>0 DEF HandleEPSVALL
  <1>4. ASSUME NEW s \in Session, NEW e \in Endpoint, HandlePORT(s, e) PROVE Typed
    BY <1>4, RobsType DEF HandlePORT, EnterActive, CloseDataSocket
  <1>5. ASSUME NEW s \in Session, NEW e \in {LowPort, NoPort}, RefusePORT(s, e) PROVE Typed
    BY <1>5, <1>0 DEF RefusePORT
  <1>6. ASSUME NEW s \in Session, NEW e \in Endpoint, HandleEPRT(s, e) PROVE Typed
    BY <1>6, RobsType DEF HandleEPRT, EnterActive, CloseDataSocket
  <1>7. ASSUME NEW s \in Session, HandleABOR(s) PROVE Typed
    BY <1>7, RobsType DEF HandleABOR, CloseDataSocket
  <1>8. ASSUME NEW s \in Session, NEW m \in {"S", "Z"}, HandleMODE(s, m) PROVE Typed
    BY <1>8, <1>0 DEF HandleMODE
  <1>9. ASSUME NEW s \in Session, NEW n \in 0..MaxRest, HandleREST(s, n) PROVE Typed
    BY <1>9, <1>0 DEF HandleREST
  <1>10. ASSUME NEW s \in Session, HandleLIST(s) PROVE Typed
    BY <1>10, <1>0 DEF HandleLIST, Wait
  <1>11. ASSUME NEW s \in Session, NEW o \in Resuming, StartTransfer(s, o) PROVE Typed
    BY <1>11, <1>0 DEF StartTransfer, Wait
  <1>12. ASSUME NEW s \in Session, HandleSTOU(s) PROVE Typed
    BY <1>12, <1>0 DEF HandleSTOU, Wait
  <1>13. ASSUME NEW s \in Session, HandleAPPE(s) PROVE Typed
    BY <1>13, <1>0 DEF HandleAPPE, Wait
  <1>14. ASSUME NEW s \in Session, ConnectActive(s) PROVE Typed
    BY <1>14, <1>0 DEF ConnectActive, Connected, NoConnection, TypeOK
  <1>15. ASSUME NEW s \in Session, GiveUpActive(s) PROVE Typed
    BY <1>15, <1>0 DEF GiveUpActive, NoConnection
  <1>16. ASSUME NEW s \in Session, AcceptPassive(s) PROVE Typed
    BY <1>16, <1>0 DEF AcceptPassive, Connected, TypeOK
  <1>17. ASSUME NEW s \in Session, AcceptNobody(s) PROVE Typed
    BY <1>17, <1>0 DEF AcceptNobody, NoConnection
  <1>18. ASSUME NEW s \in Session, Complete(s) PROVE Typed
    BY <1>18, RobsType DEF Complete, CloseTransfer
  <1>19. ASSUME NEW s \in Session, Fail(s) PROVE Typed
    BY <1>19, RobsType DEF Fail, CloseTransfer
  <1>20. ASSUME NEW s \in Session, Stop(s) PROVE Typed
    BY <1>20, RobsType DEF Stop, CloseDataSocket
  <1>21. ASSUME NEW s \in Session, Renew(s) PROVE Typed
    BY <1>21, RobsType DEF Renew, CloseDataSocket
  <1>22. ASSUME NEW s \in Session, ReadLine(s) PROVE Typed
    BY <1>22, <1>0 DEF ReadLine
  <1>23. ASSUME NEW s \in Session, Lock(s) PROVE Typed
    BY <1>23, <1>0 DEF Lock
  <1>24. CASE UNCHANGED vars
    BY <1>24, <1>0 DEF vars
  <1> HIDE DEF Typed
  <1> QED BY <1>1, <1>2, <1>3, <1>4, <1>5, <1>6, <1>7, <1>8, <1>9, <1>10, <1>11, <1>12, <1>13, <1>14, <1>15, <1>16, <1>17, <1>18, <1>19, <1>20, <1>21, <1>22, <1>23, <1>24 DEF Next, PlainSession, OtherCommands

LEMMA StepTypeOK == TypeOK /\ [Next]_vars => TypeOK'
  BY StepDataTypes, StepRobbedType DEF TypeOK

\* OwnInv from what a step that closes and opens nothing leaves alone.
LEMMA SameSockets ==
  ASSUME OwnInv, UNCHANGED <<table, listen, fd, robbed, via>>,
         \A s \in Session : at'[s] = "transfer" => at[s] = "transfer",
         \A s \in Session : ~stopped'[s] => ~stopped[s]
  PROVE  OwnInv'
  BY DEF OwnInv, Apart

\* OwnInv after closeDataSocket(), with a passive socket opened after it or not.
LEMMA ClosedSockets ==
  ASSUME TypeOK, OwnInv, NEW s \in Session,
         Robs(s, {listen[s], data[s]}, {"listen"}), fd' = fd,
         at'[s] # "transfer" \/ stopped'[s],
         \A r \in Session \ {s} :
            at'[r] = at[r] /\ stopped'[r] = stopped[r] /\ via'[r] = via[r],
         \/ /\ table' = AfterClose(s) /\ listen' = [listen EXCEPT ![s] = 0]
         \/ /\ at'[s] # "transfer"
            /\ \E f \in Fd :
                 /\ AfterClose(s)[f] = Free
                 /\ table' = [AfterClose(s) EXCEPT ![f] = [session |-> s, use |-> "listen"]]
                 /\ listen' = [listen EXCEPT ![s] = f]
  PROVE  OwnInv'
  <1> SUFFICES ASSUME NEW r \in Session
               PROVE  /\ Apart(r)'
                      /\ listen'[r] # 0 /\ "listen" \notin robbed'[r] =>
                           table'[listen'[r]] = [session |-> r, use |-> "listen"]
                      /\ at'[r] = "transfer" /\ ~stopped'[r] /\ "data" \notin robbed'[r] =>
                           table'[fd'[r]] = [session |-> r, use |-> "data"]
    BY DEF OwnInv
  <1>1. DataTypes
    BY DEF TypeOK
  <1>2. /\ AfterClose(s) \in [Fd -> Entry]
        /\ \A f \in Fd : AfterClose(s)[f] =
             IF f \in {listen[s], data[s]} THEN Free ELSE table[f]
    BY <1>1, AfterCloseTable
  <1>3. CASE r = s
    <2>1. listen \in [Session -> 0..MaxFd]
      BY <1>1 DEF DataTypes
    <2>2. listen'[s] # 0 => table'[listen'[s]] = [session |-> s, use |-> "listen"]
      <3>1. CASE table' = AfterClose(s) /\ listen' = [listen EXCEPT ![s] = 0]
        BY <2>1, <3>1
      <3>2. ASSUME NEW f \in Fd,
                   table' = [AfterClose(s) EXCEPT ![f] = [session |-> s, use |-> "listen"]],
                   listen' = [listen EXCEPT ![s] = f]
            PROVE  table'[listen'[s]] = [session |-> s, use |-> "listen"]
        BY <1>2, <2>1, <3>2
      <3> QED BY <3>1, <3>2
    <2>3. Apart(s)'
      <3>1. CASE at'[s] # "transfer"
        BY <3>1 DEF Apart
      <3>2. CASE at'[s] = "transfer"
        <4>1. listen'[s] = 0 /\ stopped'[s]
          BY <2>1, <3>2
        <4> QED BY <4>1 DEF Apart
      <3> QED BY <3>1, <3>2
    <2> QED BY <1>3, <2>2, <2>3
  <1>4. CASE r # s
    <2>1. /\ listen[r] # 0 /\ "listen" \notin robbed'[r] =>
               listen[r] \notin {listen[s], data[s]} /\ table[listen[r]] = [session |-> r, use |-> "listen"]
          /\ at[r] = "transfer" /\ ~stopped[r] /\ "data" \notin robbed'[r] =>
               fd[r] \notin {listen[s], data[s]} /\ table[fd[r]] = [session |-> r, use |-> "data"]
      BY <1>4, RobsKeeps
    <2>2. /\ listen[r] # 0 => listen[r] \in Fd
          /\ at[r] = "transfer" => fd[r] \in Fd
          /\ listen'[r] = listen[r] /\ fd'[r] = fd[r] /\ at'[r] = at[r] /\ stopped'[r] = stopped[r]
      BY <1>1, <1>4 DEF DataTypes
    <2>3. \A f \in Fd : AfterClose(s)[f] # Free => table'[f] = AfterClose(s)[f]
      BY <1>2
    <2>4. \A use \in {"listen", "data"} : [session |-> r, use |-> use] # Free
      OBVIOUS
    <2>5. listen[r] # 0 /\ "listen" \notin robbed'[r] => table'[listen[r]] = table[listen[r]]
      BY <1>2, <2>1, <2>2, <2>3, <2>4
    <2>6. at[r] = "transfer" /\ ~stopped[r] /\ "data" \notin robbed'[r] => table'[fd[r]] = table[fd[r]]
      BY <1>2, <2>1, <2>2, <2>3, <2>4
    <2>7. robbed[r] \subseteq robbed'[r]
      BY <1>4 DEF Robs
    <2>8. Apart(r)
      BY DEF OwnInv
    <2> QED BY <2>1, <2>2, <2>5, <2>6, <2>7, <2>8 DEF Apart
  <1> QED BY <1>3, <1>4

\* OwnInv when the socket of a transfer is opened on a free descriptor.
LEMMA OpenedSocket ==
  ASSUME TypeOK, OwnInv, NEW s \in Session, NEW f \in Fd, table[f] = Free,
         table' = [table EXCEPT ![f] = [session |-> s, use |-> "data"]],
         fd' = [fd EXCEPT ![s] = f], robbed' = [robbed EXCEPT ![s] = @ \ {"data"}],
         UNCHANGED <<listen, stopped>>,
         \A r \in Session \ {s} : at'[r] = at[r] /\ via'[r] = via[r],
         via'[s] = "foreign" => "listen" \in robbed[s]
  PROVE  OwnInv'
  <1> SUFFICES ASSUME NEW r \in Session
               PROVE  /\ Apart(r)'
                      /\ listen'[r] # 0 /\ "listen" \notin robbed'[r] =>
                           table'[listen'[r]] = [session |-> r, use |-> "listen"]
                      /\ at'[r] = "transfer" /\ ~stopped'[r] /\ "data" \notin robbed'[r] =>
                           table'[fd'[r]] = [session |-> r, use |-> "data"]
    BY DEF OwnInv
  <1>1. /\ table \in [Fd -> Entry] /\ fd \in [Session -> 0..MaxFd] /\ listen[r] \in 0..MaxFd
        /\ robbed \in [Session -> SUBSET {"listen", "data"}]
        /\ fd[r] \in 0..MaxFd /\ (at[r] = "transfer" => fd[r] # 0)
    BY DEF TypeOK, DataTypes
  <1>2. \A use \in {"listen", "data"} : [session |-> r, use |-> use] # Free
    OBVIOUS
  <1>3. listen[r] # 0 /\ "listen" \notin robbed'[r] =>
           table[listen[r]] = [session |-> r, use |-> "listen"]
    BY <1>1 DEF OwnInv
  <1>4. \A g \in Fd : table[g] # Free => table'[g] = table[g]
    BY <1>1
  <1>5. listen[r] # 0 => listen[r] \in Fd
    BY <1>1
  <1>6. listen'[r] # 0 /\ "listen" \notin robbed'[r] =>
           table'[listen'[r]] = [session |-> r, use |-> "listen"]
    BY <1>2, <1>3, <1>4, <1>5
  <1>7. CASE r = s
    <2>1. "listen" \notin robbed'[s] /\ listen[s] # 0 => listen[s] # f
      BY <1>2, <1>3, <1>7
    <2> QED BY <1>1, <1>6, <1>7, <2>1 DEF Apart
  <1>8. CASE r # s
    <2>1. fd'[r] = fd[r] /\ at'[r] = at[r] /\ via'[r] = via[r] /\ robbed'[r] = robbed[r] /\ stopped'[r] = stopped[r]
      BY <1>1, <1>8
    <2>2. at[r] = "transfer" => fd[r] \in Fd
      BY <1>1
    <2>3. at[r] = "transfer" /\ ~stopped[r] /\ "data" \notin robbed[r] =>
             table[fd[r]] = [session |-> r, use |-> "data"]
      BY DEF OwnInv
    <2>4. Apart(r)
      BY DEF OwnInv
    <2> QED BY <1>2, <1>4, <1>6, <2>1, <2>2, <2>3, <2>4 DEF Apart
  <1> QED BY <1>7, <1>8

\* OwnInv at the end of a transfer.
LEMMA EndedTransfer ==
  ASSUME TypeOK, OwnInv, NoSocketLeaks, NEW s \in Session, CloseTransfer(s)
  PROVE  OwnInv'
  <1> SUFFICES ASSUME NEW r \in Session
               PROVE  /\ Apart(r)'
                      /\ listen'[r] # 0 /\ "listen" \notin robbed'[r] =>
                           table'[listen'[r]] = [session |-> r, use |-> "listen"]
                      /\ at'[r] = "transfer" /\ ~stopped'[r] /\ "data" \notin robbed'[r] =>
                           table'[fd'[r]] = [session |-> r, use |-> "data"]
    BY DEF OwnInv
  <1>0. /\ Robs(s, {fd[s]}, {"data"}) /\ table' = Closed(table, {fd[s]})
        /\ fd' = [fd EXCEPT ![s] = 0] /\ at' = [at EXCEPT ![s] = "ready"]
        /\ UNCHANGED <<listen, stopped>> /\ at[s] = "transfer"
    BY DEF CloseTransfer
  <1>1. /\ table \in [Fd -> Entry] /\ fd \in [Session -> 0..MaxFd] /\ listen[r] \in 0..MaxFd
        /\ robbed \in [Session -> SUBSET {"listen", "data"}] /\ at \in [Session -> {"ready", "line", "sent", "wait", "transfer"}]
        /\ fd[r] \in 0..MaxFd /\ (at[r] = "transfer" => fd[r] # 0)
    BY DEF TypeOK, DataTypes
  <1>2. \A g \in Fd : g # fd[s] => table'[g] = table[g]
    BY <1>0, <1>1 DEF Closed
  <1>3. CASE r = s
    <2>1. at'[s] # "transfer" /\ robbed'[s] = robbed[s] \ {"data"} /\ listen'[s] = listen[s]
      BY <1>0, <1>1 DEF Robs
    <2>5. "listen" \notin robbed'[s] => "listen" \notin robbed[s]
      BY <2>1
    <2>6. listen[s] # 0 => listen[s] \in Fd
      BY <1>1, <1>3
    <2>2. listen[s] # 0 /\ "listen" \notin robbed'[s] =>
             listen[s] \in Fd /\ table[listen[s]] = [session |-> s, use |-> "listen"]
      BY <2>5, <2>6 DEF OwnInv
    <2>3. "listen" \notin robbed'[s] => listen[s] = 0 \/ listen[s] # fd[s]
      BY <1>0, <2>5 DEF OwnInv, Apart
    <2> QED BY <1>2, <1>3, <2>1, <2>2, <2>3 DEF Apart
  <1>4. CASE r # s
    <2>1. /\ listen[r] # 0 /\ "listen" \notin robbed'[r] =>
               listen[r] # fd[s] /\ table[listen[r]] = [session |-> r, use |-> "listen"]
          /\ at[r] = "transfer" /\ ~stopped[r] /\ "data" \notin robbed'[r] =>
               fd[r] # fd[s] /\ table[fd[r]] = [session |-> r, use |-> "data"]
      BY <1>0, <1>4, RobsKeeps
    <2>5. via \in [Session -> Endpoint \cup {LowPort, "nothing", "passive", "foreign"}]
          /\ via' = [via EXCEPT ![s] = "nothing"]
      BY DEF TypeOK, DataTypes, CloseTransfer
    <2>2. fd'[r] = fd[r] /\ at'[r] = at[r] /\ via'[r] = via[r] /\ listen'[r] = listen[r] /\ stopped'[r] = stopped[r]
      BY <1>0, <1>1, <1>4, <2>5
    <2>3. /\ listen[r] # 0 => listen[r] \in Fd
          /\ at[r] = "transfer" => fd[r] \in Fd
      BY <1>1
    <2>4. Apart(r) /\ robbed[r] \subseteq robbed'[r]
      BY <1>0, <1>4 DEF OwnInv, Robs
    <2> QED BY <1>2, <2>1, <2>2, <2>3, <2>4 DEF Apart
  <1> QED BY <1>3, <1>4

\* Every step keeps what nobody else has closed with its session.
LEMMA StepOwnInv == TypeOK /\ NoSocketLeaks /\ OwnInv /\ [Next]_vars => OwnInv'
  <1> SUFFICES ASSUME TypeOK, NoSocketLeaks, OwnInv, [Next]_vars PROVE OwnInv'
    OBVIOUS
  <1>0. /\ table \in [Fd -> Entry] /\ fd \in [Session -> 0..MaxFd]
        /\ at \in [Session -> {"ready", "line", "sent", "wait", "transfer"}]
        /\ stopped \in [Session -> BOOLEAN]
    BY DEF TypeOK, DataTypes
  <1>1. ASSUME NEW s \in Session, HandlePASV(s) PROVE OwnInv'
    BY <1>0, <1>1, ClosedSockets DEF HandlePASV, EnterPassive, CreatePassive, CloseDataSocket, Lowest, Opened
  <1>2. ASSUME NEW s \in Session, HandleEPSV(s) PROVE OwnInv'
    BY <1>0, <1>2, ClosedSockets DEF HandleEPSV, EnterPassive, CreatePassive, CloseDataSocket, Lowest, Opened
  <1>3. ASSUME NEW s \in Session, HandleEPSVALL(s) PROVE OwnInv'
    BY <1>0, <1>3, SameSockets DEF HandleEPSVALL
  <1>4. ASSUME NEW s \in Session, NEW e \in Endpoint, HandlePORT(s, e) PROVE OwnInv'
    BY <1>0, <1>4, ClosedSockets DEF HandlePORT, EnterActive, CloseDataSocket
  <1>5. ASSUME NEW s \in Session, NEW e \in {LowPort, NoPort}, RefusePORT(s, e) PROVE OwnInv'
    BY <1>0, <1>5, SameSockets DEF RefusePORT
  <1>6. ASSUME NEW s \in Session, NEW e \in Endpoint, HandleEPRT(s, e) PROVE OwnInv'
    BY <1>0, <1>6, ClosedSockets DEF HandleEPRT, EnterActive, CloseDataSocket
  <1>7. ASSUME NEW s \in Session, HandleABOR(s) PROVE OwnInv'
    BY <1>0, <1>7, ClosedSockets DEF HandleABOR, CloseDataSocket
  <1>8. ASSUME NEW s \in Session, NEW m \in {"S", "Z"}, HandleMODE(s, m) PROVE OwnInv'
    BY <1>0, <1>8, SameSockets DEF HandleMODE
  <1>9. ASSUME NEW s \in Session, NEW n \in 0..MaxRest, HandleREST(s, n) PROVE OwnInv'
    BY <1>0, <1>9, SameSockets DEF HandleREST
  <1>10. ASSUME NEW s \in Session, HandleLIST(s) PROVE OwnInv'
    BY <1>0, <1>10, SameSockets DEF HandleLIST, Wait
  <1>11. ASSUME NEW s \in Session, NEW o \in Resuming, StartTransfer(s, o) PROVE OwnInv'
    BY <1>0, <1>11, SameSockets DEF StartTransfer, Wait
  <1>12. ASSUME NEW s \in Session, HandleSTOU(s) PROVE OwnInv'
    BY <1>0, <1>12, SameSockets DEF HandleSTOU, Wait
  <1>13. ASSUME NEW s \in Session, HandleAPPE(s) PROVE OwnInv'
    BY <1>0, <1>13, SameSockets DEF HandleAPPE, Wait
  <1>14. ASSUME NEW s \in Session, ConnectActive(s) PROVE OwnInv'
    <2>1. CASE Connected(s, activeTo[s])
      <3>1. PICK f \in Fd : /\ table[f] = Free
                            /\ table' = [table EXCEPT ![f] = [session |-> s, use |-> "data"]]
                            /\ fd' = [fd EXCEPT ![s] = f]
        BY <2>1 DEF Connected, Lowest, Opened
      <3>2. activeTo[s] \in Endpoint \cup {LowPort, NoPort} /\ activeTo[s] # "foreign"
        BY DEF TypeOK, DataTypes
      <3>3. via' = [via EXCEPT ![s] = activeTo[s]] /\ s \in DOMAIN via
        BY <2>1 DEF Connected, TypeOK, DataTypes
      <3>4. /\ robbed' = [robbed EXCEPT ![s] = @ \ {"data"}] /\ UNCHANGED <<listen, stopped>>
            /\ at' = [at EXCEPT ![s] = "transfer"]
        BY <1>14, <2>1 DEF ConnectActive, Connected
      <3>5. \A r \in Session \ {s} : at'[r] = at[r] /\ via'[r] = via[r]
        BY <1>0, <3>3, <3>4 DEF TypeOK, DataTypes
      <3>6. via'[s] # "foreign"
        BY <3>2, <3>3
      <3> QED BY <3>1, <3>4, <3>5, <3>6, OpenedSocket
    <2>2. CASE NoConnection(s)
      BY <1>0, <1>14, <2>2, SameSockets DEF ConnectActive, NoConnection
    <2> QED BY <1>14, <2>1, <2>2 DEF ConnectActive
  <1>15. ASSUME NEW s \in Session, GiveUpActive(s) PROVE OwnInv'
    BY <1>0, <1>15, SameSockets DEF GiveUpActive, NoConnection
  <1>16. ASSUME NEW s \in Session, AcceptPassive(s) PROVE OwnInv'
    <2> DEFINE how == IF table[listen[s]].session = s THEN "passive" ELSE "foreign"
    <2>0. Connected(s, how) /\ listen[s] # 0 /\ UNCHANGED <<listen, stopped>>
      BY <1>16 DEF AcceptPassive
    <2>1. PICK f \in Fd : /\ table[f] = Free
                          /\ table' = [table EXCEPT ![f] = [session |-> s, use |-> "data"]]
                          /\ fd' = [fd EXCEPT ![s] = f]
      BY <2>0 DEF Connected, Lowest, Opened
    <2>2. how = "foreign" => "listen" \in robbed[s]
      <3>1. ASSUME "listen" \notin robbed[s] PROVE table[listen[s]].session = s
        <4>1. table[listen[s]] = [session |-> s, use |-> "listen"]
          BY <2>0, <3>1 DEF OwnInv
        <4> QED BY <4>1
      <3> QED BY <3>1
    <2>3. via' = [via EXCEPT ![s] = how] /\ s \in DOMAIN via
      BY <2>0 DEF Connected, TypeOK, DataTypes
    <2> HIDE DEF how
    <2>4. /\ robbed' = [robbed EXCEPT ![s] = @ \ {"data"}]
          /\ at' = [at EXCEPT ![s] = "transfer"]
      BY <2>0 DEF Connected
    <2>5. \A r \in Session \ {s} : at'[r] = at[r] /\ via'[r] = via[r]
      BY <1>0, <2>3, <2>4 DEF TypeOK, DataTypes
    <2>6. via'[s] = "foreign" => "listen" \in robbed[s]
      BY <2>2, <2>3
    <2> QED BY <2>0, <2>1, <2>4, <2>5, <2>6, OpenedSocket
  <1>17. ASSUME NEW s \in Session, AcceptNobody(s) PROVE OwnInv'
    BY <1>0, <1>17, SameSockets DEF AcceptNobody, NoConnection
  <1>18. ASSUME NEW s \in Session, Complete(s) PROVE OwnInv'
    BY <1>18, EndedTransfer DEF Complete
  <1>19. ASSUME NEW s \in Session, Fail(s) PROVE OwnInv'
    BY <1>19, EndedTransfer DEF Fail
  <1>20. ASSUME NEW s \in Session, Stop(s) PROVE OwnInv'
    BY <1>0, <1>20, ClosedSockets DEF Stop, CloseDataSocket
  <1>21. ASSUME NEW s \in Session, Renew(s) PROVE OwnInv'
    BY <1>0, <1>21, ClosedSockets DEF Renew, CloseDataSocket
  <1>22. ASSUME NEW s \in Session, ReadLine(s) PROVE OwnInv'
    BY <1>0, <1>22, SameSockets DEF ReadLine
  <1>23. ASSUME NEW s \in Session, Lock(s) PROVE OwnInv'
    BY <1>0, <1>23, SameSockets DEF Lock
  <1>24. CASE UNCHANGED vars
    BY <1>24, SameSockets DEF vars
  <1> QED BY <1>1, <1>2, <1>3, <1>4, <1>5, <1>6, <1>7, <1>8, <1>9, <1>10, <1>11, <1>12, <1>13, <1>14, <1>15, <1>16, <1>17, <1>18, <1>19, <1>20, <1>21, <1>22, <1>23, <1>24 DEF Next, PlainSession, OtherCommands

\* The invariant holds in every behaviour.
THEOREM Invariant == Spec => []IInv
  <1>1. IInv /\ [Next]_vars => IInv'
    BY StepTypeOK, StepNoSocketLeaks, StepModeInv, StepOwnInv, StepRestInv DEF IInv, TypeOK
  <1> QED BY <1>1, InitIInv, PTL DEF Spec

\* The variables of the data connections keep their types.
THEOREM TypeCorrect == Spec => []TypeOK
  BY Invariant, PTL DEF IInv

\* closeDataSocket() and the handlers' close(data_fd) leak no socket, whatever other
\* sessions close: every open one is still known to the session that opened it.
THEOREM SocketsAreKept == Spec => []NoSocketLeaks
  BY Invariant, PTL DEF IInv

\* acceptDataConnection() goes the way the last accepted PASV, EPSV, PORT or EPRT asked.
THEOREM LastAskedIsUsed == Spec => []LastModeWins
  <1>1. IInv => LastModeWins
    BY DEF IInv, TypeOK, DataTypes, ModeInv, OwnInv, Apart, LastModeWins
  <1> QED BY <1>1, Invariant, PTL

\* A REST position serves one transfer, and none in MODE Z.
THEOREM RestIsUsedUp == Spec => []RestServesOnce
  <1>1. IInv => RestServesOnce
    BY DEF IInv, RestInv, RestServesOnce
  <1> QED BY <1>1, Invariant, PTL

\* No command enters active mode after EPSV ALL.
THEOREM NoActiveAfterEpsvAll == Spec => EpsvAllIsFinal
  <1>a. TypeOK /\ [Next]_vars => [\A s \in Session : epsvAll[s] /\ activeOn'[s] => activeOn[s]]_vars
    <2> DEFINE Kept == \A s \in Session : epsvAll[s] /\ activeOn'[s] => activeOn[s]
    <2> SUFFICES ASSUME TypeOK, Next PROVE Kept
      OBVIOUS
    <2> USE DEF TypeOK, DataTypes
    <2>1. ASSUME NEW s \in Session, HandlePASV(s) PROVE Kept
      BY <2>1 DEF HandlePASV, EnterPassive, CreatePassive, CloseDataSocket, AfterClose, Closed, Lowest, Opened
    <2>2. ASSUME NEW s \in Session, HandleEPSV(s) PROVE Kept
      BY <2>2 DEF HandleEPSV, EnterPassive, CreatePassive, CloseDataSocket, AfterClose, Closed, Lowest, Opened
    <2>3. ASSUME NEW s \in Session, HandleEPSVALL(s) PROVE Kept
      BY <2>3 DEF HandleEPSVALL
    <2>4. ASSUME NEW s \in Session, NEW e \in Endpoint, HandlePORT(s, e) PROVE Kept
      BY <2>4 DEF HandlePORT, EnterActive, CloseDataSocket, AfterClose, Closed
    <2>5. ASSUME NEW s \in Session, NEW e \in {LowPort, NoPort}, RefusePORT(s, e) PROVE Kept
      BY <2>5 DEF RefusePORT
    <2>6. ASSUME NEW s \in Session, NEW e \in Endpoint, HandleEPRT(s, e) PROVE Kept
      BY <2>6 DEF HandleEPRT, EnterActive, CloseDataSocket, AfterClose, Closed
    <2>7. ASSUME NEW s \in Session, HandleABOR(s) PROVE Kept
      BY <2>7 DEF HandleABOR, CloseDataSocket, AfterClose, Closed
    <2>8. ASSUME NEW s \in Session, NEW m \in {"S", "Z"}, HandleMODE(s, m) PROVE Kept
      BY <2>8 DEF HandleMODE
    <2>9. ASSUME NEW s \in Session, NEW n \in 0..MaxRest, HandleREST(s, n) PROVE Kept
      BY <2>9 DEF HandleREST
    <2>10. ASSUME NEW s \in Session, HandleLIST(s) PROVE Kept
      BY <2>10 DEF HandleLIST, Wait
    <2>11. ASSUME NEW s \in Session, NEW o \in Resuming, StartTransfer(s, o) PROVE Kept
      BY <2>11 DEF StartTransfer, Wait
    <2>12. ASSUME NEW s \in Session, HandleSTOU(s) PROVE Kept
      BY <2>12 DEF HandleSTOU, Wait
    <2>13. ASSUME NEW s \in Session, HandleAPPE(s) PROVE Kept
      BY <2>13 DEF HandleAPPE, Wait
    <2>14. ASSUME NEW s \in Session, ConnectActive(s) PROVE Kept
      BY <2>14 DEF ConnectActive, Connected, NoConnection, ClearActive, UsedUp, Opened, Lowest
    <2>15. ASSUME NEW s \in Session, GiveUpActive(s) PROVE Kept
      BY <2>15 DEF GiveUpActive, NoConnection
    <2>16. ASSUME NEW s \in Session, AcceptPassive(s) PROVE Kept
      BY <2>16 DEF AcceptPassive, Connected, Opened, Lowest
    <2>17. ASSUME NEW s \in Session, AcceptNobody(s) PROVE Kept
      BY <2>17 DEF AcceptNobody, NoConnection
    <2>18. ASSUME NEW s \in Session, Complete(s) PROVE Kept
      BY <2>18 DEF Complete, CloseTransfer, Closed, UsedUp
    <2>19. ASSUME NEW s \in Session, Fail(s) PROVE Kept
      BY <2>19 DEF Fail, CloseTransfer, Closed, UsedUp
    <2>20. ASSUME NEW s \in Session, Stop(s) PROVE Kept
      BY <2>20 DEF Stop, CloseDataSocket, AfterClose, Closed
    <2>21. ASSUME NEW s \in Session, Renew(s) PROVE Kept
      BY <2>21 DEF Renew, CloseDataSocket, AfterClose, Closed
    <2>22. ASSUME NEW s \in Session, ReadLine(s) PROVE Kept
      BY <2>22 DEF ReadLine
    <2>23. ASSUME NEW s \in Session, Lock(s) PROVE Kept
      BY <2>23 DEF Lock
    <2> QED BY <2>1, <2>2, <2>3, <2>4, <2>5, <2>6, <2>7, <2>8, <2>9, <2>10, <2>11, <2>12, <2>13, <2>14, <2>15, <2>16, <2>17, <2>18, <2>19, <2>20, <2>21, <2>22, <2>23 DEF Next, PlainSession, OtherCommands
  <1> QED BY <1>a, TypeCorrect, PTL DEF Spec, EpsvAllIsFinal
=================================================================================
