---------------------------- MODULE FtpServerProofs ----------------------------
(***************************************************************************)
(* Theorems about FtpServer for every set of clients and every limit.      *)
(*                                                                         *)
(* The argument rests on who may refer to a connection: the registry, the  *)
(* accept thread's local variable, or the one thread whose release of the  *)
(* last reference runs the destructor.  connections_mutex_ keeps cleanup   *)
(* and shutdown apart, the joins of shutdown keep both threads and the     *)
(* final destruction apart.                                                *)
(***************************************************************************)
EXTENDS FtpServer, FiniteSetTheorems, TLAPS

\* The accept thread's shared_ptr counts while it has the object in hand.
Held(c) == cur = c /\ serverAt \in {"add", "start", "spawn", "drop"}

\* The count of references is the number of places that refer.
RefsCounted ==
    \A c \in Conn :
        refs[c] = (IF c \in connections THEN 1 ELSE 0) + (IF Held(c) THEN 1 ELSE 0)

\* The accept thread holds one client from accept() to the end of its handling,
\* and an object is built only for a socket that has none.
AcceptorInv ==
    /\ cur = NoConn <=> serverAt \in {"off", "loop", "accept", "dropped", "done"}
    /\ serverAt \in {"screen", "count", "create"} => obj[cur] = "none"
    /\ serverAt = "add" => cur \notin connections
    /\ \A c \in Conn : obj[c] # "live" => refs[c] = 0
    /\ \A c \in Conn : peer[c] \in {"away", "queued"} => obj[c] = "none" /\ cur # c

\* Who holds connections_mutex_, and what it is iterating over.
LockInv ==
    /\ mutex = Cleaner <=> cleanupAt \in {"sweep", "stop", "erased"}
    /\ mutex = Main <=> stopAllAt \in {"stop", "clear"}
    /\ mutex # Acceptor
    /\ cleanupAt \in {"sweep", "stop", "erased"} => todo \subseteq connections
    /\ stopAllAt = "stop" => todo \subseteq connections
    /\ cleanupAt = "stop" => stopOf[Cleaner] \in connections \ todo

\* The order of shutdown.
PhaseInv ==
    /\ stopAllAt # "idle" => mainAt \in {"stopAll1", "stopAll2"}
    /\ mainAt \in {"stopAll2", "joinServer", "stopped", "destroy", "gone"}
           => cleanupAt \in {"off", "done"}
    /\ mainAt \in {"stopped", "destroy", "gone"} => serverAt \in {"off", "done"}
    /\ mainAt = "new" => cleanupAt = "off" /\ serverAt = "off"

\* A thread is inside stop() only where it calls stop(): of an element of the
\* registry, under the lock, or of an object that nothing refers to any more.
StopperInv ==
    /\ ~Returned(Cleaner) => cleanupAt \in {"stop", "erased"}
    /\ ~Returned(Main) => stopAllAt \in {"stop", "clear"} \/ mainAt = "destroy"
    /\ ~Returned(Acceptor) => serverAt = "dropped"
    /\ \A t \in Thread : ~Returned(t) => stopOf[t] \in Conn /\ obj[stopOf[t]] = "live"
    /\ ~Returned(Cleaner) /\ cleanupAt = "erased" => refs[stopOf[Cleaner]] = 0
    /\ ~Returned(Main) /\ stopAllAt = "stop" => stopOf[Main] \in connections
    /\ ~Returned(Main) /\ stopAllAt # "stop" => refs[stopOf[Main]] = 0
    /\ ~Returned(Acceptor) => refs[stopOf[Acceptor]] = 0

\* The session's flag, and the step between the count and the flag, each stand
\* for one session the tracker counts.
ChargeInv ==
    \A c \in Conn :
        /\ logins[c] >= charge[c]
        /\ charge[c] >= (IF registered[c] THEN 1 ELSE 0) + (IF clientAt[c] = "flag" THEN 1 ELSE 0)
        /\ clientAt[c] = "login" => logins[c] < MaxLogins

IInv ==
    /\ TypeOK
    /\ RefsCounted
    /\ AcceptorInv
    /\ LockInv
    /\ PhaseInv
    /\ StopperInv
    /\ ChargeInv
    /\ SingleStopper

------------------------------------------------------------------------------
USE DEF Returned

LEMMA InitIInv == Init => IInv
<1> SUFFICES ASSUME Init PROVE IInv
  OBVIOUS
<1> USE DEF Init, ConnInit, MgrInit
<1>1. TypeOK
  <2>1. ConnTypeOK
    BY MaxLoginsIsNat DEF ConnTypeOK, ClientPc, StopPc
  <2>2. MgrTypeOK
    BY DEF MgrTypeOK, CleanupPc, StopAllPc
  <2> QED
    BY <2>1, <2>2 DEF TypeOK, ServerPc, MainPc
<1>2. RefsCounted /\ AcceptorInv
  BY NoConnIsNoClient DEF RefsCounted, AcceptorInv, Held
<1>3. LockInv /\ PhaseInv
  BY ThreadsAreThree DEF LockInv, PhaseInv
<1>4. StopperInv /\ SingleStopper
  BY ThreadsAreThree DEF StopperInv, SingleStopper
<1>5. ChargeInv
  BY MaxLoginsIsNat DEF ChargeInv
<1> QED
  BY <1>1, <1>2, <1>3, <1>4, <1>5 DEF IInv

\* The connection's own thread and its client change neither references nor
\* who runs stop().
LEMMA ClientKeepsIInv ==
  ASSUME IInv, NEW c \in Conn, ClientThread(c) \/ PeerStep(c)
  PROVE  IInv'
<1> USE DEF IInv, Goto, SendOutcomes
<1> DEFINE Kept == <<sock, refs, obj, stopOf, stopAt, connections, mutex, mgrRunning, cleanupAt,
                     stopAllAt, todo, running, listening, serverAt, cur, mainAt>>
<1>1. UNCHANGED Kept
  BY DEF ClientThread, PeerStep, Connect, PeerClose, ClientStep, ClientRuns, ClientIsServed,
     Reply, LoopTest, ReadCommand, ReadClosed, ReadRest, ReadBlank, Quit, Register, RaiseFlag, AcceptData,
     TransferEnds, Exit, peerVars, objVars, sessVars, stopVars, mgrVars, srvVars
<1>2. RefsCounted' /\ LockInv' /\ PhaseInv' /\ StopperInv' /\ SingleStopper'
  BY <1>1 DEF RefsCounted, Held, LockInv, PhaseInv, StopperInv, SingleStopper
<1>3. AcceptorInv'
  <2>1. ASSUME NEW d \in Conn, peer'[d] \in {"away", "queued"}
        PROVE  peer[d] \in {"away", "queued"}
    BY <2>1 DEF ClientThread, PeerStep, Connect, PeerClose, ClientStep, ClientRuns,
       ClientIsServed, Reply, LoopTest, ReadCommand, ReadClosed, ReadRest, ReadBlank, Quit, Register,
       RaiseFlag, AcceptData, TransferEnds, Exit, peerVars, TypeOK, ConnTypeOK
  <2> QED
    BY <1>1, <2>1 DEF AcceptorInv
<1>4. ChargeInv' /\ ConnTypeOK'
  <2> USE MaxLoginsIsNat DEF TypeOK, ConnTypeOK, ChargeInv, ClientPc, StopPc
  <2>1. CASE PeerStep(c)
    BY <2>1 DEF PeerStep, Connect, PeerClose, objVars, sessVars, stopVars
  <2>2. CASE Reply(c) \/ LoopTest(c) \/ ReadClosed(c) \/ AcceptData(c) \/ Exit(c)
    <3>1. UNCHANGED <<peerVars, refs, obj, joinable, sessVars, stopVars>>
      BY <2>2 DEF Reply, LoopTest, ReadClosed, AcceptData, Exit, objVars
    <3>2. active' \in [Conn -> BOOLEAN]
      <4>1. \A a \in SendOutcomes(c) \cup {FALSE, active[c]} : a \in BOOLEAN
        OBVIOUS
      <4>2. active' = active \/ \E a \in BOOLEAN : active' = [active EXCEPT ![c] = a]
        BY <2>2, <4>1 DEF Reply, LoopTest, ReadClosed, AcceptData, Exit, objVars
      <4> QED
        BY <4>2
    <3>3. \E pc \in ClientPc \ {"login", "flag"} : clientAt' = [clientAt EXCEPT ![c] = pc]
      BY <2>2 DEF Reply, LoopTest, ReadClosed, AcceptData, Exit
    <3> QED
      BY <3>1, <3>2, <3>3 DEF peerVars, sessVars, stopVars
  <2>3. CASE ClientIsServed(c)
    BY ZenonT(40), <2>3 DEF ClientIsServed, ReadCommand, ReadBlank, Quit, TransferEnds, peerVars, objVars,
       sessVars, stopVars
  <2>4. CASE Register(c)
    <3>1. logins[c] + 1 \in 0..MaxLogins /\ charge[c] + 1 \in 0..MaxLogins
      BY <2>4 DEF Register
    <3>2. ConnTypeOK'
      BY <2>4, <3>1 DEF Register, peerVars, objVars, stopVars
    <3>3. ASSUME NEW d \in Conn
          PROVE  /\ logins'[d] >= charge'[d]
                 /\ charge'[d] >= (IF registered'[d] THEN 1 ELSE 0)
                                     + (IF clientAt'[d] = "flag" THEN 1 ELSE 0)
                 /\ clientAt'[d] = "login" => logins'[d] < MaxLogins
      BY <2>4 DEF Register
    <3> QED
      BY <3>2, <3>3
  <2>5. CASE RaiseFlag(c)
    BY <2>5 DEF RaiseFlag, peerVars, objVars, stopVars
  <2>6. CASE ReadRest(c)
    <3>1. UNCHANGED <<sock, refs, obj, joinable, sessVars, stopVars>>
      BY <2>6 DEF ReadRest
    <3>2. /\ peer' = peer \/ peer' = [peer EXCEPT ![c] = "drained"]
          /\ active' = active \/ active' = [active EXCEPT ![c] = FALSE]
      BY <2>6 DEF ReadRest
    <3>3. \E pc \in ClientPc \ {"flag"} :
            clientAt' = [clientAt EXCEPT ![c] = pc] /\ (pc = "login" => logins[c] < MaxLogins)
      BY <2>6 DEF ReadRest
    <3>4. /\ peer' \in [Conn -> {"away", "queued", "open", "gone", "drained"}]
          /\ active' \in [Conn -> BOOLEAN]
      BY <3>2
    <3>5. clientAt' \in [Conn -> ClientPc]
      BY <3>3
    <3>6. ConnTypeOK'
      BY <3>1, <3>4, <3>5 DEF sessVars, stopVars
    <3>7. ChargeInv'
      BY <3>1, <3>3 DEF sessVars
    <3> QED
      BY <3>6, <3>7
  <2> QED
    BY <2>1, <2>2, <2>3, <2>4, <2>5, <2>6
    DEF ClientThread, ClientStep, ClientRuns
<1>5. TypeOK'
  BY <1>1, <1>4 DEF TypeOK, MgrTypeOK
<1> QED
  BY <1>2, <1>3, <1>4, <1>5

\* A step of stop() touches one object, which only the stopping thread stops.
LEMMA StopStepKeepsIInv ==
  ASSUME IInv, NEW t \in Thread, StopStep(t), UNCHANGED <<mgrVars, srvVars>>
  PROVE  IInv'
<1> USE DEF IInv, mgrVars, srvVars, peerVars, objVars, sessVars, stopVars
<1> DEFINE c == stopOf[t]
<1>1. stopAt[t] # "idle" /\ c \in Conn /\ obj[c] = "live"
  BY DEF StopStep, StopUnregister, StopDeactivate, StopCloseData, StopCloseSock, StopJoin,
     StopperInv
<1>2. RefsCounted' /\ PhaseInv'
  BY DEF StopStep, StopUnregister, StopDeactivate, StopCloseData, StopCloseSock, StopJoin,
     RefsCounted, Held, PhaseInv
<1>3. CASE StopJoin(t)
  <2> USE <1>3 DEF StopJoin
  <2>1. TypeOK'
    BY ZenonT(40) DEF TypeOK, ConnTypeOK, MgrTypeOK, StopPc
  <2>2. refs[c] = 0 => c \notin connections /\ ~Held(c)
    BY <1>1 DEF RefsCounted
  <2>3. AcceptorInv'
    BY <1>1, <2>2 DEF AcceptorInv, TypeOK, ConnTypeOK
  <2>4. LockInv'
    BY <1>1, <2>2, ThreadsAreThree DEF LockInv, TypeOK, ConnTypeOK
  <2>5. StopperInv'
    BY <1>1, <2>2, ThreadsAreThree DEF StopperInv, SingleStopper, TypeOK, ConnTypeOK
  <2>6. ChargeInv' /\ SingleStopper'
    BY <1>1 DEF ChargeInv, SingleStopper, TypeOK, ConnTypeOK
  <2> QED
    BY <1>2, <2>1, <2>3, <2>4, <2>5, <2>6
<1>4. CASE StopUnregister(t) \/ StopDeactivate(t) \/ StopCloseData(t) \/ StopCloseSock(t)
  <2>1. /\ \E pc \in StopPc \ {"idle"} : stopAt' = [stopAt EXCEPT ![t] = pc]
        /\ UNCHANGED <<peer, refs, obj, joinable, clientAt, logins, stopOf>>
    BY <1>4 DEF StopUnregister, StopDeactivate, StopCloseData, StopCloseSock, StopPc
  <2>2. UNCHANGED <<connections, mutex, mgrRunning, cleanupAt, stopAllAt, todo, running, listening,
                    serverAt, cur, mainAt>>
    OBVIOUS
  <2>3. AcceptorInv' /\ LockInv'
    BY <2>1, <2>2 DEF AcceptorInv, LockInv
  <2>4. StopperInv' /\ SingleStopper'
    BY <1>1, <2>1, <2>2, ThreadsAreThree DEF StopperInv, SingleStopper, TypeOK, ConnTypeOK
  <2>5. ChargeInv' /\ charge' \in [Conn -> 0..MaxLogins] /\ registered' \in [Conn -> BOOLEAN]
    <3>1. CASE StopUnregister(t) /\ registered[c]
      <4> USE <3>1 DEF StopUnregister, TypeOK, ConnTypeOK
      <4>1. charge[c] - 1 \in 0..MaxLogins /\ charge[c] >= 1 + (IF clientAt[c] = "flag" THEN 1 ELSE 0)
        BY <1>1, MaxLoginsIsNat DEF ChargeInv
      <4>2. /\ charge' = [charge EXCEPT ![c] = charge[c] - 1]
            /\ registered' = [registered EXCEPT ![c] = FALSE]
        OBVIOUS
      <4>3. ASSUME NEW d \in Conn
            PROVE  /\ logins'[d] >= charge'[d]
                   /\ charge'[d] >= (IF registered'[d] THEN 1 ELSE 0)
                                       + (IF clientAt'[d] = "flag" THEN 1 ELSE 0)
        BY <1>1, <2>1, <4>1, <4>2, MaxLoginsIsNat DEF ChargeInv
      <4> QED
        BY <1>1, <2>1, <4>1, <4>2, <4>3 DEF ChargeInv
    <3>2. CASE UNCHANGED <<charge, registered>>
      BY <2>1, <3>2 DEF ChargeInv, TypeOK, ConnTypeOK
    <3> QED
      BY <1>4, <3>1, <3>2 DEF StopUnregister, StopDeactivate, StopCloseData, StopCloseSock
  <2>6. active' \in [Conn -> BOOLEAN] /\ sock' \in [Conn -> BOOLEAN]
    BY <1>4 DEF StopUnregister, StopDeactivate, StopCloseData, StopCloseSock, TypeOK, ConnTypeOK
  <2>7. TypeOK'
    BY <2>1, <2>2, <2>5, <2>6 DEF TypeOK, ConnTypeOK, MgrTypeOK
  <2> QED
    BY <1>2, <2>3, <2>4, <2>5, <2>7
<1> QED
  BY <1>3, <1>4 DEF StopStep

\* One sweep of cleanupLoop(), its calls of stop() apart.
LEMMA CleanupKeepsIInv ==
  ASSUME IInv, CleanupStep, UNCHANGED srvVars
  PROVE  IInv'
<1> USE ThreadsAreThree
    DEF IInv, srvVars, peerVars, objVars, sessVars, stopVars, connVars, TypeOK, ConnTypeOK,
        MgrTypeOK
<1>1. CASE CleanupStopStep
  <2>1. StopStep(Cleaner) /\ UNCHANGED <<mgrVars, srvVars>>
    BY <1>1 DEF CleanupStopStep
  <2> QED
    BY <2>1, StopStepKeepsIInv
<1>2. CASE CleanupWakes \/ CleanupLocks \/ CleanupGoesOn \/ CleanupUnlocks
  <2> USE <1>2 DEF CleanupWakes, CleanupLocks, CleanupGoesOn, CleanupUnlocks
  <2>1. UNCHANGED <<connVars, srvVars, connections, mgrRunning, stopAllAt>>
    OBVIOUS
  <2>2. TypeOK' /\ RefsCounted' /\ AcceptorInv' /\ ChargeInv' /\ SingleStopper'
    BY DEF CleanupPc, RefsCounted, Held, AcceptorInv, ChargeInv, SingleStopper
  <2>3. LockInv' /\ PhaseInv'
    BY DEF LockInv, PhaseInv
  <2>4. StopperInv'
    BY DEF StopperInv
  <2> QED
    BY <2>2, <2>3, <2>4
<1>3. ASSUME NEW c \in Conn, CleanupSkips(c)
      PROVE  IInv'
  <2> USE <1>3 DEF CleanupSkips
  <2>1. TypeOK' /\ RefsCounted' /\ AcceptorInv' /\ ChargeInv' /\ SingleStopper'
    BY DEF RefsCounted, Held, AcceptorInv, ChargeInv, SingleStopper
  <2>2. LockInv' /\ PhaseInv' /\ StopperInv'
    BY DEF LockInv, PhaseInv, StopperInv
  <2> QED
    BY <2>1, <2>2
<1>4. ASSUME NEW c \in Conn, CleanupStops(c)
      PROVE  IInv'
  <2> USE <1>4 DEF CleanupStops, CallStop
  <2>1. c \in connections /\ refs[c] # 0 /\ obj[c] = "live"
    BY DEF LockInv, RefsCounted, AcceptorInv
  <2>2. TypeOK' /\ RefsCounted' /\ AcceptorInv' /\ ChargeInv'
    BY DEF RefsCounted, Held, AcceptorInv, ChargeInv, CleanupPc, StopPc
  <2>3. LockInv' /\ PhaseInv'
    BY <2>1 DEF LockInv, PhaseInv
  <2>4. StopperInv'
    BY <2>1 DEF StopperInv
  <2>5. Returned(Main)
    BY DEF StopperInv, LockInv, PhaseInv
  <2>6. SingleStopper'
    BY <2>1, <2>5 DEF StopperInv, SingleStopper
  <2> QED
    BY <2>2, <2>3, <2>4, <2>6
<1>5. CASE CleanupErases
  <2> DEFINE c == stopOf[Cleaner]
  <2> USE <1>5 DEF CleanupErases, EraseConnection, DropRef, CallStop
  <2>1. c \in connections /\ c \notin todo /\ refs[c] \in 1..2 /\ obj[c] = "live" /\ Returned(Main)
    BY DEF LockInv, RefsCounted, AcceptorInv, StopperInv, PhaseInv
  <2>2. TypeOK' /\ PhaseInv' /\ ChargeInv'
    BY <2>1 DEF PhaseInv, ChargeInv, CleanupPc, StopPc
  <2>3. RefsCounted'
    BY <2>1 DEF RefsCounted, Held
  <2>4. AcceptorInv' /\ LockInv'
    BY <2>1 DEF AcceptorInv, LockInv
  <2>5. StopperInv' /\ SingleStopper'
    BY <2>1 DEF StopperInv, SingleStopper, LockInv
  <2> QED
    BY <2>2, <2>3, <2>4, <2>5
<1> QED
  BY <1>1, <1>2, <1>3, <1>4, <1>5 DEF CleanupStep

\* stopAllConnections() on the main thread, its calls of stop() apart.
LEMMA StopAllKeepsIInv ==
  ASSUME IInv, StopAllStep, UNCHANGED srvVars
  PROVE  IInv'
<1> USE ThreadsAreThree
    DEF IInv, srvVars, peerVars, objVars, sessVars, stopVars, connVars, TypeOK, ConnTypeOK,
        MgrTypeOK
<1>1. CASE StopAllStopStep
  <2>1. StopStep(Main) /\ UNCHANGED <<mgrVars, srvVars>>
    BY <1>1 DEF StopAllStopStep
  <2> QED
    BY <2>1, StopStepKeepsIInv
<1>2. CASE StopAllLocks \/ StopAllStopped \/ StopAllReturns
  <2> USE <1>2 DEF StopAllLocks, StopAllStopped, StopAllReturns
  <2>1. UNCHANGED <<connVars, srvVars, connections, mgrRunning, cleanupAt>>
    OBVIOUS
  <2>2. TypeOK' /\ RefsCounted' /\ AcceptorInv' /\ ChargeInv' /\ SingleStopper'
    BY DEF StopAllPc, RefsCounted, Held, AcceptorInv, ChargeInv, SingleStopper
  <2>3. LockInv' /\ PhaseInv'
    BY DEF LockInv, PhaseInv
  <2>4. StopperInv'
    BY DEF StopperInv, PhaseInv
  <2> QED
    BY <2>2, <2>3, <2>4
<1>3. ASSUME NEW c \in Conn, StopAllStops(c)
      PROVE  IInv'
  <2> USE <1>3 DEF StopAllStops, CallStop
  <2>1. c \in connections /\ refs[c] # 0 /\ obj[c] = "live" /\ Returned(Cleaner)
    BY DEF LockInv, RefsCounted, AcceptorInv, StopperInv
  <2>2. TypeOK' /\ RefsCounted' /\ AcceptorInv' /\ ChargeInv'
    BY DEF RefsCounted, Held, AcceptorInv, ChargeInv, StopPc
  <2>3. LockInv' /\ PhaseInv'
    BY DEF LockInv, PhaseInv
  <2>4. StopperInv' /\ SingleStopper'
    BY <2>1 DEF StopperInv, SingleStopper
  <2> QED
    BY <2>2, <2>3, <2>4
<1>4. ASSUME NEW c \in Conn, StopAllClears(c)
      PROVE  IInv'
  <2> USE <1>4 DEF StopAllClears, EraseConnection, DropRef, CallStop
  <2>1. refs[c] \in 1..2 /\ obj[c] = "live" /\ Returned(Cleaner)
    BY DEF LockInv, RefsCounted, AcceptorInv, StopperInv
  <2>2. TypeOK' /\ PhaseInv' /\ ChargeInv'
    BY <2>1 DEF PhaseInv, ChargeInv, StopPc
  <2>3. RefsCounted'
    BY <2>1 DEF RefsCounted, Held
  <2>4. AcceptorInv' /\ LockInv'
    BY <2>1 DEF AcceptorInv, LockInv
  <2>5. StopperInv' /\ SingleStopper'
    BY <2>1 DEF StopperInv, SingleStopper
  <2> QED
    BY <2>2, <2>3, <2>4, <2>5
<1> QED
  BY <1>1, <1>2, <1>3, <1>4 DEF StopAllStep

\* The accept thread.
LEMMA ServerKeepsIInv ==
  ASSUME IInv, ServerStep
  PROVE  IInv'
<1> USE ThreadsAreThree, NoConnIsNoClient
    DEF IInv, peerVars, objVars, sessVars, stopVars, connVars, mgrVars, TypeOK, ConnTypeOK,
        MgrTypeOK, ServerGoto
<1>1. CASE DropStopStep
  <2>1. StopStep(Acceptor) /\ UNCHANGED <<mgrVars, srvVars>>
    BY <1>1 DEF DropStopStep
  <2> QED
    BY <2>1, StopStepKeepsIInv
<1>2. CASE LoopCheck \/ AcceptNobody \/ Dropped
  <2> USE <1>2 DEF LoopCheck, AcceptNobody, Dropped
  <2>1. UNCHANGED <<connVars, mgrVars, running, listening, cur, mainAt>>
    OBVIOUS
  <2>2. TypeOK' /\ ChargeInv' /\ SingleStopper' /\ LockInv'
    BY DEF ServerPc, ChargeInv, SingleStopper, LockInv
  <2>3. RefsCounted' /\ AcceptorInv'
    BY DEF RefsCounted, Held, AcceptorInv
  <2>4. PhaseInv' /\ StopperInv'
    BY DEF PhaseInv, StopperInv
  <2> QED
    BY <2>2, <2>3, <2>4
<1>3. ASSUME NEW c \in Conn, Accept(c)
      PROVE  IInv'
  <2> USE <1>3 DEF Accept, Queued
  <2>1. TypeOK' /\ ChargeInv' /\ SingleStopper' /\ LockInv'
    BY DEF ServerPc, ChargeInv, SingleStopper, LockInv
  <2>2. RefsCounted' /\ AcceptorInv'
    BY DEF RefsCounted, Held, AcceptorInv
  <2>3. PhaseInv' /\ StopperInv'
    BY DEF PhaseInv, StopperInv
  <2> QED
    BY <2>1, <2>2, <2>3
<1>4. CASE Screen \/ CountTest
  <2> USE <1>4 DEF Screen, CountTest, Reject
  <2>1. cur \in Conn
    BY DEF AcceptorInv
  <2>2. TypeOK' /\ ChargeInv' /\ SingleStopper' /\ LockInv'
    BY ZenonT(40), <2>1 DEF ServerPc, ChargeInv, SingleStopper, LockInv
  <2>3. RefsCounted' /\ AcceptorInv'
    BY <2>1 DEF RefsCounted, Held, AcceptorInv
  <2>4. PhaseInv' /\ StopperInv'
    BY DEF PhaseInv, StopperInv
  <2> QED
    BY <2>2, <2>3, <2>4
<1>5. CASE Create
  <2> USE <1>5 DEF Create, Construct
  <2>1. cur \in Conn /\ refs[cur] = 0 /\ cur \notin connections
    BY DEF AcceptorInv, RefsCounted
  <2>2. TypeOK' /\ ChargeInv' /\ SingleStopper' /\ LockInv'
    BY <2>1 DEF ServerPc, ChargeInv, SingleStopper, LockInv
  <2>3. RefsCounted' /\ AcceptorInv'
    BY <2>1 DEF RefsCounted, Held, AcceptorInv
  <2>4. PhaseInv' /\ StopperInv'
    BY DEF PhaseInv, StopperInv, AcceptorInv
  <2> QED
    BY <2>2, <2>3, <2>4
<1>6. CASE Add
  <2> USE <1>6 DEF Add, AddConnection
  <2>1. cur \in Conn /\ refs[cur] = 1 /\ cur \notin connections
    BY DEF AcceptorInv, RefsCounted, Held
  <2>2. TypeOK' /\ ChargeInv' /\ SingleStopper' /\ LockInv'
    BY <2>1 DEF ServerPc, ChargeInv, SingleStopper, LockInv
  <2>3. RefsCounted' /\ AcceptorInv'
    BY <2>1 DEF RefsCounted, Held, AcceptorInv
  <2>4. PhaseInv' /\ StopperInv'
    BY <2>1 DEF PhaseInv, StopperInv
  <2> QED
    BY <2>2, <2>3, <2>4
<1>7. CASE Start \/ StartThread
  <2> USE <1>7 DEF Start, Activate, StartThread, Spawn, Goto
  <2>1. cur \in Conn
    BY DEF AcceptorInv
  <2>2. TypeOK' /\ ChargeInv' /\ SingleStopper' /\ LockInv'
    <3>1. CASE Start
      BY <2>1, <3>1 DEF ServerPc, ChargeInv, SingleStopper, LockInv
    <3>2. CASE StartThread
      BY <2>1, <3>2 DEF ServerPc, ClientPc, ChargeInv, SingleStopper, LockInv
    <3> QED
      BY <1>7, <3>1, <3>2
  <2>3. RefsCounted' /\ AcceptorInv'
    BY <2>1 DEF RefsCounted, Held, AcceptorInv
  <2>4. PhaseInv' /\ StopperInv'
    BY DEF PhaseInv, StopperInv
  <2> QED
    BY <2>2, <2>3, <2>4
<1>8. CASE Drop
  <2> USE <1>8 DEF Drop, DropRef, CallStop
  <2>1. cur \in Conn /\ refs[cur] \in 1..2 /\ obj[cur] = "live" /\ Returned(Acceptor)
    BY DEF AcceptorInv, RefsCounted, Held, StopperInv
  <2>2. refs[cur] = 1 => cur \notin connections
    BY <2>1 DEF RefsCounted, Held
  <2>3. TypeOK' /\ ChargeInv' /\ LockInv' /\ PhaseInv'
    BY <2>1 DEF ServerPc, StopPc, ChargeInv, LockInv, PhaseInv
  <2>4. RefsCounted' /\ AcceptorInv'
    BY <2>1 DEF RefsCounted, Held, AcceptorInv
  <2>5. StopperInv' /\ SingleStopper'
    BY <2>1, <2>2 DEF StopperInv, SingleStopper, LockInv
  <2> QED
    BY <2>3, <2>4, <2>5
<1> QED
  BY <1>1, <1>2, <1>3, <1>4, <1>5, <1>6, <1>7, <1>8 DEF ServerStep

\* The main thread: start, shutdown and destruction.
LEMMA MainKeepsIInv ==
  ASSUME IInv, StartServer \/ StopServer \/ Shutdown
  PROVE  IInv'
<1> USE ThreadsAreThree
    DEF IInv, peerVars, objVars, sessVars, stopVars, connVars, mgrVars, srvVars, TypeOK, ConnTypeOK,
        MgrTypeOK, MainGoto
<1>1. CASE DestroyStopStep
  <2>1. StopStep(Main) /\ UNCHANGED <<mgrVars, srvVars>>
    BY <1>1 DEF DestroyStopStep
  <2> QED
    BY <2>1, StopStepKeepsIInv
<1>2. CASE StartServer
  <2> USE <1>2 DEF StartServer, MgrStart
  <2>1. TypeOK' /\ ChargeInv' /\ SingleStopper' /\ RefsCounted'
    BY ZenonT(40) DEF ServerPc, MainPc, CleanupPc, ChargeInv, SingleStopper, RefsCounted, Held, PhaseInv
  <2>2. LockInv' /\ PhaseInv' /\ StopperInv' /\ AcceptorInv'
    BY DEF LockInv, PhaseInv, StopperInv, AcceptorInv
  <2> QED
    BY <2>1, <2>2
<1>3. CASE StopServer \/ CloseListener \/ StopManager \/ JoinCleaner \/ ManagerStopped
           \/ JoinServer \/ Destroy \/ Destroyed
  <2> USE <1>3 DEF StopServer, CloseListener, StopManager, JoinCleaner, ManagerStopped,
                   JoinServer, Destroy, Destroyed, CallStopAll
  <2>1. UNCHANGED <<connVars, connections, mutex, cleanupAt, todo, serverAt, cur>>
    OBVIOUS
  <2>2. /\ running' \in BOOLEAN /\ listening' \in BOOLEAN /\ mgrRunning' \in BOOLEAN
        /\ stopAllAt' \in StopAllPc /\ mainAt' \in MainPc
    BY DEF MainPc, StopAllPc
  <2>6. TypeOK' /\ ChargeInv'
    BY <2>1, <2>2 DEF ChargeInv
  <2>7. SingleStopper' /\ RefsCounted' /\ AcceptorInv'
    BY <2>1 DEF SingleStopper, RefsCounted, Held, AcceptorInv
  <2>3. stopAllAt = "idle" /\ mainAt # "destroy" => Returned(Main)
    BY DEF StopperInv
  <2>4. LockInv' /\ PhaseInv'
    BY <2>1 DEF LockInv, PhaseInv
  <2>5. StopperInv'
    BY <2>1, <2>3 DEF StopperInv, PhaseInv
  <2> QED
    BY <2>4, <2>5, <2>6, <2>7
<1>4. ASSUME NEW c \in Conn, DestroyConnection(c)
      PROVE  IInv'
  <2> USE <1>4 DEF DestroyConnection, EraseConnection, DropRef, CallStop
  <2>1. /\ refs[c] \in 1..2 /\ obj[c] = "live" /\ stopAllAt = "idle"
        /\ Returned(Cleaner) /\ Returned(Acceptor)
    BY DEF RefsCounted, AcceptorInv, StopperInv, PhaseInv
  <2>2. TypeOK' /\ PhaseInv' /\ ChargeInv'
    BY <2>1 DEF PhaseInv, ChargeInv, StopPc
  <2>3. RefsCounted'
    BY <2>1 DEF RefsCounted, Held
  <2>4. AcceptorInv' /\ LockInv'
    BY <2>1 DEF AcceptorInv, LockInv, PhaseInv
  <2>5. StopperInv' /\ SingleStopper'
    BY <2>1 DEF StopperInv, SingleStopper
  <2> QED
    BY <2>2, <2>3, <2>4, <2>5
<1> QED
  BY <1>1, <1>2, <1>3, <1>4 DEF Shutdown

\* Nothing moves: the fields the invariant reads keep their values.
LEMMA StutterKeepsIInv == IInv /\ UNCHANGED vars => IInv'
BY DEF IInv, TypeOK, ConnTypeOK, MgrTypeOK, RefsCounted, Held, AcceptorInv, LockInv, PhaseInv,
   StopperInv, ChargeInv, SingleStopper, vars, connVars, mgrVars, srvVars, peerVars, objVars,
   sessVars, stopVars

LEMMA NextKeepsIInv == IInv /\ [Next]_vars => IInv'
<1> SUFFICES ASSUME IInv, [Next]_vars PROVE IInv'
  OBVIOUS
<1>1. CASE \E c \in Conn : PeerStep(c) \/ ClientThread(c)
  BY <1>1, ClientKeepsIInv
<1>2. CASE ServerStep
  BY <1>2, ServerKeepsIInv
<1>3. CASE ManagerStep
  BY <1>3, CleanupKeepsIInv, StopAllKeepsIInv DEF ManagerStep, MgrStep
<1>4. CASE StartServer \/ StopServer \/ Shutdown
  BY <1>4, MainKeepsIInv
<1>5. CASE Terminated \/ UNCHANGED vars
  BY <1>5, StutterKeepsIInv DEF Terminated
<1> QED
  BY <1>1, <1>2, <1>3, <1>4, <1>5 DEF Next

THEOREM InductiveInvariant == Spec => []IInv
<1> QED
  BY InitIInv, NextKeepsIInv, PTL DEF Spec

\* Every variable keeps its type: references are at most two, and the tracker's
\* charge of a connection never goes below zero or beyond its logins.
THEOREM TypeCorrect == Spec => []TypeOK
<1>1. IInv => TypeOK
  BY DEF IInv
<1> QED
  BY <1>1, InductiveInvariant, PTL

\* For any number of clients, cleanupLoop(), stopAllConnections() and the
\* destructors never run stop() of one connection at the same time.
THEOREM StopIsExclusive == Spec => []SingleStopper
<1>1. IInv => SingleStopper
  BY DEF IInv
<1> QED
  BY <1>1, InductiveInvariant, PTL

-------------------------------------------------------------------------------
(***************************************************************************)
(* What becomes of a connection, beyond who may stop it.  The argument     *)
(* follows an object from the moment its socket is closed: its thread then *)
(* finds no command any more (Quiet), the join ends it, and the thread     *)
(* that dropped the last reference is the one that declares it dead.       *)
(***************************************************************************)

\* The objects there are, each with a socket and a thread.
Live == {c \in Conn : obj[c] = "live"}

\* No command will be read on this connection again.
Quiet(c) == ~sock[c] /\ clientAt[c] \in {"none", "welcome", "loop", "exit", "done"}

\* The program is not on its way out, where the vector of connections goes
\* without the stop() that precedes every other erasure.
Serving == mainAt \notin {"destroy", "gone"}

\* The thread of a connection, against its object.
ThreadInv ==
    \A c \in Conn :
        /\ ~joinable[c] => clientAt[c] \in {"none", "done"}
        /\ obj[c] = "dead" => ~joinable[c] /\ ~sock[c]
        /\ obj[c] = "none" => clientAt[c] = "none" /\ (sock[c] => cur = c)
        /\ cur = c /\ serverAt \in {"create", "add", "start", "spawn"} => clientAt[c] = "none"

\* Who has closed a socket, and who is responsible for an object that nothing
\* refers to.
OwnerInv ==
    /\ \A t \in Thread : stopAt[t] = "join" => ~sock[stopOf[t]]
    /\ \A c \in Live : refs[c] = 0 => \E t \in Thread : ~Returned(t) /\ stopOf[t] = c
    /\ mainAt = "gone" => connections = {}

\* What has been erased, or is about to be, is quiet.
QuietInv ==
    Serving =>
        /\ cleanupAt = "stop" /\ Returned(Cleaner) => Quiet(stopOf[Cleaner])
        /\ stopAllAt = "stop" =>
              \A c \in connections \ todo : Quiet(c) \/ (~Returned(Main) /\ stopOf[Main] = c)
        /\ stopAllAt = "clear" => \A c \in connections : Quiet(c)
        /\ \A c \in Live \ connections : Quiet(c) \/ (cur = c /\ serverAt = "add")

\* The tracker's count of a session that logged in once, and its end.
SessionInv ==
    /\ \A c \in Conn :
          logins[c] <= 1 => charge[c] = (IF registered[c] THEN 1 ELSE 0)
                                           + (IF clientAt[c] = "flag" THEN 1 ELSE 0)
    /\ Serving =>
          /\ \A t \in Thread :
                stopAt[t] \notin {"idle", "unregister"} /\ refs[stopOf[t]] = 0
                    => ~registered[stopOf[t]]
          /\ \A c \in Conn : obj[c] = "dead" => ~registered[c]

\* The test of the limit holds from the test to the creation.
RoomInv ==
    /\ IsFiniteSet(Live)
    /\ Cardinality(Live) <= MaxConnections
    /\ serverAt = "create" => Cardinality(Live) < MaxConnections

LifeInv == ThreadInv /\ OwnerInv /\ QuietInv /\ SessionInv /\ RoomInv

------------------------------------------------------------------------------
USE DEF Returned

LEMMA InitLife == Init => LifeInv
<1> SUFFICES ASSUME Init PROVE LifeInv
  OBVIOUS
<1> USE DEF Init, ConnInit, MgrInit
<1>1. ThreadInv /\ OwnerInv /\ QuietInv /\ SessionInv
  BY DEF ThreadInv, OwnerInv, QuietInv, SessionInv, Live
<1>2. RoomInv
  <2>1. Live = {}
    BY DEF Live
  <2> QED
    BY <2>1, FS_EmptySet, MaxConnectionsIsPositive DEF RoomInv
<1> QED
  BY <1>1, <1>2 DEF LifeInv

\* What the registry or the accept thread refers to lives, and so does what is
\* being stopped.
LEMMA Referred ==
  ASSUME IInv
  PROVE  /\ connections \subseteq Live
         /\ \A c \in Conn : Held(c) => c \in Live
         /\ \A c \in Conn : refs[c] = 0 <=> (c \notin connections /\ ~Held(c))
         /\ \A t \in Thread : ~Returned(t) => stopOf[t] \in Live
BY DEF IInv, TypeOK, ConnTypeOK, MgrTypeOK, RefsCounted, AcceptorInv, StopperInv, Live

\* The room is kept by a step that makes no object and passes no test.
LEMMA RoomStays ==
  ASSUME RoomInv, Live' \subseteq Live, serverAt' = "create" => serverAt = "create"
  PROVE  RoomInv'
<1>1. IsFiniteSet(Live') /\ Cardinality(Live') <= Cardinality(Live)
  BY FS_Subset DEF RoomInv
<1>2. Cardinality(Live) \in Nat /\ Cardinality(Live') \in Nat
  BY <1>1, FS_CardinalityType DEF RoomInv
<1> QED
  BY <1>1, <1>2, MaxConnectionsIsPositive DEF RoomInv

\* A connection's thread, and its client.
LEMMA ClientKeepsLife ==
  ASSUME IInv, LifeInv, NEW c \in Conn, ClientThread(c) \/ PeerStep(c)
  PROVE  LifeInv'
<1> USE DEF IInv, LifeInv
<1>1. UNCHANGED <<sock, refs, obj, joinable, stopOf, stopAt, connections, mutex, mgrRunning,
                  cleanupAt, stopAllAt, todo, running, listening, serverAt, cur, mainAt>>
  BY DEF ClientThread, PeerStep, Connect, PeerClose, ClientStep, ClientRuns, ClientIsServed,
     Reply, LoopTest, ReadCommand, ReadClosed, ReadRest, ReadBlank, Quit, Register, RaiseFlag, AcceptData,
     TransferEnds, Exit, Goto, peerVars, objVars, sessVars, stopVars, mgrVars, srvVars
<1>2. RoomInv'
  BY <1>1, RoomStays DEF Live
<1>3. OwnerInv'
  BY <1>1 DEF OwnerInv, Live
<1>4. CASE PeerStep(c)
  <2>1. UNCHANGED <<clientAt, charge, registered, logins>>
    BY <1>4 DEF PeerStep, Connect, PeerClose, sessVars
  <2>2. ThreadInv' /\ QuietInv' /\ SessionInv'
    BY <1>1, <2>1 DEF ThreadInv, QuietInv, Quiet, Serving, SessionInv, Live
  <2> QED
    BY <1>2, <1>3, <2>2
<1>5. CASE ClientThread(c)
  <2>1. /\ clientAt[c] \notin {"none", "done"}
        /\ \E pc \in ClientPc \ {"none"} : clientAt' = [clientAt EXCEPT ![c] = pc]
        /\ ~sock[c] /\ clientAt[c] \in {"welcome", "loop", "exit"}
             => clientAt'[c] \in {"loop", "exit", "done"}
    BY <1>5 DEF ClientThread, ClientStep, ClientRuns, ClientIsServed, ClientPc,
       Reply, LoopTest, ReadCommand, ReadClosed, ReadRest, ReadBlank, Quit, Register, RaiseFlag,
       AcceptData, TransferEnds, Exit, Goto, TypeOK, ConnTypeOK
  <2>2. joinable[c] /\ obj[c] = "live"
    BY <2>1 DEF ThreadInv, TypeOK, ConnTypeOK
  <2>3. ThreadInv'
    BY <1>1, <2>1, <2>2 DEF ThreadInv, TypeOK, ConnTypeOK
  <2>4. \A d \in Conn : Quiet(d) => Quiet(d)'
    BY <1>1, <2>1 DEF Quiet, TypeOK, ConnTypeOK
  <2>5. QuietInv'
    <3>1. cleanupAt = "stop" => stopOf[Cleaner] \in Conn
      BY DEF LockInv, TypeOK, MgrTypeOK
    <3> QED
      BY <1>1, <2>4, <3>1 DEF QuietInv, Serving, Live, TypeOK, MgrTypeOK
  <2>6. SessionInv'
    <3>1. CASE Register(c)
      BY <1>1, <3>1, <2>2 DEF Register, Goto, SessionInv, Serving, ChargeInv, TypeOK, ConnTypeOK
    <3>2. CASE RaiseFlag(c)
      <4>1. ~Quiet(c)
        BY <3>2 DEF RaiseFlag, Quiet
      <4>2. Serving => refs[c] # 0
        BY <4>1, <2>2, Referred DEF QuietInv, Live, Held
      <4>3. /\ registered' = [registered EXCEPT ![c] = TRUE] /\ charge' = charge
            /\ logins' = logins /\ clientAt' = [clientAt EXCEPT ![c] = "reply"]
            /\ clientAt[c] = "flag"
        BY <3>2 DEF RaiseFlag, Goto
      <4>4. ASSUME NEW t \in Thread, Serving, stopAt[t] \notin {"idle", "unregister"},
                   refs[stopOf[t]] = 0
            PROVE  registered'[stopOf[t]] = FALSE
        <5>1. stopOf[t] \in Conn /\ stopOf[t] # c
          BY <4>2, <4>4, Referred DEF Live
        <5> QED
          BY <4>3, <4>4, <5>1 DEF SessionInv, TypeOK, ConnTypeOK
      <4>5. \A d \in Conn : obj[d] = "dead" => d # c
        BY <2>2
      <4>6. ASSUME NEW d \in Conn, logins[d] <= 1
            PROVE  charge[d] = (IF registered'[d] THEN 1 ELSE 0)
                                 + (IF clientAt'[d] = "flag" THEN 1 ELSE 0)
        <5>1. CASE d = c
          <6>1. charge[c] = (IF registered[c] THEN 1 ELSE 0) + 1 /\ charge[c] <= logins[c]
            BY <4>3, <4>6, <5>1 DEF SessionInv, ChargeInv
          <6> QED
            BY <4>3, <4>6, <5>1, <6>1 DEF TypeOK, ConnTypeOK
        <5>2. CASE d # c
          BY <4>3, <4>6, <5>2 DEF SessionInv, TypeOK, ConnTypeOK
        <5> QED
          BY <5>1, <5>2
      <4> QED
        BY <1>1, <4>3, <4>4, <4>5, <4>6 DEF SessionInv, Serving, TypeOK, ConnTypeOK
    <3>3. CASE ~Register(c) /\ ~RaiseFlag(c)
      <4>1. UNCHANGED sessVars /\ clientAt'[c] # "flag" /\ clientAt[c] # "flag"
        BY <1>5, <3>3 DEF ClientThread, ClientStep, ClientRuns, ClientIsServed,
           Reply, LoopTest, ReadCommand, ReadClosed, ReadRest, ReadBlank, Quit,
           AcceptData, TransferEnds, Exit, Goto, TypeOK, ConnTypeOK
      <4> QED
        BY <1>1, <2>1, <4>1 DEF SessionInv, Serving, sessVars, TypeOK, ConnTypeOK
    <3> QED
      BY <3>1, <3>2, <3>3
  <2> QED
    BY <1>2, <1>3, <2>3, <2>5, <2>6
<1> QED
  BY <1>4, <1>5

\* A step of stop(): it closes the socket, then joins the thread, and the one
\* that was called for an object without references ends it.
LEMMA StopStepKeepsLife ==
  ASSUME IInv, LifeInv, NEW t \in Thread, StopStep(t), UNCHANGED <<mgrVars, srvVars>>
  PROVE  LifeInv'
<1> USE DEF IInv, LifeInv
<1> DEFINE c == stopOf[t]
<1>1. stopAt[t] # "idle" /\ c \in Conn /\ c \in Live /\ obj[c] = "live"
  BY Referred DEF StopStep, StopUnregister, StopDeactivate, StopCloseData, StopCloseSock,
     StopJoin, Live
<1>2. UNCHANGED <<connections, mutex, mgrRunning, cleanupAt, stopAllAt, todo, running,
                  listening, serverAt, cur, mainAt>>
  BY DEF mgrVars, srvVars
<1>3. \A u \in Thread \ {t} : ~Returned(u) => stopOf[u] \in Conn /\ stopOf[u] # c
  BY <1>1, Referred DEF SingleStopper, Live
<1>4. CASE StopJoin(t)
  <2>1. /\ stopAt[t] = "join" /\ stopAt' = [stopAt EXCEPT ![t] = "idle"]
        /\ joinable' = [joinable EXCEPT ![c] = FALSE]
        /\ clientAt[c] \in {"none", "done"}
        /\ UNCHANGED <<peer, sock, refs, active, clientAt, registered, charge, logins>>
        /\ \A u \in Thread \ {t} : stopOf'[u] = stopOf[u]
    BY <1>1, <1>4 DEF StopJoin, ThreadInv, TypeOK, ConnTypeOK, peerVars, sessVars
  <2>2. ~sock[c]
    BY <2>1 DEF OwnerInv
  <2>3. IF refs[c] = 0 THEN obj' = [obj EXCEPT ![c] = "dead"]
                       ELSE obj' = obj /\ stopOf' = stopOf
    BY <1>4 DEF StopJoin
  <2>4. Live' \subseteq Live /\ (refs[c] = 0 => c \notin Live')
    BY <1>1, <2>3 DEF Live, TypeOK, ConnTypeOK
  <2>5. RoomInv'
    BY <1>2, <2>4, RoomStays
  <2>6. ThreadInv'
    BY <1>1, <1>2, <2>1, <2>2, <2>3 DEF ThreadInv, TypeOK, ConnTypeOK
  <2>7. OwnerInv'
    <3>1. ASSUME NEW u \in Thread, stopAt'[u] = "join"
          PROVE  ~sock'[stopOf'[u]]
      BY <1>3, <2>1, <3>1 DEF OwnerInv, TypeOK, ConnTypeOK
    <3>2. ASSUME NEW d \in Live', refs'[d] = 0
          PROVE  \E u \in Thread : stopAt'[u] # "idle" /\ stopOf'[u] = d
      <4>1. d \in Live /\ refs[d] = 0 /\ d # c
        BY <2>1, <2>4, <3>2
      <4>2. PICK u \in Thread : ~Returned(u) /\ stopOf[u] = d
        BY <4>1 DEF OwnerInv
      <4>3. u # t
        BY <4>1, <4>2
      <4> QED
        BY <2>1, <4>2, <4>3 DEF TypeOK, ConnTypeOK
    <3> QED
      BY <1>2, <3>1, <3>2 DEF OwnerInv
  <2>8. QuietInv'
    <3>1. Quiet(c) /\ \A d \in Conn : Quiet(d)' <=> Quiet(d)
      BY <2>1, <2>2 DEF Quiet
    <3>2. c \in connections => refs[c] # 0
      BY <1>1, Referred
    <3>3. cleanupAt = "stop" => stopOf[Cleaner] \in connections
      BY DEF LockInv
    <3>4. (cleanupAt = "stop" /\ Returned(Cleaner) /\ Serving => Quiet(stopOf[Cleaner]))'
      <4>1. CASE t = Cleaner
        BY <1>2, <2>1, <2>2, <2>3, <3>2, <3>3, <4>1 DEF Quiet
      <4>2. CASE t # Cleaner
        BY <1>2, <2>1, <4>2, ThreadsAreThree DEF Quiet, QuietInv, Serving, TypeOK, ConnTypeOK
      <4> QED
        BY <4>1, <4>2
    <3>5. (Serving /\ stopAllAt = "stop" => \A d \in connections \ todo :
              Quiet(d) \/ (~Returned(Main) /\ stopOf[Main] = d))'
      <4> SUFFICES ASSUME Serving', stopAllAt' = "stop", NEW d \in connections \ todo
                   PROVE  Quiet(d)' \/ (stopAt'[Main] # "idle" /\ stopOf'[Main] = d)
        BY <1>2
      <4>1. d \in Conn /\ (Quiet(d) \/ (~Returned(Main) /\ stopOf[Main] = d))
        BY <1>2 DEF QuietInv, Serving, TypeOK, MgrTypeOK
      <4>2. CASE Quiet(d)
        BY <3>1, <4>1, <4>2
      <4>3. CASE ~Returned(Main) /\ stopOf[Main] = d
        <5>1. CASE t = Main
          BY <1>1, <3>1, <4>3, <5>1
        <5>2. CASE t # Main
          BY <2>1, <4>3, <5>2, ThreadsAreThree DEF TypeOK, ConnTypeOK
        <5> QED
          BY <5>1, <5>2
      <4> QED
        BY <4>1, <4>2, <4>3
    <3>6. (Serving => /\ stopAllAt = "clear" => \A d \in connections : Quiet(d)
                      /\ \A d \in Live \ connections :
                           Quiet(d) \/ (cur = d /\ serverAt = "add"))'
      BY <1>2, <2>4, <3>1 DEF QuietInv, Serving, Live, TypeOK, MgrTypeOK
    <3> QED
      BY <3>4, <3>5, <3>6 DEF QuietInv
  <2>9. SessionInv'
    <3>1. Serving /\ refs[c] = 0 => ~registered[c]
      BY <2>1 DEF SessionInv
    <3>2. ASSUME NEW u \in Thread, stopAt'[u] \notin {"idle", "unregister"}
          PROVE  u # t /\ stopAt[u] = stopAt'[u] /\ stopOf'[u] = stopOf[u]
      BY <2>1, <3>2 DEF TypeOK, ConnTypeOK
    <3>3. \A d \in Conn : obj'[d] = "dead" => obj[d] = "dead" \/ (d = c /\ refs[c] = 0)
      BY <1>1, <2>3 DEF TypeOK, ConnTypeOK
    <3> QED
      BY <1>2, <2>1, <3>1, <3>2, <3>3 DEF SessionInv, Serving
  <2> QED
    BY <2>5, <2>6, <2>7, <2>8, <2>9
<1>5. CASE StopUnregister(t) \/ StopDeactivate(t) \/ StopCloseData(t) \/ StopCloseSock(t)
  <2>1. /\ \E pc \in StopPc \ {"idle", "unregister"} : stopAt' = [stopAt EXCEPT ![t] = pc]
        /\ UNCHANGED <<peer, refs, obj, joinable, clientAt, logins, stopOf>>
    BY <1>5 DEF StopUnregister, StopDeactivate, StopCloseData, StopCloseSock, StopPc, peerVars,
       objVars, sessVars
  <2>2. /\ sock' = [sock EXCEPT ![c] = FALSE] \/ (sock' = sock /\ stopAt'[t] # "join")
        /\ \A d \in Conn : sock'[d] => sock[d]
    BY <1>1, <1>5 DEF StopUnregister, StopDeactivate, StopCloseData, StopCloseSock, TypeOK,
       ConnTypeOK, peerVars
  <2>3. RoomInv'
    BY <1>2, <2>1, RoomStays DEF Live
  <2>4. ThreadInv'
    BY <1>2, <2>1, <2>2 DEF ThreadInv
  <2>5. OwnerInv'
    <3>1. ASSUME NEW u \in Thread, stopAt'[u] = "join"
          PROVE  ~sock'[stopOf'[u]]
      <4>1. CASE u = t
        BY <1>1, <2>1, <2>2, <3>1, <4>1 DEF TypeOK, ConnTypeOK
      <4>2. CASE u # t
        BY <1>3, <2>1, <2>2, <3>1, <4>2 DEF OwnerInv, TypeOK, ConnTypeOK
      <4> QED
        BY <4>1, <4>2
    <3>2. \A u \in Thread : ~Returned(u) => stopAt'[u] # "idle"
      BY <2>1 DEF TypeOK, ConnTypeOK
    <3> QED
      BY <1>2, <2>1, <3>1, <3>2 DEF OwnerInv, Live
  <2>6. QuietInv'
    <3>1. \A d \in Conn : Quiet(d) => Quiet(d)'
      BY <2>1, <2>2 DEF Quiet
    <3>2. \A u \in Thread : ~Returned(u) <=> stopAt'[u] # "idle"
      BY <1>1, <2>1 DEF TypeOK, ConnTypeOK
    <3>3. cleanupAt = "stop" => stopOf[Cleaner] \in Conn
      BY DEF LockInv, TypeOK, MgrTypeOK
    <3> QED
      BY <1>2, <2>1, <3>1, <3>2, <3>3, ThreadsAreThree
         DEF QuietInv, Serving, Live, TypeOK, MgrTypeOK
  <2>7. SessionInv'
    <3>1. CASE StopUnregister(t)
      <4>1. /\ registered' = [registered EXCEPT ![c] = FALSE]
            /\ charge' = IF registered[c] THEN [charge EXCEPT ![c] = @ - 1] ELSE charge
        BY <1>1, <3>1 DEF StopUnregister, TypeOK, ConnTypeOK
      <4>2. ASSUME NEW d \in Conn, logins'[d] <= 1
            PROVE  charge'[d] = (IF registered'[d] THEN 1 ELSE 0)
                                  + (IF clientAt'[d] = "flag" THEN 1 ELSE 0)
        BY <2>1, <4>1, <4>2, MaxLoginsIsNat DEF SessionInv, TypeOK, ConnTypeOK
      <4>3. \A d \in Conn : registered'[d] => registered[d] /\ d # c
        BY <4>1 DEF TypeOK, ConnTypeOK
      <4>4. ASSUME NEW u \in Thread, stopAt'[u] \notin {"idle", "unregister"}
            PROVE  stopOf[u] = c \/ (stopAt[u] = stopAt'[u] /\ stopOf[u] \in Conn)
        BY <1>3, <2>1, <4>4 DEF TypeOK, ConnTypeOK
      <4>5. ~registered'[c]
        BY <1>1, <4>1 DEF TypeOK, ConnTypeOK
      <4> QED
        BY <1>2, <2>1, <4>2, <4>3, <4>4, <4>5 DEF SessionInv, Serving
    <3>2. CASE ~StopUnregister(t)
      <4>1. registered' = registered /\ charge' = charge /\ stopAt[t] \notin {"idle", "unregister"}
        BY <1>5, <3>2 DEF StopDeactivate, StopCloseData, StopCloseSock, sessVars
      <4>2. \A u \in Thread : stopAt'[u] \notin {"idle", "unregister"}
                               => stopAt[u] \notin {"idle", "unregister"}
        BY <2>1, <4>1 DEF TypeOK, ConnTypeOK
      <4> QED
        BY <1>2, <2>1, <4>1, <4>2 DEF SessionInv, Serving
    <3> QED
      BY <3>1, <3>2
  <2> QED
    BY <2>3, <2>4, <2>5, <2>6, <2>7
<1> QED
  BY <1>4, <1>5 DEF StopStep

\* Another thread begins a stop() of an object that lives.
LEMMA CallStopKeeps ==
  ASSUME IInv, LifeInv, NEW t \in Thread, NEW c \in Conn, Returned(t), CallStop(t, c),
         UNCHANGED <<peerVars, objVars, clientAt, sessVars>>,
         UNCHANGED <<connections, mainAt>>
  PROVE  OwnerInv' /\ SessionInv'
<1> USE DEF IInv, LifeInv, CallStop, objVars, peerVars, sessVars
<1>1. \A u \in Thread \ {t} : stopAt'[u] = stopAt[u] /\ stopOf'[u] = stopOf[u]
  OBVIOUS
<1>2. stopAt'[t] = "unregister"
  BY DEF TypeOK, ConnTypeOK
<1>3. OwnerInv'
  BY <1>1, <1>2 DEF OwnerInv, Live
<1>4. SessionInv'
  BY <1>1, <1>2 DEF SessionInv, Serving
<1> QED
  BY <1>3, <1>4

\* A reference is dropped, and the thread that drops the last one stops what
\* nobody else is stopping.
LEMMA DropRefKeeps ==
  ASSUME IInv, LifeInv, NEW t \in Thread, NEW c \in Live, Returned(t), refs[c] \in 1 .. 2,
         DropRef(t, c), mainAt' = mainAt, connections' \subseteq connections,
         Serving /\ refs[c] = 1 => \A u \in Thread \ {t} : Returned(u) \/ stopOf[u] # c
  PROVE  OwnerInv' /\ SessionInv'
<1> USE DEF IInv, LifeInv, DropRef, CallStop, peerVars, sessVars
<1>1. \A u \in Thread \ {t} : stopAt'[u] = stopAt[u] /\ stopOf'[u] = stopOf[u]
  BY DEF TypeOK, ConnTypeOK
<1>2. /\ stopAt'[t] \in {"unregister", "idle"}
      /\ refs[c] = 1 => stopAt'[t] = "unregister" /\ stopOf'[t] = c
  BY DEF TypeOK, ConnTypeOK
<1>3. /\ refs'[c] = refs[c] - 1 /\ \A d \in Conn \ {c} : refs'[d] = refs[d]
      /\ c \in Conn
  BY DEF TypeOK, ConnTypeOK, Live
<1>4. OwnerInv'
  <2>1. ASSUME NEW u \in Thread, stopAt'[u] = "join"
        PROVE  ~sock'[stopOf'[u]]
    BY <1>1, <1>2, <2>1 DEF OwnerInv
  <2>2. ASSUME NEW d \in Live', refs'[d] = 0
        PROVE  \E u \in Thread : stopAt'[u] # "idle" /\ stopOf'[u] = d
    <3>1. d \in Live
      BY DEF Live
    <3>2. CASE d = c
      BY <1>2, <1>3, <2>2, <3>2
    <3>3. CASE d # c
      <4>1. PICK u \in Thread : ~Returned(u) /\ stopOf[u] = d
        BY <1>3, <2>2, <3>1, <3>3 DEF OwnerInv, Live
      <4> QED
        BY <1>1, <4>1
    <3> QED
      BY <3>2, <3>3
  <2> QED
    BY <2>1, <2>2 DEF OwnerInv
<1>5. SessionInv'
  <2>1. ASSUME Serving, NEW u \in Thread, stopAt'[u] \notin {"idle", "unregister"},
               refs'[stopOf'[u]] = 0
        PROVE  refs[stopOf[u]] = 0 /\ stopOf'[u] = stopOf[u] /\ stopAt'[u] = stopAt[u]
    <3>1. u # t /\ ~Returned(u)
      BY <1>1, <1>2, <2>1
    <3>2. stopOf[u] \in Conn
      BY <3>1, Referred DEF Live
    <3>3. CASE stopOf[u] = c
      BY <1>1, <1>3, <2>1, <3>1, <3>3
    <3>4. CASE stopOf[u] # c
      BY <1>1, <1>3, <2>1, <3>1, <3>2, <3>4
    <3> QED
      BY <3>3, <3>4
  <2> QED
    BY <2>1 DEF SessionInv, Serving
<1> QED
  BY <1>4, <1>5

\* cleanupLoop(), its calls of stop() apart.
LEMMA CleanupKeepsLife ==
  ASSUME IInv, LifeInv, CleanupStep, UNCHANGED srvVars
  PROVE  LifeInv'
<1> USE ThreadsAreThree DEF IInv, LifeInv, srvVars
<1>1. CASE CleanupStopStep
  BY <1>1, StopStepKeepsLife DEF CleanupStopStep
<1>2. CASE CleanupWakes \/ CleanupLocks \/ CleanupGoesOn \/ CleanupUnlocks
           \/ \E c \in Conn : CleanupSkips(c)
  <2> USE <1>2 DEF CleanupWakes, CleanupLocks, CleanupGoesOn, CleanupUnlocks, CleanupSkips
  <2>1. UNCHANGED <<connVars, srvVars, connections, mgrRunning, stopAllAt>>
    OBVIOUS
  <2>2. RoomInv'
    BY <2>1, RoomStays DEF Live, connVars, objVars
  <2>3. ThreadInv' /\ OwnerInv' /\ SessionInv'
    BY <2>1 DEF ThreadInv, OwnerInv, SessionInv, Serving, Live, connVars, objVars, peerVars,
       sessVars, stopVars
  <2>4. QuietInv'
    <3>1. /\ cleanupAt' # "stop"
          /\ stopAllAt = "stop" => todo' = todo
      BY DEF LockInv
    <3> QED
      BY <2>1, <3>1 DEF QuietInv, Quiet, Serving, Live, connVars, objVars, peerVars, stopVars
  <2> QED
    BY <2>2, <2>3, <2>4
<1>3. ASSUME NEW c \in Conn, CleanupStops(c)
      PROVE  LifeInv'
  <2> USE <1>3 DEF CleanupStops
  <2>1. RoomInv'
    BY RoomStays DEF Live, objVars
  <2>2. Returned(Cleaner)
    BY DEF StopperInv
  <2>3. OwnerInv' /\ SessionInv'
    BY <2>2, CallStopKeeps
  <2>4. ThreadInv'
    BY DEF ThreadInv, objVars, peerVars
  <2>5. QuietInv'
    <3>1. stopAllAt # "stop" /\ stopAt'[Cleaner] # "idle"
      BY DEF LockInv, CallStop, TypeOK, ConnTypeOK
    <3> QED
      BY <3>1 DEF QuietInv, Quiet, Serving, Live, objVars, peerVars
  <2> QED
    BY <2>1, <2>3, <2>4, <2>5
<1>4. CASE CleanupErases
  <2> DEFINE c == stopOf[Cleaner]
  <2> USE <1>4 DEF CleanupErases, EraseConnection
  <2>1. /\ c \in connections /\ c \in Live /\ refs[c] \in 1 .. 2
        /\ stopAllAt \notin {"stop", "clear"} /\ (Serving => Quiet(c))
    BY Referred DEF LockInv, QuietInv, RefsCounted, TypeOK, ConnTypeOK, MgrTypeOK
  <2>2. Serving /\ refs[c] = 1 => \A u \in Thread \ {Cleaner} : Returned(u) \/ stopOf[u] # c
    BY <2>1 DEF StopperInv, Serving
  <2>3. OwnerInv' /\ SessionInv'
    BY <2>1, <2>2, DropRefKeeps
  <2>4. UNCHANGED <<peerVars, obj, active, joinable, clientAt, sessVars>>
    BY DEF DropRef
  <2>5. RoomInv'
    BY <2>4, RoomStays DEF Live
  <2>6. ThreadInv'
    BY <2>4 DEF ThreadInv, peerVars
  <2>7. QuietInv'
    <3> HIDE DEF c
    <3>1. /\ cleanupAt' = "erased" /\ stopAllAt' \notin {"stop", "clear"}
          /\ connections' = connections \ {c} /\ UNCHANGED <<mainAt, cur, serverAt>>
          /\ UNCHANGED <<sock, obj, clientAt>>
      BY <2>1, <2>4 DEF c, peerVars
    <3> QED
      BY <2>1, <3>1 DEF QuietInv, Quiet, Serving, Live
  <2> QED
    BY <2>3, <2>5, <2>6, <2>7
<1> QED
  BY <1>1, <1>2, <1>3, <1>4 DEF CleanupStep

\* stopAllConnections(), its calls of stop() apart.
LEMMA StopAllKeepsLife ==
  ASSUME IInv, LifeInv, StopAllStep, UNCHANGED srvVars
  PROVE  LifeInv'
<1> USE ThreadsAreThree DEF IInv, LifeInv, srvVars
<1>1. CASE StopAllStopStep
  BY <1>1, StopStepKeepsLife DEF StopAllStopStep
<1>2. CASE StopAllLocks \/ StopAllStopped \/ StopAllReturns
  <2> USE <1>2 DEF StopAllLocks, StopAllStopped, StopAllReturns
  <2>1. UNCHANGED <<connVars, srvVars, connections, mgrRunning, cleanupAt>>
    OBVIOUS
  <2>2. RoomInv'
    BY <2>1, RoomStays DEF Live, connVars, objVars
  <2>3. ThreadInv' /\ OwnerInv' /\ SessionInv'
    BY <2>1 DEF ThreadInv, OwnerInv, SessionInv, Serving, Live, connVars, objVars, peerVars,
       sessVars, stopVars
  <2>4. QuietInv'
    <3>1. /\ stopAllAt' = "stop" => todo' = connections
          /\ stopAllAt' = "clear" => todo = {} /\ stopAllAt = "stop" /\ Returned(Main)
      OBVIOUS
    <3> QED
      BY <2>1, <3>1 DEF QuietInv, Quiet, Serving, Live, connVars, objVars, peerVars, stopVars
  <2> QED
    BY <2>2, <2>3, <2>4
<1>3. ASSUME NEW c \in Conn, StopAllStops(c)
      PROVE  LifeInv'
  <2> USE <1>3 DEF StopAllStops
  <2>1. RoomInv'
    BY RoomStays DEF Live, objVars
  <2>2. OwnerInv' /\ SessionInv'
    BY CallStopKeeps
  <2>3. ThreadInv'
    BY DEF ThreadInv, objVars, peerVars
  <2>4. QuietInv'
    <3>1. /\ stopAt'[Main] # "idle" /\ stopOf'[Main] = c
          /\ stopAt'[Cleaner] = stopAt[Cleaner] /\ stopOf'[Cleaner] = stopOf[Cleaner]
      BY DEF CallStop, TypeOK, ConnTypeOK
    <3> QED
      BY <3>1 DEF QuietInv, Quiet, Serving, Live, objVars, peerVars
  <2> QED
    BY <2>1, <2>2, <2>3, <2>4
<1>4. ASSUME NEW c \in Conn, StopAllClears(c)
      PROVE  LifeInv'
  <2> USE <1>4 DEF StopAllClears, EraseConnection
  <2>1. /\ c \in Live /\ refs[c] \in 1 .. 2 /\ (Serving => Quiet(c))
        /\ cleanupAt \notin {"sweep", "stop", "erased"}
    BY Referred DEF LockInv, QuietInv, RefsCounted, TypeOK, ConnTypeOK, MgrTypeOK
  <2>2. \A u \in Thread \ {Main} : Returned(u) \/ stopOf[u] # c
    BY <2>1 DEF StopperInv
  <2>3. OwnerInv' /\ SessionInv'
    BY <2>1, <2>2, DropRefKeeps
  <2>4. UNCHANGED <<peerVars, obj, active, joinable, clientAt, sessVars>>
    BY DEF DropRef
  <2>5. RoomInv'
    BY <2>4, RoomStays DEF Live
  <2>6. ThreadInv'
    BY <2>4 DEF ThreadInv, peerVars
  <2>7. QuietInv'
    BY <2>1, <2>4 DEF QuietInv, Quiet, Serving, Live, peerVars
  <2> QED
    BY <2>3, <2>5, <2>6, <2>7
<1> QED
  BY <1>1, <1>2, <1>3, <1>4 DEF StopAllStep

\* When the accept thread has the count, under the lock, every object there is
\* stands in the registry: what has been erased has been destroyed.
LEMMA CountIsTrue ==
  ASSUME IInv, LifeInv, serverAt = "count", mutex = Free
  PROVE  Live = connections
<1> USE ThreadsAreThree DEF IInv, LifeInv
<1>1. ASSUME NEW c \in Live PROVE refs[c] # 0
  <2> SUFFICES ASSUME refs[c] = 0 PROVE FALSE
    OBVIOUS
  <2>1. PICK t \in Thread : ~Returned(t) /\ stopOf[t] = c
    BY DEF OwnerInv
  <2> QED
    BY <2>1 DEF StopperInv, LockInv, PhaseInv
<1>2. \A c \in Conn : ~Held(c)
  BY DEF Held
<1> QED
  BY <1>1, <1>2, Referred DEF Live

\* The accept thread.
LEMMA ServerKeepsLife ==
  ASSUME IInv, LifeInv, ServerStep
  PROVE  LifeInv'
<1> USE ThreadsAreThree, NoConnIsNoClient DEF IInv, LifeInv, ServerGoto
<1>1. CASE DropStopStep
  BY <1>1, StopStepKeepsLife DEF DropStopStep
<1>2. CASE LoopCheck \/ AcceptNobody \/ Dropped
  <2> USE <1>2 DEF LoopCheck, AcceptNobody, Dropped
  <2>1. UNCHANGED <<connVars, mgrVars, running, listening, cur, mainAt>>
    OBVIOUS
  <2>2. serverAt \notin {"add", "create"} /\ serverAt' \in {"loop", "accept", "done"}
    OBVIOUS
  <2>3. RoomInv'
    BY <2>1, <2>2, RoomStays DEF Live, connVars, objVars
  <2>4. ThreadInv' /\ OwnerInv' /\ SessionInv'
    BY <2>1, <2>2 DEF ThreadInv, OwnerInv, SessionInv, Serving, Live, connVars, objVars,
       peerVars, sessVars, stopVars, mgrVars
  <2>5. QuietInv'
    BY <2>1, <2>2 DEF QuietInv, Quiet, Serving, Live, connVars, objVars, peerVars, stopVars,
       mgrVars
  <2> QED
    BY <2>3, <2>4, <2>5
<1>3. ASSUME NEW c \in Conn, Accept(c)
      PROVE  LifeInv'
  <2> USE <1>3 DEF Accept
  <2>1. /\ obj[c] = "none" /\ cur = NoConn /\ serverAt = "accept"
        /\ sock' = [sock EXCEPT ![c] = TRUE] /\ cur' = c /\ serverAt' = "screen"
        /\ UNCHANGED <<refs, obj, active, joinable, clientAt, sessVars, stopVars, mgrVars, mainAt>>
    BY DEF AcceptorInv, Queued, objVars
  <2>2. RoomInv'
    BY <2>1, RoomStays DEF Live
  <2>3. ThreadInv'
    BY <2>1 DEF ThreadInv, TypeOK, ConnTypeOK
  <2>4. OwnerInv'
    <3>1. ASSUME NEW t \in Thread, stopAt[t] = "join"
          PROVE  stopOf[t] \in Conn /\ stopOf[t] # c
      BY <2>1, <3>1, Referred DEF Live
    <3> QED
      BY <2>1, <3>1 DEF OwnerInv, Live, stopVars, mgrVars, TypeOK, ConnTypeOK
  <2>5. SessionInv'
    BY <2>1 DEF SessionInv, Serving, sessVars, stopVars
  <2>6. QuietInv'
    <3>1. \A d \in Live : Quiet(d) => Quiet(d)'
      BY <2>1 DEF Quiet, Live, TypeOK, ConnTypeOK
    <3>2. connections \subseteq Live /\ (cleanupAt = "stop" => stopOf[Cleaner] \in Live)
      BY Referred DEF LockInv
    <3> QED
      BY <2>1, <3>1, <3>2 DEF QuietInv, Serving, Live, stopVars, mgrVars
  <2> QED
    BY <2>2, <2>3, <2>4, <2>5, <2>6
<1>4. CASE Screen \/ CountTest
  <2> USE <1>4 DEF Screen, CountTest
  <2>1. /\ cur \in Conn /\ obj[cur] = "none" /\ serverAt \in {"screen", "count"}
        /\ clientAt[cur] = "none"
    BY DEF AcceptorInv, TypeOK, ThreadInv
  <2>2. UNCHANGED <<objVars, clientAt, sessVars, stopVars, mgrVars, mainAt>>
    BY DEF Reject, connVars
  <2>3. \/ sock' = [sock EXCEPT ![cur] = FALSE] /\ cur' = NoConn /\ serverAt' = "loop"
        \/ sock' = sock /\ cur' = cur /\ serverAt' = "count"
        \/ /\ sock' = sock /\ cur' = cur /\ serverAt' = "create"
           /\ serverAt = "count" /\ mutex = Free
           /\ ~(Cardinality(connections) >= MaxConnections)
    BY DEF Reject, connVars, peerVars, CountIsReadable
  <2>4. RoomInv'
    <3>1. CASE serverAt' # "create"
      BY <2>2, <3>1, RoomStays DEF Live, objVars
    <3>2. CASE serverAt' = "create"
      <4>1. Live = connections /\ Live' = Live
        BY <2>2, <2>3, <3>2, CountIsTrue DEF Live, objVars
      <4>2. Cardinality(Live) \in Nat
        BY FS_CardinalityType DEF RoomInv
      <4> QED
        BY <2>3, <3>2, <4>1, <4>2, MaxConnectionsIsPositive DEF RoomInv
    <3> QED
      BY <3>1, <3>2
  <2>5. ThreadInv'
    BY <2>1, <2>2, <2>3 DEF ThreadInv, objVars, TypeOK, ConnTypeOK
  <2>6. OwnerInv' /\ SessionInv'
    <3>1. \A d \in Conn : sock'[d] => sock[d]
      BY <2>1, <2>3 DEF TypeOK, ConnTypeOK
    <3>2. \A t \in Thread : ~Returned(t) => stopOf[t] \in Conn
      BY Referred DEF Live
    <3> QED
      BY <2>2, <3>1, <3>2
         DEF OwnerInv, SessionInv, Serving, Live, objVars, sessVars, stopVars, mgrVars
  <2>7. QuietInv'
    <3>1. \A d \in Conn : Quiet(d) => Quiet(d)'
      BY <2>1, <2>2, <2>3 DEF Quiet, TypeOK, ConnTypeOK
    <3>2. /\ connections \subseteq Conn /\ (cleanupAt = "stop" => stopOf[Cleaner] \in Conn)
          /\ serverAt # "add"
      BY <2>1 DEF LockInv, TypeOK, MgrTypeOK
    <3> QED
      BY <2>2, <3>1, <3>2 DEF QuietInv, Serving, Live, objVars, stopVars, mgrVars
  <2> QED
    BY <2>4, <2>5, <2>6, <2>7
<1>5. CASE Create
  <2> USE <1>5 DEF Create, Construct
  <2>1. /\ cur \in Conn /\ obj[cur] = "none" /\ serverAt = "create" /\ serverAt' = "add"
        /\ refs' = [refs EXCEPT ![cur] = 1] /\ obj' = [obj EXCEPT ![cur] = "live"]
        /\ UNCHANGED <<peerVars, active, joinable, clientAt, sessVars, stopVars, mgrVars, cur, mainAt>>
    BY DEF AcceptorInv, TypeOK
  <2>2. Live' = Live \cup {cur} /\ cur \notin Live
    BY <2>1 DEF Live, TypeOK, ConnTypeOK
  <2>3. RoomInv'
    <3>1. IsFiniteSet(Live') /\ Cardinality(Live') = Cardinality(Live) + 1
      BY <2>2, FS_AddElement DEF RoomInv
    <3>2. Cardinality(Live) \in Nat /\ Cardinality(Live) < MaxConnections
      BY <2>1, FS_CardinalityType DEF RoomInv
    <3> QED
      BY <2>1, <3>1, <3>2, MaxConnectionsIsPositive DEF RoomInv
  <2>4. ThreadInv'
    BY <2>1 DEF ThreadInv, peerVars, TypeOK, ConnTypeOK
  <2>5. \A t \in Thread : ~Returned(t) => stopOf[t] \in Conn /\ stopOf[t] # cur
    BY <2>1, Referred DEF Live
  <2>6. OwnerInv'
    BY <2>1, <2>2, <2>5 DEF OwnerInv, peerVars, stopVars, mgrVars, Live, TypeOK, ConnTypeOK
  <2>7. SessionInv'
    BY <2>1, <2>5 DEF SessionInv, Serving, sessVars, stopVars, TypeOK, ConnTypeOK
  <2>8. QuietInv'
    BY <2>1, <2>2 DEF QuietInv, Quiet, Serving, peerVars, stopVars, mgrVars
  <2> QED
    BY <2>3, <2>4, <2>6, <2>7, <2>8
<1>6. CASE Add
  <2> USE <1>6 DEF Add, AddConnection
  <2>1. /\ cur \in Conn /\ serverAt = "add" /\ serverAt' = "start" /\ refs[cur] \in 0 .. 2
        /\ refs' = [refs EXCEPT ![cur] = @ + 1] /\ connections' = connections \cup {cur}
        /\ UNCHANGED <<peerVars, obj, active, joinable, clientAt, sessVars, stopVars, cur, mainAt>>
    BY DEF AcceptorInv, TypeOK, ConnTypeOK
  <2>2. RoomInv'
    BY <2>1, RoomStays DEF Live
  <2>3. ThreadInv'
    BY <2>1 DEF ThreadInv, peerVars
  <2>4. \A d \in Conn : refs'[d] = 0 => refs[d] = 0
    BY <2>1 DEF TypeOK, ConnTypeOK
  <2>5. OwnerInv'
    BY <2>1, <2>4 DEF OwnerInv, PhaseInv, peerVars, stopVars, Live
  <2>6. SessionInv'
    <3>1. \A t \in Thread : ~Returned(t) => stopOf[t] \in Conn
      BY Referred DEF Live
    <3> QED
      BY <2>1, <2>4, <3>1 DEF SessionInv, Serving, sessVars, stopVars
  <2>7. QuietInv'
    <3>1. cleanupAt' # "stop" /\ stopAllAt' \notin {"stop", "clear"}
      BY DEF LockInv
    <3> QED
      BY <2>1, <3>1 DEF QuietInv, Quiet, Serving, Live, peerVars
  <2> QED
    BY <2>2, <2>3, <2>5, <2>6, <2>7
<1>7. CASE Start \/ StartThread
  <2> USE <1>7 DEF Start, Activate, StartThread, Spawn, Goto
  <2>1. /\ cur \in Conn /\ serverAt \in {"start", "spawn"} /\ obj[cur] = "live"
        /\ clientAt[cur] = "none"
    BY Referred DEF AcceptorInv, Held, Live, ThreadInv, TypeOK
  <2>2. /\ \/ serverAt' = "spawn" /\ joinable' = joinable /\ clientAt' = clientAt
           \/ /\ serverAt' = "drop" /\ joinable' = [joinable EXCEPT ![cur] = TRUE]
              /\ clientAt' = [clientAt EXCEPT ![cur] = "welcome"]
        /\ UNCHANGED <<peerVars, refs, obj, sessVars, stopVars, mgrVars, cur, mainAt>>
    OBVIOUS
  <2>3. RoomInv'
    BY <2>2, RoomStays DEF Live
  <2>4. ThreadInv'
    BY <2>1, <2>2 DEF ThreadInv, peerVars, TypeOK, ConnTypeOK
  <2>5. OwnerInv'
    BY <2>2 DEF OwnerInv, peerVars, stopVars, mgrVars, Live
  <2>6. SessionInv'
    <3>1. \A d \in Conn : clientAt'[d] = "flag" <=> clientAt[d] = "flag"
      BY <2>1, <2>2 DEF TypeOK, ConnTypeOK
    <3> QED
      BY <2>2, <3>1 DEF SessionInv, Serving, sessVars, stopVars
  <2>7. QuietInv'
    <3>1. \A d \in Conn : Quiet(d) => Quiet(d)'
      BY <2>2 DEF Quiet, peerVars, TypeOK, ConnTypeOK
    <3>2. /\ connections \subseteq Conn /\ (cleanupAt = "stop" => stopOf[Cleaner] \in Conn)
          /\ serverAt # "add"
      BY <2>1 DEF LockInv, TypeOK, MgrTypeOK
    <3> QED
      BY <2>2, <3>1, <3>2 DEF QuietInv, Serving, Live, stopVars, mgrVars
  <2> QED
    BY <2>3, <2>4, <2>5, <2>6, <2>7
<1>8. CASE Drop
  <2> USE <1>8 DEF Drop
  <2>1. /\ cur \in Live /\ serverAt = "drop" /\ refs[cur] \in 1 .. 2 /\ Returned(Acceptor)
        /\ refs[cur] = 1 => cur \notin connections
    BY Referred DEF AcceptorInv, Held, Live, RefsCounted, StopperInv, TypeOK, ConnTypeOK
  <2>2. refs[cur] = 1 => \A u \in Thread \ {Acceptor} : Returned(u) \/ stopOf[u] # cur
    BY <2>1 DEF StopperInv, LockInv
  <2>3. /\ serverAt' = "dropped" /\ cur' = NoConn
        /\ UNCHANGED <<peerVars, obj, active, joinable, clientAt, sessVars, mgrVars, mainAt>>
        /\ stopOf'[Cleaner] = stopOf[Cleaner] /\ stopAt'[Cleaner] = stopAt[Cleaner]
        /\ stopOf'[Main] = stopOf[Main] /\ stopAt'[Main] = stopAt[Main]
    BY DEF DropRef, CallStop, TypeOK, ConnTypeOK
  <2>4. OwnerInv' /\ SessionInv'
    BY <2>1, <2>2, <2>3, DropRefKeeps DEF mgrVars
  <2>5. RoomInv'
    BY <2>3, RoomStays DEF Live
  <2>6. ThreadInv'
    BY <2>1, <2>3 DEF ThreadInv, peerVars, Live
  <2>7. QuietInv'
    BY <2>1, <2>3 DEF QuietInv, Quiet, Serving, Live, peerVars, mgrVars
  <2> QED
    BY <2>4, <2>5, <2>6, <2>7
<1> QED
  BY <1>1, <1>2, <1>3, <1>4, <1>5, <1>6, <1>7, <1>8 DEF ServerStep

\* The main thread.
LEMMA MainKeepsLife ==
  ASSUME IInv, LifeInv, StartServer \/ StopServer \/ Shutdown
  PROVE  LifeInv'
<1> USE ThreadsAreThree DEF IInv, LifeInv, MainGoto
<1>1. CASE DestroyStopStep
  BY <1>1, StopStepKeepsLife DEF DestroyStopStep
<1>2. CASE StartServer
  <2> USE <1>2 DEF StartServer, MgrStart
  <2>1. /\ UNCHANGED <<connVars, connections, stopAllAt, todo, cur>>
        /\ mainAt' \in {"up", "destroy"} /\ mainAt = "new"
        /\ serverAt = "off" /\ serverAt' \in {"off", "loop"}
        /\ cleanupAt' \in {"off", "sleep"}
    BY DEF PhaseInv, mgrVars
  <2>2. RoomInv'
    BY <2>1, RoomStays DEF Live, connVars, objVars
  <2>3. ThreadInv' /\ OwnerInv' /\ SessionInv'
    BY <2>1 DEF ThreadInv, OwnerInv, SessionInv, Serving, Live, connVars, objVars, peerVars,
       sessVars, stopVars
  <2>4. QuietInv'
    BY <2>1 DEF QuietInv, Quiet, Serving, Live, connVars, objVars, peerVars, stopVars
  <2> QED
    BY <2>2, <2>3, <2>4
<1>3. CASE StopServer \/ CloseListener \/ StopManager \/ JoinCleaner \/ ManagerStopped
           \/ JoinServer \/ Destroy \/ Destroyed
  <2> USE <1>3 DEF StopServer, CloseListener, StopManager, JoinCleaner, ManagerStopped,
                   JoinServer, Destroy, Destroyed, CallStopAll
  <2>1. UNCHANGED <<connVars, connections, mutex, cleanupAt, todo, serverAt, cur>>
    BY DEF mgrVars
  <2>2. /\ stopAllAt' = stopAllAt \/ stopAllAt' = "lock"
        /\ Serving' => Serving
        /\ mainAt' = "gone" => connections = {}
    BY DEF mgrVars, Serving
  <2>3. RoomInv'
    BY <2>1, RoomStays DEF Live, connVars, objVars
  <2>4. ThreadInv' /\ OwnerInv' /\ SessionInv'
    BY <2>1, <2>2 DEF ThreadInv, OwnerInv, SessionInv, Live, connVars, objVars, peerVars,
       sessVars, stopVars
  <2>5. QuietInv'
    BY <2>1, <2>2 DEF QuietInv, Quiet, Live, connVars, objVars, peerVars, stopVars
  <2> QED
    BY <2>3, <2>4, <2>5
<1>4. ASSUME NEW c \in Conn, DestroyConnection(c)
      PROVE  LifeInv'
  <2> USE <1>4 DEF DestroyConnection, EraseConnection
  <2>1. c \in Live /\ refs[c] \in 1 .. 2 /\ mainAt = "destroy" /\ ~Serving
    BY Referred DEF RefsCounted, Serving, TypeOK, ConnTypeOK, MgrTypeOK
  <2>2. OwnerInv' /\ SessionInv'
    BY <2>1, DropRefKeeps DEF srvVars
  <2>3. UNCHANGED <<peerVars, obj, active, joinable, clientAt, sessVars, srvVars>>
    BY DEF DropRef
  <2>4. RoomInv'
    BY <2>3, RoomStays DEF Live, srvVars
  <2>5. ThreadInv' /\ QuietInv'
    BY <2>1, <2>3 DEF ThreadInv, QuietInv, Serving, peerVars, srvVars
  <2> QED
    BY <2>2, <2>4, <2>5
<1> QED
  BY <1>1, <1>2, <1>3, <1>4 DEF Shutdown

LEMMA NextKeepsLife == IInv /\ LifeInv /\ [Next]_vars => LifeInv'
<1> SUFFICES ASSUME IInv, LifeInv, [Next]_vars PROVE LifeInv'
  OBVIOUS
<1>1. CASE \E c \in Conn : PeerStep(c) \/ ClientThread(c)
  BY <1>1, ClientKeepsLife
<1>2. CASE ServerStep
  BY <1>2, ServerKeepsLife
<1>3. CASE ManagerStep
  BY <1>3, CleanupKeepsLife, StopAllKeepsLife DEF ManagerStep, MgrStep
<1>4. CASE StartServer \/ StopServer \/ Shutdown
  BY <1>4, MainKeepsLife
<1>5. CASE Terminated \/ UNCHANGED vars
  <2>1. UNCHANGED vars
    BY <1>5 DEF Terminated
  <2>2. RoomInv'
    BY <2>1, RoomStays DEF LifeInv, Live, vars, connVars, objVars, srvVars
  <2>3. ThreadInv' /\ OwnerInv' /\ QuietInv' /\ SessionInv'
    BY <2>1 DEF LifeInv, ThreadInv, OwnerInv, QuietInv, SessionInv, Serving, Quiet, Live, vars,
       connVars, mgrVars, srvVars, objVars, peerVars, sessVars, stopVars
  <2> QED
    BY <2>2, <2>3 DEF LifeInv
<1> QED
  BY <1>1, <1>2, <1>3, <1>4, <1>5 DEF Next

THEOREM LifeInvariant == Spec => []LifeInv
<1> QED
  BY InitLife, NextKeepsLife, InductiveInvariant, PTL DEF Spec

------------------------------------------------------------------------------
\* The objects, each with a thread and a socket, never outnumber
\* max_connections, however serverLoop(), cleanup and shutdown interleave.
THEOREM LimitIsKept == Spec => []LiveBound
<1>1. LifeInv => LiveBound
  BY DEF LifeInv, RoomInv, LiveBound, Live
<1> QED
  BY <1>1, LifeInvariant, PTL

\* ~FTPConnection() leaves no thread and no socket, whichever thread runs it.
THEOREM DeadIsClean == Spec => []NothingOutlivesObject
<1>1. LifeInv => NothingOutlivesObject
  BY DEF LifeInv, ThreadInv, NothingOutlivesObject
<1> QED
  BY <1>1, LifeInvariant, PTL

\* A session that logged in once is taken off the tracker by the time its
\* object is destroyed, at whatever step of PASS a stop() found it.
THEOREM SessionsAreGivenBack == Spec => []SessionGivenBack
<1>1. IInv /\ LifeInv => SessionGivenBack
  BY DEF LifeInv, ThreadInv, SessionInv, Serving, SessionGivenBack
<1> QED
  BY <1>1, LifeInvariant, InductiveInvariant, PTL

\* When FTPServer is destroyed, its threads, connections and sockets are gone,
\* also those that it accepted after the last sweep of its stop().
THEOREM ServerIsClean == Spec => []GoneMeansClean
<1>1. IInv /\ LifeInv => GoneMeansClean
  <2> SUFFICES ASSUME IInv, LifeInv, mainAt = "gone"
               PROVE  /\ serverAt \in {"off", "done"} /\ cleanupAt \in {"off", "done"}
                      /\ \A c \in Conn : obj[c] # "live" /\ ~sock[c]
                                         /\ clientAt[c] \in {"none", "done"}
    BY DEF GoneMeansClean
  <2> USE ThreadsAreThree, NoConnIsNoClient DEF IInv, LifeInv
  <2>1. serverAt \in {"off", "done"} /\ cleanupAt \in {"off", "done"} /\ cur = NoConn
    BY DEF PhaseInv, AcceptorInv
  <2>2. \A t \in Thread : Returned(t)
    BY <2>1 DEF StopperInv, PhaseInv
  <2>3. \A c \in Conn : obj[c] # "live"
    <3>1. \A c \in Conn : refs[c] = 0
      BY <2>1, Referred DEF OwnerInv, Held
    <3> QED
      BY <2>2, <3>1 DEF OwnerInv, Live
  <2>4. \A c \in Conn : ~sock[c] /\ clientAt[c] \in {"none", "done"}
    BY <2>1, <2>3 DEF ThreadInv, TypeOK, ConnTypeOK
  <2> QED
    BY <2>1, <2>3, <2>4
<1> QED
  BY <1>1, LifeInvariant, InductiveInvariant, PTL

\* Neither cleanupLoop() nor stopAllConnections() erases a connection whose
\* socket is open.
THEOREM StopComesFirst == Spec => ErasedAfterStop
<1> DEFINE Erasure == \A c \in connections \ connections' : mainAt = "destroy" \/ ~sock[c]
<1>1. ASSUME IInv, LifeInv, [Next]_vars PROVE Erasure
  <2> USE DEF IInv, LifeInv
  <2>1. CASE CleanupErases
    <3>1. cleanupAt = "stop" /\ Returned(Cleaner) /\ connections' = connections \ {stopOf[Cleaner]}
      BY <2>1 DEF CleanupErases, EraseConnection
    <3>2. ~sock[stopOf[Cleaner]]
      BY <1>1, <3>1 DEF QuietInv, Quiet, Serving, PhaseInv
    <3>3. \A c \in connections \ connections' : c = stopOf[Cleaner]
      BY <3>1
    <3> QED
      BY <3>2, <3>3
  <2>2. ASSUME NEW c \in Conn, StopAllClears(c) PROVE Erasure
    <3>1. c \in connections /\ stopAllAt = "clear" /\ connections' = connections \ {c}
      BY <2>2 DEF StopAllClears, EraseConnection
    <3>2. ~sock[c]
      BY <1>1, <3>1 DEF QuietInv, Quiet, Serving, PhaseInv
    <3>3. \A d \in connections \ connections' : d = c
      BY <3>1
    <3> QED
      BY <3>2, <3>3
  <2>3. ASSUME NEW c \in Conn, DestroyConnection(c) PROVE Erasure
    BY <2>3 DEF DestroyConnection
  <2>4. CASE ~CleanupErases /\ \A c \in Conn : ~StopAllClears(c) /\ ~DestroyConnection(c)
    <3>1. connections \subseteq connections'
      <4>1. CASE \E c \in Conn : PeerStep(c) \/ ClientThread(c)
        BY <4>1 DEF PeerStep, Connect, ClientThread, mgrVars
      <4>2. CASE ServerStep
        BY <4>2 DEF ServerStep, LoopCheck, Accept, AcceptNobody, Screen, CountTest, Reject,
           Create, Add, AddConnection, Start, StartThread, Drop, DropStopStep, Dropped, mgrVars
      <4>3. CASE ManagerStep
        BY <2>4, <4>3 DEF ManagerStep, MgrStep, CleanupStep, CleanupWakes, CleanupLocks,
           CleanupSkips, CleanupStops, CleanupStopStep, CleanupGoesOn, CleanupUnlocks,
           StopAllStep, StopAllLocks, StopAllStops, StopAllStopStep, StopAllStopped,
           StopAllReturns, mgrVars
      <4>4. CASE StartServer \/ StopServer \/ Shutdown
        BY <2>4, <4>4 DEF StartServer, MgrStart, StopServer, Shutdown, CloseListener,
           CallStopAll, StopManager, JoinCleaner, ManagerStopped, JoinServer, Destroy,
           DestroyStopStep, Destroyed, mgrVars
      <4>5. CASE Terminated \/ UNCHANGED vars
        BY <4>5 DEF Terminated, vars, mgrVars
      <4> QED
        BY <1>1, <4>1, <4>2, <4>3, <4>4, <4>5 DEF Next
    <3> QED
      BY <3>1
  <2> QED
    BY <2>1, <2>2, <2>3, <2>4
<1>2. IInv /\ LifeInv /\ [Next]_vars => [Erasure]_vars
  BY <1>1
<1> QED
  BY <1>2, LifeInvariant, InductiveInvariant, PTL DEF Spec, ErasedAfterStop
===============================================================================
