----------------------------- MODULE FrontDoor -----------------------------
(***************************************************************************)
(* FTPServer::serverLoop (core/server.cpp) between its limits and the      *)
(* connections that come of it: a client that Admission lets through gets  *)
(* a connection of ControlChannel if there is room for one.                *)
(***************************************************************************)
EXTENDS Admission, ControlChannel, FiniteSets

CONSTANT MaxConnections   \* connection.max_connections

ASSUME MaxConnectionsIsNat == MaxConnections \in Nat

vars == <<admissionVars, channelVars>>

TypeOK == AdmissionTypeOK /\ ChannelTypeOK

Init == AdmissionInit /\ ChannelInit

LiveConnections == {c \in Conn : life[c] = "open"}

\* getConnectionCount(), and handleConnection() as far as addConnection().
TestConnectionLimit ==
  /\ test = "count" /\ Unlocked
  /\ \/ /\ Cardinality(LiveConnections) >= MaxConnections
        /\ UNCHANGED channelVars
     \/ /\ Cardinality(LiveConnections) < MaxConnections
        /\ \E c \in Conn : Open(c)
  /\ Done
  /\ UNCHANGED <<now, window, stamps>>

\* The thread that accepts does the next thing only after handleConnection().
Accepting ==
  \/ /\ \A c \in Conn : ~Handling(c)
     /\ \/ /\ \/ \E a \in Address : ~shutdown /\ AcceptClient(a)
              \/ IsAllowed \/ RecordRequest
           /\ UNCHANGED channelVars
        \/ TestConnectionLimit
  \/ /\ \E c \in Conn : Activate(c) \/ Spawn(c)
     /\ UNCHANGED admissionVars

Sessions ==
  /\ BeginShutdown \/ \E c \in Conn : ThreadSteps(c) \/ StopSteps(c)
  /\ UNCHANGED admissionVars

\* The end: the process has died, or shut down at the end of the clock.
Terminated ==
  /\ ~alive \/ (shutdown /\ life = All("none") /\ test = "accept"
                /\ now = MaxTime)
  /\ UNCHANGED vars

Next ==
  \/ alive /\ ((Tick /\ UNCHANGED channelVars) \/ Accepting \/ Sessions)
  \/ Terminated

Spec == Init /\ [][Next]_vars
=============================================================================
