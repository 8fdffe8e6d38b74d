--------------------------- MODULE FrontDoorProofs ---------------------------
(***************************************************************************)
(* Proofs about FrontDoor, for every number of addresses, connections and  *)
(* requests, every limit and every length of the window.                   *)
(*                                                                         *)
(* The two halves share no variable: what holds of the limiter is kept by  *)
(* the steps of Admission, what holds of a session by those of             *)
(* ControlChannel, and each is untouched by the other.                     *)
(***************************************************************************)
EXTENDS FrontDoor, TLAPS

-----------------------------------------------------------------------------
(***************************************************************************)
(* The limiter                                                             *)
(***************************************************************************)

\* The entry e of an address, whose requests were recorded at the times s,
\* seen at the time t.
Bounded(e, s, t) ==
  /\ e.start <= t
  /\ e.count <= Len(s)
  /\ e.start = Origin \/ RateLimit <= 0 => Len(s) = 0
  /\ e.count <= RateLimit \/ e.count = 0
  /\ \A i \in 1 .. Len(s) : s[i] <= t

\* The requests that the entry counts lie in its window, the others before
\* it, and all but RateLimit of those before the window that came last.
Placed(e, s) ==
  /\ \A i \in 1 .. Len(s) :
       i > Len(s) - e.count => e.start <= s[i] /\ s[i] < e.start + Minute
  /\ \A i \in 1 .. Len(s) : i <= Len(s) - e.count => s[i] < e.start
  /\ \A i \in 1 .. Len(s) :
       i <= Len(s) - e.count - RateLimit => s[i] + Minute < e.start

Spaced(s) ==
  \A i, j \in 1 .. Len(s) :
    (RateLimit >= 0 /\ j - i = 2 * RateLimit) => s[j] - s[i] > Minute

Kept(e, s, t) == Bounded(e, s, t) /\ Placed(e, s) /\ Spaced(s)

\* The window of the entry is not over.
Running(e) == now - e.start < Minute

\* What isAllowed() has seen is still so when recordRequest() looks again,
\* or its window is over.
MayRecord ==
  /\ RateLimit > 0
  /\ window[caller].start # Origin
  /\ window[caller].count < RateLimit \/ now - window[caller].start >= Minute

LimiterInv ==
  /\ AdmissionTypeOK
  /\ test # "accept" => caller \in Address
  /\ test = "record" => MayRecord
  /\ \A a \in Address : Kept(window[a], stamps[a], now)

\* A renewed entry counts in a window that has begun and is not over.
LEMMA RenewKeeps ==
  ASSUME NEW e \in Entry, NEW s \in Seq(Nat), now \in Nat \ {Origin},
         Kept(e, s, now)
  PROVE  /\ Renewed(e) \in Entry
         /\ Kept(Renewed(e), s, now)
         /\ Renewed(e).start # Origin
         /\ Running(Renewed(e))
         /\ e.start # Origin /\ e.count < RateLimit => Renewed(e).count < RateLimit
<1> USE LimiterNumbers DEF Origin, Entry
<1>1. CASE ~(e.start = Origin \/ now - e.start >= Minute)
  BY <1>1 DEF Renewed, Running
<1>2. CASE e.start = Origin \/ now - e.start >= Minute
  <2>1. Renewed(e) = [start |-> now, count |-> 0]
    BY <1>2 DEF Renewed
  <2>2. Bounded(Renewed(e), s, now)
    BY <2>1 DEF Kept, Bounded
  <2>3. ASSUME NEW i \in 1 .. Len(s), i <= Len(s) - RateLimit
        PROVE  s[i] + Minute < now
    <3>1. e.start # Origin /\ RateLimit > 0 /\ e.count <= RateLimit
      BY <2>3 DEF Kept, Bounded
    <3>2. e.start + Minute <= now
      BY <1>2, <3>1
    <3>3. s[i] < e.start
      BY <2>3, <3>1 DEF Kept, Placed
    <3>4. s[i] \in Nat
      BY <2>3
    <3>5. QED
      BY <3>2, <3>3, <3>4
  <2>4. ASSUME NEW i \in 1 .. Len(s) PROVE s[i] < now
    <3>1. s[i] \in Nat /\ e.start # Origin /\ e.start + Minute <= now
      BY <1>2 DEF Kept, Bounded
    <3>2. CASE i > Len(s) - e.count
      BY <3>1, <3>2 DEF Kept, Placed
    <3>3. CASE i <= Len(s) - e.count
      BY <3>1, <3>3 DEF Kept, Placed
    <3>4. QED
      BY <3>2, <3>3
  <2>5. Placed(Renewed(e), s)
    BY <2>1, <2>3, <2>4 DEF Placed
  <2>6. QED
    BY <2>1, <2>2, <2>5 DEF Kept, Bounded, Running
<1>3. QED
  BY <1>1, <1>2

\* One more request in a window with room for it.
LEMMA RecordKeeps ==
  ASSUME NEW e \in Entry, NEW s \in Seq(Nat), now \in Nat \ {Origin},
         Kept(e, s, now), e.start # Origin, Running(e),
         e.count < RateLimit
  PROVE  Kept([e EXCEPT !.count = @ + 1], Append(s, now), now)
<1> USE LimiterNumbers DEF Origin, Entry
<1> DEFINE d == [e EXCEPT !.count = @ + 1]
           r == Append(s, now)
<1>1. /\ d.start = e.start /\ d.count = e.count + 1
      /\ Len(r) = Len(s) + 1 /\ r[Len(s) + 1] = now
      /\ \A i \in 1 .. Len(s) : r[i] = s[i] /\ s[i] \in Nat
  OBVIOUS
<1>2. \A i \in 1 .. Len(r) : i \in 1 .. Len(s) \/ i = Len(s) + 1
  BY <1>1
<1> HIDE DEF d, r
<1>3. Bounded(d, r, now)
  <2>1. ASSUME NEW i \in 1 .. Len(r) PROVE r[i] <= now
    <3>1. CASE i \in 1 .. Len(s)
      BY <1>1, <3>1 DEF Kept, Bounded
    <3>2. CASE i = Len(s) + 1
      BY <1>1, <3>2
    <3>3. QED
      BY <1>2, <3>1, <3>2
  <2>2. /\ d.start <= now /\ d.count <= Len(r)
        /\ d.count <= RateLimit /\ ~(d.start = Origin \/ RateLimit <= 0)
    BY <1>1 DEF Kept, Bounded
  <2>3. QED
    BY <2>1, <2>2 DEF Bounded
<1>4. Placed(d, r)
  <2>1. /\ Len(r) - d.count = Len(s) - e.count
        /\ Len(r) - d.count - RateLimit = Len(s) - e.count - RateLimit
        /\ Len(s) - e.count <= Len(s) /\ Len(s) - e.count - RateLimit <= Len(s)
    BY <1>1 DEF Kept, Bounded
  <2>2. ASSUME NEW i \in 1 .. Len(r), i > Len(s) - e.count
        PROVE  e.start <= r[i] /\ r[i] < e.start + Minute
    <3>1. CASE i \in 1 .. Len(s)
      BY <1>1, <2>2, <3>1 DEF Kept, Placed
    <3>2. CASE i = Len(s) + 1
      BY <1>1, <3>2 DEF Kept, Bounded, Running
    <3>3. QED
      BY <1>2, <3>1, <3>2
  <2>3. ASSUME NEW i \in 1 .. Len(r), i <= Len(s) - e.count
        PROVE  r[i] < e.start
    <3>1. i \in 1 .. Len(s)
      BY <1>1, <1>2, <2>1, <2>3
    <3>2. QED
      BY <1>1, <2>3, <3>1 DEF Kept, Placed
  <2>4. ASSUME NEW i \in 1 .. Len(r), i <= Len(s) - e.count - RateLimit
        PROVE  r[i] + Minute < e.start
    <3>1. i \in 1 .. Len(s)
      BY <1>1, <1>2, <2>1, <2>4
    <3>2. QED
      BY <1>1, <2>4, <3>1 DEF Kept, Placed
  <2>5. QED
    BY <1>1, <2>1, <2>2, <2>3, <2>4 DEF Placed
<1>5. ASSUME NEW i \in 1 .. Len(r), NEW j \in 1 .. Len(r),
             j - i = 2 * RateLimit
      PROVE  r[j] - r[i] > Minute
  <2>1. i \in 1 .. Len(s)
    BY <1>1, <1>2, <1>5
  <2>2. CASE j = Len(s) + 1
    <3>1. i <= Len(s) - e.count - RateLimit
      BY <1>5, <2>2
    <3>2. s[i] + Minute < e.start /\ e.start <= now
      BY <2>1, <3>1 DEF Kept, Bounded, Placed
    <3>3. QED
      BY <1>1, <2>1, <2>2, <3>2
  <2>3. CASE j \in 1 .. Len(s)
    <3>1. s[j] - s[i] > Minute
      BY <1>5, <2>1, <2>3 DEF Kept, Spaced
    <3>2. QED
      BY <1>1, <2>1, <2>3, <3>1
  <2>4. QED
    BY <1>2, <2>2, <2>3
<1>6. QED
  BY <1>3, <1>4, <1>5 DEF Kept, Spaced, d, r

LEMMA LimiterInit == AdmissionInit => LimiterInv
<1> SUFFICES ASSUME AdmissionInit PROVE LimiterInv
  OBVIOUS
<1> USE LimiterNumbers DEF AdmissionInit, Origin, Entry
<1>1. AdmissionTypeOK
  BY DEF AdmissionTypeOK
<1>2. ASSUME NEW a \in Address PROVE Kept(window[a], stamps[a], now)
  <2>1. window[a].start = 0 /\ window[a].count = 0 /\ Len(stamps[a]) = 0 /\ now = 1
    OBVIOUS
  <2>2. 1 .. Len(stamps[a]) = {}
    BY <2>1
  <2>3. Bounded(window[a], stamps[a], now)
    BY <2>1, <2>2 DEF Bounded
  <2>4. Placed(window[a], stamps[a]) /\ Spaced(stamps[a])
    BY <2>2 DEF Placed, Spaced
  <2>5. QED
    BY <2>3, <2>4 DEF Kept
<1>3. QED
  BY <1>1, <1>2 DEF LimiterInv

LEMMA LimiterStep ==
  ASSUME LimiterInv, [Next]_vars
  PROVE  LimiterInv'
<1> USE LimiterNumbers, NobodyIsNoAddress DEF LimiterInv, AdmissionTypeOK
<1>1. CASE Tick
  <2>1. ASSUME NEW a \in Address PROVE Kept(window[a], stamps[a], now')
    <3>1. now' = now + 1 /\ window[a].start \in Nat
          /\ \A i \in 1 .. Len(stamps[a]) : stamps[a][i] \in Nat
      BY <1>1 DEF Tick, Entry
    <3>2. Bounded(window[a], stamps[a], now')
      BY <3>1 DEF Kept, Bounded, Origin
    <3>3. QED
      BY <3>2 DEF Kept
  <2>2. QED
    BY <1>1, <2>1 DEF Tick, MayRecord, Entry, Origin
<1>2. ASSUME NEW a \in Address, AcceptClient(a) PROVE LimiterInv'
  BY <1>2 DEF AcceptClient
<1>3. CASE IsAllowed
  <2>1. caller \in Address /\ window[caller] \in Entry
    BY <1>3 DEF IsAllowed
  <2>2. /\ Renewed(window[caller]) \in Entry
        /\ Kept(Renewed(window[caller]), stamps[caller], now)
        /\ Renewed(window[caller]).start # Origin
    BY <2>1, RenewKeeps
  <2>3. window' = [window EXCEPT ![caller] = Renewed(window[caller])]
    BY <1>3 DEF IsAllowed
  <2>4. \A a \in Address : window'[a] \in Entry /\ Kept(window'[a], stamps[a], now)
    BY <2>1, <2>2, <2>3
  <2>5. (test' # "accept" => caller' \in Address) /\ (test' = "record" => MayRecord')
    <3>1. CASE test' = "record"
      <4>1. caller' = caller /\ window'[caller].count < RateLimit
        BY <1>3, <2>1, <2>2, <2>3, <3>1 DEF IsAllowed, Done, Entry
      <4>2. window'[caller].count \in Nat /\ window'[caller].start # Origin
        BY <2>1, <2>2, <2>3 DEF Entry
      <4>3. QED
        BY <2>1, <3>1, <4>1, <4>2 DEF MayRecord
    <3>2. CASE test' # "record"
      BY <1>3, <3>2 DEF IsAllowed, Done
    <3>3. QED
      BY <3>1, <3>2
  <2>6. /\ window' \in [Address -> Entry] /\ UNCHANGED <<now, stamps>>
        /\ test' \in {"accept", "record"} /\ caller' \in Address \cup {Nobody}
    BY <1>3, <2>1, <2>2, <2>3 DEF IsAllowed, Done
  <2>7. \A a \in Address : Kept(window[a], stamps[a], now)'
    BY <2>4, <2>6
  <2>8. AdmissionTypeOK'
    BY <2>6
  <2>9. QED
    BY <2>5, <2>7, <2>8
<1>4. CASE RecordRequest
  <2>1. caller \in Address /\ window[caller] \in Entry /\ stamps[caller] \in Seq(Nat)
        /\ MayRecord
    BY <1>4 DEF RecordRequest
  <2> DEFINE e == Renewed(window[caller])
             d == [e EXCEPT !.count = @ + 1]
  <2>2. /\ e \in Entry /\ Kept(e, stamps[caller], now) /\ e.start # Origin
        /\ Running(e)
        /\ window[caller].count < RateLimit => e.count < RateLimit
    BY <2>1, RenewKeeps DEF MayRecord
  <2>3. e.count < RateLimit
    BY <2>1, <2>2 DEF MayRecord, Renewed, Entry
  <2> HIDE DEF e
  <2>4. Kept(d, Append(stamps[caller], now), now) /\ d \in Entry
    <3>1. Kept(d, Append(stamps[caller], now), now)
      BY <2>1, <2>2, <2>3, RecordKeeps
    <3>2. e \in [start : Nat, count : Nat]
      BY <2>2 DEF Entry
    <3>4. d = [start |-> e.start, count |-> e.count + 1]
      BY <3>2
    <3>5. d \in Entry
      BY <3>2, <3>4 DEF Entry
    <3>3. QED
      BY <3>1, <3>5
  <2>5. /\ window' = [window EXCEPT ![caller] = d]
        /\ stamps' = [stamps EXCEPT ![caller] = Append(stamps[caller], now)]
        /\ test' = "count" /\ UNCHANGED <<now, caller>>
    BY <1>4 DEF RecordRequest, e
  <2> HIDE DEF d
  <2>6. \A a \in Address : window'[a] \in Entry /\ Kept(window'[a], stamps'[a], now)
    BY <2>1, <2>4, <2>5
  <2>7. stamps' \in [Address -> Seq(Nat)] /\ window' \in [Address -> Entry]
    BY <2>1, <2>4, <2>5
  <2>8. \A a \in Address : Kept(window[a], stamps[a], now)'
    BY <2>5, <2>6
  <2>9. AdmissionTypeOK'
    BY <2>1, <2>5, <2>7
  <2>10. QED
    BY <2>1, <2>5, <2>8, <2>9
<1>5. CASE TestConnectionLimit
  BY <1>5 DEF TestConnectionLimit, Done
<1>6. CASE UNCHANGED admissionVars
  BY <1>6 DEF admissionVars, MayRecord
<1>7. QED
  BY <1>1, <1>2, <1>3, <1>4, <1>5, <1>6
     DEF Next, Accepting, Sessions, Terminated, vars

-----------------------------------------------------------------------------
(***************************************************************************)
(* The sessions                                                            *)
(***************************************************************************)

\* What a connection's thread and a stop() of it keep true.  active_ is what
\* holds the cleanup off: whoever stops a session, or finds its upgrade failed,
\* clears it first, and it is set once; but start() may set it after a stop()
\* that came early.
SessionInv(c) ==
  /\ life[c] = "none" => stopAt[c] = "no" /\ at[c] = "none"
  /\ at[c] = "none" =>
       ~active[c] /\ ~secure[c] /\ ~failed[c] /\ next[c] = "idle"
  /\ at[c] \in {"added", "starting"} =>
       ~secure[c] /\ ~failed[c] /\ next[c] = "idle"
  /\ at[c] = "added" => ~active[c]
  /\ early[c] => stopAt[c] # "no"
  /\ stopAt[c] # "no" => ~active[c] \/ early[c] \/ shutdown
  /\ stopAt[c] \notin {"no", "called"} => ~active[c] \/ early[c]
  /\ stopAt[c] # "no" /\ at[c] = "added" => early[c]
  /\ failed[c] => ~active[c]
  /\ at[c] = "read" => active[c] \/ early[c] \/ shutdown
  /\ at[c] \in {"create", "handshake"} => ~secure[c]
  /\ at[c] \in {"answer", "write"} /\ next[c] = "create" => ~secure[c]
  /\ at[c] = "handshake" \/ secure[c] =>
       ssl[c] = "live" \/ stopAt[c] \notin {"no", "called", "off"}
  /\ at[c] = "read" /\ ~shutdown /\ ~early[c] /\ secure[c] => via[c] = "tls"
  /\ at[c] = "write" /\ via[c] = "plain" /\ secure[c] =>
       stopAt[c] \notin {"no", "called", "off"}

SessionsInv == ChannelTypeOK /\ \A c \in Conn : SessionInv(c)

LEMMA SessionsInit == ChannelInit => SessionsInv
<1> SUFFICES ASSUME ChannelInit PROVE SessionsInv
  OBVIOUS
<1>1. ChannelTypeOK
  BY DEF ChannelInit, ChannelTypeOK, Thread, All
<1>2. ASSUME NEW c \in Conn PROVE SessionInv(c)
  BY DEF ChannelInit, SessionInv, All
<1>3. QED
  BY <1>1, <1>2 DEF SessionsInv

\* The other connections are what they were.
Elsewhere(c) ==
  \A d \in Conn \ {c} :
    /\ life'[d] = life[d] /\ active'[d] = active[d] /\ ssl'[d] = ssl[d]
    /\ secure'[d] = secure[d] /\ at'[d] = at[d] /\ via'[d] = via[d]
    /\ next'[d] = next[d] /\ stopAt'[d] = stopAt[d] /\ failed'[d] = failed[d]
    /\ early'[d] = early[d]

LEMMA OneSession ==
  ASSUME SessionsInv, NEW c \in Conn, shutdown' = shutdown,
         ChannelTypeOK', SessionInv(c)', Elsewhere(c)
  PROVE  SessionsInv'
<1>1. ASSUME NEW d \in Conn, d # c PROVE SessionInv(d)'
  BY <1>1 DEF SessionsInv, SessionInv, Elsewhere
<1>2. \A d \in Conn : SessionInv(d)'
  BY <1>1
<1>3. QED
  BY <1>2 DEF SessionsInv

LEMMA SessionStep ==
  ASSUME SessionsInv, [Next]_vars
  PROVE  SessionsInv'
<1> USE DEF SessionsInv, ChannelTypeOK
<1>1. ASSUME NEW c \in Conn, Open(c) PROVE SessionsInv'
  <2>1. ChannelTypeOK' /\ shutdown' = shutdown
    <3>1. PICK loaded \in {ServerCert, FALSE} :
            /\ enabled' = [enabled EXCEPT ![c] = loaded]
            /\ ctx' = [ctx EXCEPT ![c] = IF loaded THEN "ok"
                                         ELSE IF ServerCert THEN "null" ELSE "none"]
      BY <1>1 DEF Open, Initialized
    <3>2. ctx' \in [Conn -> {"none", "null", "ok"}]
      BY <3>1
    <3>3. enabled' \in [Conn -> BOOLEAN]
      BY <3>1, CertIsABoolean
    <3>4. QED
      BY <1>1, <3>2, <3>3 DEF Open, Initialized, Thread
  <2>2. SessionInv(c)'
    BY <1>1 DEF Open, Initialized, SessionInv, Thread
  <2>3. Elsewhere(c)
    BY <1>1 DEF Open, Initialized, Elsewhere
  <2>4. QED
    BY <2>1, <2>2, <2>3, OneSession
<1>2. ASSUME NEW c \in Conn, ChooseRead(c) PROVE SessionsInv'
  <2>1. ChannelTypeOK' /\ shutdown' = shutdown
    <3>1. at' \in [Conn -> Thread]
      BY <1>2 DEF ChooseRead, Thread
    <3>5. active' \in [Conn -> BOOLEAN]
      BY <1>2 DEF ChooseRead
    <3>2. via' = via \/ via' = [via EXCEPT ![c] = Channel(c)]
      BY <1>2 DEF ChooseRead
    <3>3. via' \in [Conn -> {"tls", "plain"}]
      BY <3>2 DEF Channel
    <3>4. QED
      BY <1>2, <3>1, <3>5, <3>3 DEF ChooseRead
  <2>2. SessionInv(c)'
    BY <1>2 DEF ChooseRead, Channel, SessionInv, Thread
  <2>3. Elsewhere(c)
    BY <1>2 DEF ChooseRead, Channel, Elsewhere
  <2>4. QED
    BY <2>1, <2>2, <2>3, OneSession
<1>3. ASSUME NEW c \in Conn, ReadLine(c) PROVE SessionsInv'
  <2>1. ChannelTypeOK' /\ shutdown' = shutdown
    <3>1. at' \in [Conn -> Thread]
      BY <1>3 DEF ReadLine, Thread
    <3>2. active' \in [Conn -> BOOLEAN]
      BY <1>3 DEF ReadLine
    <3>3. QED
      BY <1>3, <3>1, <3>2 DEF ReadLine
  <2>2. SessionInv(c)'
    BY <1>3 DEF ReadLine, SessionInv, Thread
  <2>3. Elsewhere(c)
    BY <1>3 DEF ReadLine, Elsewhere
  <2>4. QED
    BY <2>1, <2>2, <2>3, OneSession
<1>4. ASSUME NEW c \in Conn, ObeyOther(c) PROVE SessionsInv'
  <2>1. ChannelTypeOK' /\ shutdown' = shutdown
    BY <1>4 DEF ObeyOther, Replies, Thread
  <2>2. SessionInv(c)'
    BY <1>4 DEF ObeyOther, Replies, SessionInv, Thread
  <2>3. Elsewhere(c)
    BY <1>4 DEF ObeyOther, Replies, Elsewhere
  <2>4. QED
    BY <2>1, <2>2, <2>3, OneSession
<1>5. ASSUME NEW c \in Conn, HandleAUTH(c) PROVE SessionsInv'
  <2>1. ChannelTypeOK' /\ shutdown' = shutdown
    BY <1>5 DEF HandleAUTH, Initialized, Replies, Thread
  <2>2. SessionInv(c)'
    BY <1>5 DEF HandleAUTH, Initialized, Replies, SessionInv, Thread
  <2>3. Elsewhere(c)
    BY <1>5 DEF HandleAUTH, Initialized, Replies, Elsewhere
  <2>4. QED
    BY <2>1, <2>2, <2>3, OneSession
<1>6. ASSUME NEW c \in Conn, ChooseWrite(c) PROVE SessionsInv'
  <2>1. ChannelTypeOK' /\ shutdown' = shutdown
    BY <1>6 DEF ChooseWrite, Channel, Thread
  <2>2. SessionInv(c)'
    BY <1>6 DEF ChooseWrite, Channel, SessionInv, Thread
  <2>3. Elsewhere(c)
    BY <1>6 DEF ChooseWrite, Channel, Elsewhere
  <2>4. QED
    BY <2>1, <2>2, <2>3, OneSession
<1>7. ASSUME NEW c \in Conn, Write(c) PROVE SessionsInv'
  <2>1. ChannelTypeOK' /\ shutdown' = shutdown
    <3>1. at' \in [Conn -> Thread]
      BY <1>7 DEF Write, Thread
    <3>2. active' \in [Conn -> BOOLEAN]
      BY <1>7 DEF Write
    <3>3. QED
      BY <1>7, <3>1, <3>2 DEF Write
  <2>2. SessionInv(c)'
    BY <1>7 DEF Write, SessionInv, Thread
  <2>3. Elsewhere(c)
    BY <1>7 DEF Write, Elsewhere
  <2>4. QED
    BY <2>1, <2>2, <2>3, OneSession
<1>8. ASSUME NEW c \in Conn, CreateSSL(c) PROVE SessionsInv'
  <2>1. ChannelTypeOK' /\ shutdown' = shutdown
    <3>1. at' \in [Conn -> Thread]
      BY <1>8 DEF CreateSSL, Fails, Thread
    <3>2. active' \in [Conn -> BOOLEAN]
      BY <1>8 DEF CreateSSL, Fails
    <3>3. ssl' \in [Conn -> {"null", "live", "freed"}]
      BY <1>8 DEF CreateSSL
    <3>4. failed' \in [Conn -> BOOLEAN]
      BY <1>8 DEF CreateSSL, Fails
    <3>5. QED
      BY <1>8, <3>1, <3>2, <3>3, <3>4 DEF CreateSSL
  <2>2. SessionInv(c)'
    BY <1>8 DEF CreateSSL, Fails, SessionInv, Thread
  <2>3. Elsewhere(c)
    BY <1>8 DEF CreateSSL, Fails, Elsewhere
  <2>4. QED
    BY <2>1, <2>2, <2>3, OneSession
<1>9. ASSUME NEW c \in Conn, Handshake(c) PROVE SessionsInv'
  <2>1. ChannelTypeOK' /\ shutdown' = shutdown
    <3>7. /\ at' = [at EXCEPT ![c] = "idle"]
          /\ active' = active \/ active' = [active EXCEPT ![c] = FALSE]
      BY <1>9 DEF Handshake, Fails
    <3>1. at' \in [Conn -> Thread]
      BY <3>7 DEF Thread
    <3>2. active' \in [Conn -> BOOLEAN]
      BY <3>7
    <3>3. ssl' \in [Conn -> {"null", "live", "freed"}]
      BY <1>9 DEF Handshake
    <3>4. secure' \in [Conn -> BOOLEAN]
      BY <1>9 DEF Handshake
    <3>5. failed' \in [Conn -> BOOLEAN]
      BY <1>9 DEF Handshake, Fails
    <3>6. QED
      BY <1>9, <3>1, <3>2, <3>3, <3>4, <3>5 DEF Handshake
  <2>2. SessionInv(c)'
    BY <1>9 DEF Handshake, Fails, SessionInv, Thread
  <2>3. Elsewhere(c)
    BY <1>9 DEF Handshake, Fails, Elsewhere
  <2>4. QED
    BY <2>1, <2>2, <2>3, OneSession
<1>10. ASSUME NEW c \in Conn, ThreadEnds(c) PROVE SessionsInv'
  <2>1. ChannelTypeOK' /\ shutdown' = shutdown
    BY <1>10 DEF ThreadEnds, Thread
  <2>2. SessionInv(c)'
    BY <1>10 DEF ThreadEnds, SessionInv, Thread
  <2>3. Elsewhere(c)
    BY <1>10 DEF ThreadEnds, Elsewhere
  <2>4. QED
    BY <2>1, <2>2, <2>3, OneSession
<1>11. ASSUME NEW c \in Conn, DieOfPointer(c) PROVE SessionsInv'
  <2>1. ChannelTypeOK' /\ shutdown' = shutdown
    BY <1>11 DEF DieOfPointer, Thread
  <2>2. SessionInv(c)'
    BY <1>11 DEF DieOfPointer, SessionInv, Thread
  <2>3. Elsewhere(c)
    BY <1>11 DEF DieOfPointer, Elsewhere
  <2>4. QED
    BY <2>1, <2>2, <2>3, OneSession
<1>12. ASSUME NEW c \in Conn, StopFrees(c) PROVE SessionsInv'
  <2>1. ChannelTypeOK' /\ shutdown' = shutdown
    BY <1>12 DEF StopFrees, Thread
  <2>2. SessionInv(c)'
    BY <1>12 DEF StopFrees, SessionInv, Thread
  <2>3. Elsewhere(c)
    BY <1>12 DEF StopFrees, Elsewhere
  <2>4. QED
    BY <2>1, <2>2, <2>3, OneSession
<1>13. ASSUME NEW c \in Conn, StopNulls(c) PROVE SessionsInv'
  <2>1. ChannelTypeOK' /\ shutdown' = shutdown
    BY <1>13 DEF StopNulls, Thread
  <2>2. SessionInv(c)'
    BY <1>13 DEF StopNulls, SessionInv, Thread
  <2>3. Elsewhere(c)
    BY <1>13 DEF StopNulls, Elsewhere
  <2>4. QED
    BY <2>1, <2>2, <2>3, OneSession
<1>14. ASSUME NEW c \in Conn, StopCloses(c) PROVE SessionsInv'
  <2>1. ChannelTypeOK' /\ shutdown' = shutdown
    BY <1>14 DEF StopCloses, Thread
  <2>2. SessionInv(c)'
    BY <1>14 DEF StopCloses, SessionInv, Thread
  <2>3. Elsewhere(c)
    BY <1>14 DEF StopCloses, Elsewhere
  <2>4. QED
    BY <2>1, <2>2, <2>3, OneSession
<1>15. ASSUME NEW c \in Conn, StopJoins(c) PROVE SessionsInv'
  <2>1. ChannelTypeOK' /\ shutdown' = shutdown
    BY <1>15 DEF StopJoins, Thread
  <2>2. SessionInv(c)'
    BY <1>15 DEF StopJoins, SessionInv, Thread
  <2>3. Elsewhere(c)
    BY <1>15 DEF StopJoins, Elsewhere
  <2>4. QED
    BY <2>1, <2>2, <2>3, OneSession
<1>16. ASSUME NEW c \in Conn, Activate(c) PROVE SessionsInv'
  <2>1. ChannelTypeOK' /\ shutdown' = shutdown
    BY <1>16 DEF Activate, Thread
  <2>2. SessionInv(c)'
    BY <1>16 DEF Activate, SessionInv, Thread
  <2>3. Elsewhere(c)
    BY <1>16 DEF Activate, Elsewhere
  <2>4. QED
    BY <2>1, <2>2, <2>3, OneSession
<1>17. ASSUME NEW c \in Conn, Spawn(c) PROVE SessionsInv'
  <2>1. ChannelTypeOK' /\ shutdown' = shutdown
    BY <1>17 DEF Spawn, Thread
  <2>2. SessionInv(c)'
    BY <1>17 DEF Spawn, SessionInv, Thread
  <2>3. Elsewhere(c)
    BY <1>17 DEF Spawn, Elsewhere
  <2>4. QED
    BY <2>1, <2>2, <2>3, OneSession
<1>18. ASSUME NEW c \in Conn, StopCalls(c) PROVE SessionsInv'
  <2>1. ChannelTypeOK' /\ shutdown' = shutdown
    BY <1>18 DEF StopCalls, Thread
  <2>2. SessionInv(c)'
    <3>1. stopAt[c] = "no" /\ (shutdown \/ ~active[c])
      BY <1>18 DEF StopCalls, Unlocked
    <3>2. /\ stopAt'[c] = "called" /\ early'[c] = (at[c] = "added")
          /\ life' = life /\ active' = active /\ ssl' = ssl /\ via' = via
          /\ at' = at /\ secure' = secure /\ next' = next
          /\ failed' = failed /\ shutdown' = shutdown
          /\ life[c] = "open"
      BY <1>18 DEF StopCalls
    <3>3. SessionInv(c)
      OBVIOUS
    <3>4. QED
      BY <3>1, <3>2, <3>3 DEF SessionInv
  <2>3. Elsewhere(c)
    BY <1>18 DEF StopCalls, Elsewhere
  <2>4. QED
    BY <2>1, <2>2, <2>3, OneSession
<1>19. ASSUME NEW c \in Conn, StopDeactivates(c) PROVE SessionsInv'
  <2>1. ChannelTypeOK' /\ shutdown' = shutdown
    BY <1>19 DEF StopDeactivates, Thread
  <2>2. SessionInv(c)'
    BY <1>19 DEF StopDeactivates, SessionInv, Thread
  <2>3. Elsewhere(c)
    BY <1>19 DEF StopDeactivates, Elsewhere
  <2>4. QED
    BY <2>1, <2>2, <2>3, OneSession
<1>20. ASSUME NEW c \in Conn, StopReturns(c) PROVE SessionsInv'
  <2>1. ChannelTypeOK' /\ shutdown' = shutdown
    BY <1>20 DEF StopReturns, Thread
  <2>2. SessionInv(c)'
    BY <1>20 DEF StopReturns, SessionInv, Thread
  <2>3. Elsewhere(c)
    BY <1>20 DEF StopReturns, Elsewhere
  <2>4. QED
    BY <2>1, <2>2, <2>3, OneSession
<1>21. CASE BeginShutdown
  <2>1. ChannelTypeOK'
    BY <1>21 DEF BeginShutdown, Thread
  <2>2. \A c \in Conn : SessionInv(c)'
    BY <1>21 DEF BeginShutdown, SessionInv
  <2>3. QED
    BY <2>1, <2>2
<1>22. CASE UNCHANGED channelVars
  BY <1>22 DEF channelVars, SessionInv
<1>23. QED
  BY <1>1, <1>2, <1>3, <1>4, <1>5, <1>6, <1>7, <1>8, <1>9, <1>10, <1>11, <1>12, <1>13, <1>14, <1>15, <1>16, <1>17,
     <1>18, <1>19, <1>20, <1>21, <1>22
     DEF Next, Accepting, TestConnectionLimit, Sessions, ThreadSteps, StopSteps,
         Terminated, vars

-----------------------------------------------------------------------------
(***************************************************************************)
(* The theorems                                                            *)
(***************************************************************************)

Inv == LimiterInv /\ SessionsInv

THEOREM InductiveInvariant == Spec => []Inv
<1>1. Init => Inv
  BY LimiterInit, SessionsInit DEF Init, Inv
<1>2. Inv /\ [Next]_vars => Inv'
  BY LimiterStep, SessionStep DEF Inv
<1>3. QED
  BY <1>1, <1>2, PTL DEF Spec

\* The variables keep their types.
THEOREM TypeCorrect == Spec => []TypeOK
<1>1. Inv => TypeOK
  BY DEF Inv, LimiterInv, SessionsInv, TypeOK
<1>2. QED
  BY <1>1, InductiveInvariant, PTL

\* Of the requests of an address that were let through, any 2 * RateLimit + 1
\* take more than a window's length, whatever the limit and the length: the
\* two allowances that meet at the edge of a window (isAllowed()) are the worst.
THEOREM TwoAllowances == Spec => []TwoWindowsAtMost
<1>1. Inv => TwoWindowsAtMost
  BY DEF Inv, LimiterInv, Kept, Spaced, TwoWindowsAtMost
<1>2. QED
  BY <1>1, InductiveInvariant, PTL

\* isAllowed() refuses an address only if RateLimit of its requests were let
\* through within the last window's length.
THEOREM RefusalIsEarned == Spec => RefusedOnlyIfBusy
<1> DEFINE Refusal ==
      (test = "rate" /\ test' = "accept" /\ RateLimit > 0)
        => LET n == Len(stamps[caller])
           IN /\ n >= RateLimit
              /\ now - stamps[caller][n - RateLimit + 1] < Minute
<1>1. ASSUME Inv, [Next]_vars PROVE Refusal
  <2> SUFFICES ASSUME test = "rate", test' = "accept", RateLimit > 0
               PROVE  /\ Len(stamps[caller]) >= RateLimit
                      /\ now - stamps[caller][Len(stamps[caller]) - RateLimit + 1] < Minute
    OBVIOUS
  <2> USE LimiterNumbers
  <2>1. IsAllowed
    BY <1>1 DEF Next, Tick, Accepting, AcceptClient, RecordRequest, TestConnectionLimit,
                Sessions, Terminated, vars, admissionVars
  <2>2. /\ caller \in Address /\ now \in Nat \ {Origin}
        /\ window \in [Address -> Entry] /\ stamps[caller] \in Seq(Nat)
        /\ Kept(window[caller], stamps[caller], now)
    BY <1>1 DEF Inv, LimiterInv, AdmissionTypeOK
  <2> DEFINE e == Renewed(window[caller])
             n == Len(stamps[caller])
  <2>3. /\ e \in Entry /\ Kept(e, stamps[caller], now) /\ now - e.start < Minute
    BY <2>2, RenewKeeps DEF Running
  <2>4. e.count >= RateLimit
    BY <2>1, <2>2 DEF IsAllowed, Done
  <2> HIDE DEF e
  <2>5. e.count \in Nat /\ e.start \in Nat /\ n \in Nat /\ e.count <= n
    BY <2>2, <2>3 DEF Entry, Kept, Bounded
  <2>6. e.count = RateLimit
    BY <2>3, <2>4, <2>5 DEF Kept, Bounded
  <2>7. n - RateLimit + 1 \in 1 .. n /\ n - RateLimit + 1 > n - e.count
    BY <2>5, <2>6
  <2>8. e.start <= stamps[caller][n - RateLimit + 1]
    BY <2>3, <2>7 DEF Kept, Placed
  <2>9. stamps[caller][n - RateLimit + 1] \in Nat
    BY <2>2, <2>7
  <2>10. QED
    <3>1. n >= RateLimit
      BY <2>5, <2>6
    <3>2. now - stamps[caller][n - RateLimit + 1] < Minute
      BY <2>2, <2>3, <2>5, <2>8, <2>9
    <3>3. QED
      BY <3>1, <3>2
<1>2. Inv /\ [Next]_vars => [Refusal]_admissionVars
  BY <1>1
<1>3. QED
  BY <1>2, InductiveInvariant, PTL DEF Spec, RefusedOnlyIfBusy

\* Before the server shuts down, no stop() frees ssl_ under a thread that
\* waits for a command, and no command is read in clear after AUTH, if the
\* cleanup did not meet the connection between addConnection() and start().
THEOREM CommandsArePrivate == Spec => []CommandsStayPrivate
<1>1. Inv => CommandsStayPrivate
  BY DEF Inv, SessionsInv, SessionInv, CommandsStayPrivate
<1>2. QED
  BY <1>1, InductiveInvariant, PTL

\* sendResponse() falls back to clear text only in a session that is being
\* stopped, and that has ended unless the stop() came before its start().
THEOREM RepliesArePrivate == Spec => []RepliesStayPrivate
<1>1. Inv => RepliesStayPrivate
  BY DEF Inv, SessionsInv, SessionInv, RepliesStayPrivate
<1>2. QED
  BY <1>1, InductiveInvariant, PTL
=============================================================================
