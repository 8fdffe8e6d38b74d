--------------------------- MODULE ControlChannel ---------------------------
(***************************************************************************)
(* TLS on the control connection (core/connection.cpp, with SSLContext in  *)
(* security/ssl_context.cpp): the client's thread reads commands and sends *)
(* replies through `ssl_` if ssl_active_ and ssl_ are set, and in clear    *)
(* otherwise, while another thread's stop() frees ssl_, sets it to null    *)
(* and closes the socket.  The pointer is looked at first and used later.  *)
(* Of the commands, only AUTH is told from the others.                     *)
(*                                                                         *)
(* A connection is in the registry before start() sets active_, and the    *)
(* cleanup takes what is not active for what has ended: it may call stop() *)
(* of a session that is about to start, which `early` remembers.           *)
(***************************************************************************)
EXTENDS Naturals

CONSTANTS
  Conn,       \* connections
  ServerCert, \* whether the configuration names a certificate
  HostCert    \* {TRUE, FALSE}, or {FALSE} if no virtual host has a certificate

ASSUME CertIsABoolean == ServerCert \in BOOLEAN
ASSUME HostCertIsPossible == HostCert \in {{FALSE}, {TRUE, FALSE}}

VARIABLES
  life,       \* life[c] : "none", "open": in the registry,
              \*   "erased": left to the thread in handleConnection()
  active,     \* active_
  ctx,        \* ssl_context_: "none", "null" without its ctx_, "ok"
  enabled,    \* ssl_enabled_
  ssl,        \* ssl_: "null", "live", "freed"
  secure,     \* ssl_active_
  at,         \* where the client's thread is
  via,        \* the channel that it has chosen: "tls", "plain"
  next,       \* what it does after the reply: "idle", "create", "ended"
  stopAt,     \* where a stop() by another thread is
  early,      \* history: it was called before start() had set active_
  shutdown,   \* the server shuts down
  alive,      \* the process has not died of a freed pointer
  failed      \* history: an upgrade has failed

channelVars == <<life, active, ctx, enabled, ssl, secure, at, via, next,
                 stopAt, early, shutdown, alive, failed>>

Thread == {"none", "added", "starting", "answer", "write", "idle", "read",
           "obey", "create", "handshake", "ended"}

ChannelTypeOK ==
  /\ life \in [Conn -> {"none", "open", "erased"}]
  /\ active \in [Conn -> BOOLEAN]
  /\ ctx \in [Conn -> {"none", "null", "ok"}]
  /\ enabled \in [Conn -> BOOLEAN]
  /\ ssl \in [Conn -> {"null", "live", "freed"}]
  /\ secure \in [Conn -> BOOLEAN]
  /\ at \in [Conn -> Thread]
  /\ via \in [Conn -> {"tls", "plain"}]
  /\ next \in [Conn -> {"idle", "create", "ended"}]
  /\ stopAt \in [Conn -> {"no", "called", "off", "freed", "nulled", "closed"}]
  /\ early \in [Conn -> BOOLEAN]
  /\ shutdown \in BOOLEAN
  /\ alive \in BOOLEAN
  /\ failed \in [Conn -> BOOLEAN]

All(v) == [c \in Conn |-> v]

ChannelInit ==
  /\ life = All("none") /\ active = All(FALSE)
  /\ ctx = All("none") /\ enabled = All(FALSE)
  /\ ssl = All("null") /\ secure = All(FALSE)
  /\ at = All("none") /\ via = All("plain") /\ next = All("idle")
  /\ stopAt = All("no") /\ early = All(FALSE)
  /\ shutdown = FALSE
  /\ alive = TRUE
  /\ failed = All(FALSE)

\* sendResponse() and readLine() choose.
Channel(c) == IF secure[c] /\ ssl[c] # "null" THEN "tls" ELSE "plain"

\* SSLContext::initialize(): a context without a usable certificate and key
\* keeps nothing of what it had.
Initialized(loads) == IF loads THEN "ok" ELSE "null"

\* The thread is inside, or about to call, a function of OpenSSL with a
\* pointer that has been freed or replaced by null since it was looked at.
Dangling(c) ==
  /\ ssl[c] # "live"
  /\ at[c] = "handshake" \/ (at[c] \in {"read", "write"} /\ via[c] = "tls")

-----------------------------------------------------------------------------
(***************************************************************************)
(* The client's thread                                                     *)
(***************************************************************************)

\* The thread that accepts is in handleConnection(): start() has not made the
\* client's thread, or the object is left to its reference alone.
Handling(c) == at[c] \in {"added", "starting"} \/ life[c] = "erased"

\* The constructor and addConnection(): the certificate of the configuration,
\* if there is one, can be loaded or not.
Open(c) ==
  /\ life[c] = "none"
  /\ life' = [life EXCEPT ![c] = "open"]
  /\ \E loaded \in {ServerCert, FALSE} :
       /\ enabled' = [enabled EXCEPT ![c] = loaded]
       /\ ctx' = [ctx EXCEPT ![c] = IF ServerCert THEN Initialized(loaded)
                                    ELSE "none"]
  /\ at' = [at EXCEPT ![c] = "added"]
  /\ UNCHANGED <<active, ssl, secure, via, next, stopAt, early, shutdown,
                 alive, failed>>

\* start() sets active_, whatever a stop() has stored there before ...
Activate(c) ==
  /\ at[c] = "added"
  /\ active' = [active EXCEPT ![c] = TRUE]
  /\ at' = [at EXCEPT ![c] = "starting"]
  /\ UNCHANGED <<life, ctx, enabled, ssl, secure, via, next, stopAt, early,
                 shutdown, alive, failed>>

\* ... and makes the client's thread, which greets.
Spawn(c) ==
  /\ at[c] = "starting"
  /\ at' = [at EXCEPT ![c] = "answer"]
  /\ UNCHANGED <<life, active, ctx, enabled, ssl, secure, via, next, stopAt,
                 early, shutdown, alive, failed>>

\* The loop of handleClient(), and the choice in readLine().
ChooseRead(c) ==
  /\ at[c] = "idle"
  /\ IF active[c] /\ stopAt[c] # "closed"
     THEN /\ at' = [at EXCEPT ![c] = "read"]
          /\ via' = [via EXCEPT ![c] = Channel(c)]
          /\ active' = active
     ELSE /\ at' = [at EXCEPT ![c] = "ended"]
          /\ active' = [active EXCEPT ![c] = FALSE]
          /\ via' = via
  /\ UNCHANGED <<life, ctx, enabled, ssl, secure, next, stopAt, early,
                 shutdown, alive, failed>>

\* A line has come, or the part of it that there is when reading fails; or one
\* byte of it; or the connection is over.
ReadLine(c) ==
  /\ at[c] = "read"
  /\ \E then \in {"obey", "idle", "ended"} : at' = [at EXCEPT ![c] = then]
  /\ active' = active \/ active' = [active EXCEPT ![c] = FALSE]
  /\ UNCHANGED <<life, ctx, enabled, ssl, secure, via, next, stopAt, early,
                 shutdown, alive, failed>>

Replies(c, then) ==
  /\ at' = [at EXCEPT ![c] = "answer"]
  /\ next' = [next EXCEPT ![c] = then]

\* Any command but AUTH; QUIT leaves the loop.
ObeyOther(c) ==
  /\ at[c] = "obey"
  /\ \E then \in {"idle", "ended"} : Replies(c, then)
  /\ UNCHANGED <<life, active, ctx, enabled, ssl, secure, via, stopAt, early,
                 shutdown, alive, failed>>

\* AUTH that turns the flag on with its reply.
AuthSecuresAtOnce(c) ==
  /\ at[c] = "obey"
  /\ IF ~secure[c] /\ enabled[c] /\ ctx[c] # "none"
     THEN secure' = [secure EXCEPT ![c] = TRUE] /\ Replies(c, "create")
     ELSE secure' = secure /\ Replies(c, "idle")
  /\ UNCHANGED <<life, active, ctx, enabled, ssl, via, stopAt, early, shutdown,
                 alive, failed>>

\* handleAUTH(): a certificate of the host that HOST has selected is loaded
\* in place of what the context had, which it loses if that fails.
HandleAUTH(c) ==
  /\ at[c] = "obey"
  /\ \E ofHost \in HostCert, loads \in BOOLEAN :
       LET replaced == ~secure[c] /\ ofHost
           offers == ~secure[c] /\ enabled'[c] /\ ctx'[c] # "none"
       IN /\ ctx' = IF replaced THEN [ctx EXCEPT ![c] = Initialized(loads)]
                    ELSE ctx
          /\ enabled' = [enabled EXCEPT ![c] = @ \/ (replaced /\ loads)]
          /\ Replies(c, IF offers THEN "create" ELSE "idle")
  /\ UNCHANGED <<life, active, ssl, secure, via, stopAt, early, shutdown,
                 alive, failed>>

\* sendResponse(): nothing is sent on a closed socket.
ChooseWrite(c) ==
  /\ at[c] = "answer"
  /\ IF stopAt[c] = "closed"
     THEN at' = [at EXCEPT ![c] = next[c]] /\ via' = via
     ELSE /\ at' = [at EXCEPT ![c] = "write"]
          /\ via' = [via EXCEPT ![c] = Channel(c)]
  /\ UNCHANGED <<life, active, ctx, enabled, ssl, secure, next, stopAt, early,
                 shutdown, alive, failed>>

\* A line of the reply is sent or not; an answer may have more lines.
Write(c) ==
  /\ at[c] = "write"
  /\ \E more \in BOOLEAN :
       at' = [at EXCEPT ![c] = IF more /\ next[c] = "idle" THEN "answer"
                               ELSE next[c]]
  /\ active' = active \/ active' = [active EXCEPT ![c] = FALSE]
  /\ UNCHANGED <<life, ctx, enabled, ssl, secure, via, next, stopAt, early,
                 shutdown, alive, failed>>

Fails(c) ==
  /\ active' = [active EXCEPT ![c] = FALSE]
  /\ failed' = [failed EXCEPT ![c] = TRUE]
  /\ at' = [at EXCEPT ![c] = "idle"]

\* upgradeToSSL(): createSSL() needs the context's ctx_.
CreateSSL(c) ==
  /\ at[c] = "create"
  /\ \/ /\ ctx[c] = "ok"
        /\ ssl' = [ssl EXCEPT ![c] = "live"]
        /\ at' = [at EXCEPT ![c] = "handshake"]
        /\ UNCHANGED <<active, failed>>
     \/ Fails(c) /\ ssl' = [ssl EXCEPT ![c] = "null"]
  /\ UNCHANGED <<life, ctx, enabled, secure, via, next, stopAt, early,
                 shutdown, alive>>

\* acceptSSL() ends: the connection is secure, or it is given up.
Handshake(c) ==
  /\ at[c] = "handshake"
  /\ \/ /\ secure' = [secure EXCEPT ![c] = TRUE]
        /\ at' = [at EXCEPT ![c] = "idle"]
        /\ UNCHANGED <<ssl, active, failed>>
     \/ /\ Fails(c)
        /\ ssl' = [ssl EXCEPT ![c] = "null"]
        /\ secure' = secure
  /\ UNCHANGED <<life, ctx, enabled, via, next, stopAt, early, shutdown,
                 alive>>

\* The thread leaves handleClient(); line 356.
ThreadEnds(c) ==
  /\ at[c] = "ended" /\ active[c]
  /\ active' = [active EXCEPT ![c] = FALSE]
  /\ UNCHANGED <<life, ctx, enabled, ssl, secure, at, via, next, stopAt, early,
                 shutdown, alive, failed>>

\* What a freed pointer can lead to, beside everything above.
DieOfPointer(c) ==
  /\ Dangling(c)
  /\ alive' = FALSE
  /\ UNCHANGED <<life, active, ctx, enabled, ssl, secure, at, via, next,
                 stopAt, early, shutdown, failed>>

-----------------------------------------------------------------------------
(***************************************************************************)
(* stop(), in the cleanup thread or in the thread that shuts down          *)
(***************************************************************************)

BeginShutdown ==
  /\ ~shutdown
  /\ shutdown' = TRUE
  /\ UNCHANGED <<life, active, ctx, enabled, ssl, secure, at, via, next,
                 stopAt, early, alive, failed>>

\* connections_mutex_, which is held over every stop() of what is registered.
Unlocked == \A c \in Conn : life[c] = "open" => stopAt[c] = "no"

\* A cleanup that does not look whether the session is active.
StopCallsAny(c) ==
  /\ life[c] = "open" /\ Unlocked
  /\ stopAt' = [stopAt EXCEPT ![c] = "called"]
  /\ early' = [early EXCEPT ![c] = at[c] = "added"]
  /\ UNCHANGED <<life, active, ctx, enabled, ssl, secure, at, via, next,
                 shutdown, alive, failed>>

\* The cleanup stops what is not active, the shutdown everything.
StopCalls(c) ==
  /\ life[c] = "open" /\ Unlocked
  /\ shutdown \/ ~active[c]
  /\ stopAt' = [stopAt EXCEPT ![c] = "called"]
  /\ early' = [early EXCEPT ![c] = at[c] = "added"]
  /\ UNCHANGED <<life, active, ctx, enabled, ssl, secure, at, via, next,
                 shutdown, alive, failed>>

StopDeactivates(c) ==
  /\ stopAt[c] = "called"
  /\ active' = [active EXCEPT ![c] = FALSE]
  /\ stopAt' = [stopAt EXCEPT ![c] = "off"]
  /\ UNCHANGED <<life, ctx, enabled, ssl, secure, at, via, next, early,
                 shutdown, alive, failed>>

StopFrees(c) ==
  /\ stopAt[c] = "off"
  /\ ssl' = [ssl EXCEPT ![c] = IF @ = "live" THEN "freed" ELSE @]
  /\ stopAt' = [stopAt EXCEPT ![c] = "freed"]
  /\ UNCHANGED <<life, active, ctx, enabled, secure, at, via, next, early,
                 shutdown, alive, failed>>

StopNulls(c) ==
  /\ stopAt[c] = "freed"
  /\ ssl' = [ssl EXCEPT ![c] = IF @ = "freed" THEN "null" ELSE @]
  /\ stopAt' = [stopAt EXCEPT ![c] = "nulled"]
  /\ UNCHANGED <<life, active, ctx, enabled, secure, at, via, next, early,
                 shutdown, alive, failed>>

StopCloses(c) ==
  /\ stopAt[c] = "nulled"
  /\ stopAt' = [stopAt EXCEPT ![c] = "closed"]
  /\ UNCHANGED <<life, active, ctx, enabled, ssl, secure, at, via, next,
                 early, shutdown, alive, failed>>

\* There is no thread to join yet, and the cleanup or the shutdown erases what
\* handleConnection() still refers to.
StopReturns(c) ==
  /\ stopAt[c] = "closed" /\ life[c] = "open"
  /\ at[c] \in {"added", "starting"}
  /\ life' = [life EXCEPT ![c] = "erased"]
  /\ UNCHANGED <<active, ctx, enabled, ssl, secure, at, via, next, stopAt,
                 early, shutdown, alive, failed>>

\* The thread is joined, here or in the stop() of the destructor, and the
\* object goes, with what it still has.
StopJoins(c) ==
  /\ stopAt[c] = "closed" /\ at[c] = "ended"
  /\ life' = [life EXCEPT ![c] = "none"]
  /\ active' = [active EXCEPT ![c] = FALSE]
  /\ ctx' = [ctx EXCEPT ![c] = "none"]
  /\ enabled' = [enabled EXCEPT ![c] = FALSE]
  /\ ssl' = [ssl EXCEPT ![c] = "null"]
  /\ secure' = [secure EXCEPT ![c] = FALSE]
  /\ at' = [at EXCEPT ![c] = "none"]
  /\ via' = [via EXCEPT ![c] = "plain"]
  /\ next' = [next EXCEPT ![c] = "idle"]
  /\ stopAt' = [stopAt EXCEPT ![c] = "no"]
  /\ early' = [early EXCEPT ![c] = FALSE]
  /\ failed' = [failed EXCEPT ![c] = FALSE]
  /\ UNCHANGED <<shutdown, alive>>

ThreadSteps(c) ==
  \/ ChooseRead(c) \/ ReadLine(c) \/ ObeyOther(c) \/ HandleAUTH(c)
  \/ ChooseWrite(c) \/ Write(c) \/ CreateSSL(c) \/ Handshake(c)
  \/ ThreadEnds(c) \/ DieOfPointer(c)

StopSteps(c) ==
  \/ StopCalls(c) \/ StopDeactivates(c) \/ StopFrees(c) \/ StopNulls(c)
  \/ StopCloses(c) \/ StopReturns(c) \/ StopJoins(c)

-----------------------------------------------------------------------------
(***************************************************************************)
(* Properties                                                              *)
(***************************************************************************)

\* Until the server shuts down, no session that waits for a command is
\* stopped under it or has failed to turn secure, and after AUTH each command
\* comes through TLS; except in a session that the cleanup met before start()
\* had set active_, which it may stop at any time.
CommandsStayPrivate ==
  \A c \in Conn :
    (at[c] = "read" /\ ~shutdown /\ ~early[c])
      => /\ stopAt[c] = "no" /\ ~failed[c]
         /\ secure[c] => (via[c] = "tls" /\ ssl[c] = "live")

\* After AUTH a reply is sent in clear only in a session that is being stopped
\* and has ended; except, again, in one that was met before it had started,
\* whose start() may have set active_ after the stop() had cleared it.
RepliesStayPrivate ==
  \A c \in Conn :
    (at[c] = "write" /\ via[c] = "plain" /\ secure[c])
      => stopAt[c] # "no" /\ (~active[c] \/ early[c])
=============================================================================
