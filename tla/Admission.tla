----------------------------- MODULE Admission -----------------------------
(***************************************************************************)
(* The tests that the accept thread makes before it takes a connection     *)
(* (FTPServer::serverLoop, core/server.cpp), and the limiter it asks       *)
(* (FTPRateLimiter, security/rate_limiter.cpp): per address, a window of   *)
(* one minute and the requests in it.  The thread asks isAllowed() and     *)
(* then calls recordRequest(), each of which reads the clock for itself,   *)
(* so that a window may end in between.  A window begins with the first    *)
(* request after the end of the last one, and an entry is never removed.   *)
(***************************************************************************)
EXTENDS Integers, Sequences

CONSTANTS
  Address,    \* addresses of clients
  Minute,     \* the length of a window, in ticks of the clock
  RateLimit,  \* rate_limit.max_requests_per_minute
  Nobody,     \* no client is being tested
  MaxTime,    \* bound: the clock
  MaxRequests \* bound: requests of one address

VARIABLES
  now,        \* the steady clock
  window,     \* window[a] : RateLimitEntry of the address
  caller,     \* the address whose connection was accepted last
  test,       \* what serverLoop() does next with it
  stamps      \* history: when the requests of an address were recorded

admissionVars == <<now, window, caller, test, stamps>>

ASSUME LimiterNumbers ==
  /\ Minute \in Nat \ {0}
  /\ RateLimit \in Int
  /\ MaxTime \in Nat
  /\ MaxRequests \in Nat
ASSUME NobodyIsNoAddress == Nobody \notin Address

\* The clock of a machine that runs is not at its origin, which stands for
\* a window that has not begun.
Origin == 0
Entry == [start : Nat, count : Nat]

AdmissionTypeOK ==
  /\ now \in Nat \ {Origin}
  /\ window \in [Address -> Entry]
  /\ caller \in Address \cup {Nobody}
  /\ test \in {"accept", "rate", "record", "count"}
  /\ stamps \in [Address -> Seq(Nat)]

AdmissionInit ==
  /\ now = 1
  /\ window = [a \in Address |-> [start |-> Origin, count |-> 0]]
  /\ caller = Nobody
  /\ test = "accept"
  /\ stamps = [a \in Address |-> << >>]

\* A window that ends a tick early.
RenewedEarly(e) ==
  IF e.start = Origin \/ now - e.start >= Minute - 1
  THEN [start |-> now, count |-> 0]
  ELSE e

\* A new window that takes the requests of the old one over.
RenewedKeepsCount(e) ==
  IF e.start = Origin \/ now - e.start >= Minute
  THEN [start |-> now, count |-> e.count]
  ELSE e

\* The entry as both functions leave it before they look at the count.
Renewed(e) ==
  IF e.start = Origin \/ now - e.start >= Minute
  THEN [start |-> now, count |-> 0]
  ELSE e

Tick ==
  /\ now < MaxTime
  /\ now' = now + 1
  /\ UNCHANGED <<window, caller, test, stamps>>

\* accept() returns a client.  The rules of IPAccessControl let everybody
\* pass: the server never adds one.
AcceptClient(a) ==
  /\ test = "accept"
  /\ Len(stamps[a]) < MaxRequests
  /\ caller' = a
  /\ test' = "rate"
  /\ UNCHANGED <<now, window, stamps>>

\* The loop goes back to accept().
Done == caller' = Nobody /\ test' = "accept"

IsAllowed ==
  /\ test = "rate"
  /\ window' = [window EXCEPT ![caller] = Renewed(@)]
  /\ IF window'[caller].count >= RateLimit
     THEN Done
     ELSE test' = "record" /\ caller' = caller
  /\ UNCHANGED <<now, stamps>>

RecordRequest ==
  /\ test = "record"
  /\ LET e == Renewed(window[caller])
     IN window' = [window EXCEPT ![caller] = [e EXCEPT !.count = @ + 1]]
  /\ stamps' = [stamps EXCEPT ![caller] = Append(@, now)]
  /\ test' = "count"
  /\ UNCHANGED <<now, caller>>

-----------------------------------------------------------------------------
(***************************************************************************)
(* Properties                                                              *)
(***************************************************************************)

\* However the requests of an address fall, any RateLimit * 2 + 1 of them
\* that were let through take more than a minute: two windows can meet inside
\* a minute, each with its full allowance, but not three.
TwoWindowsAtMost ==
  \A a \in Address : \A i, j \in 1 .. Len(stamps[a]) :
    (RateLimit >= 0 /\ j - i = 2 * RateLimit)
      => stamps[a][j] - stamps[a][i] > Minute

\* An address is refused only if it has used its allowance within the last
\* minute.
RefusedOnlyIfBusy ==
  [][(test = "rate" /\ test' = "accept" /\ RateLimit > 0)
       => LET n == Len(stamps[caller])
          IN /\ n >= RateLimit
             /\ now - stamps[caller][n - RateLimit + 1] < Minute]_admissionVars
=============================================================================
